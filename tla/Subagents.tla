------------------------------ MODULE Subagents ------------------------------
(***************************************************************************)
(* The subagent execution engine: SubagentManager and SubagentWorker       *)
(* (crates/gocode-agent/src/subagent_manager.rs), the agent_spawn tool     *)
(* (agent_spawn_tool.rs), the record store (crates/gocode-core/src/        *)
(* subagent.rs) and the supervisor's /agent commands (crates/gocode/src/   *)
(* main.rs).                                                               *)
(*                                                                         *)
(* Processes: the supervisor's command loop (one command at a time), one   *)
(* worker task per subagent, and a second gocode process that boots on the *)
(* same state directory.  Steps are split at every await and every lock    *)
(* release, because the tokio runtime is multi-threaded and because a task *)
(* whose future is dropped stops exactly at an await.                      *)
(***************************************************************************)
EXTENDS Naturals, FiniteSets

CONSTANTS
    Ids,              \* subagent ids, each used for at most one spawn
    NoId,             \* "no subagent": the parent of a top-level spawn
    Messages,         \* texts the supervisor may send, each once per subagent
    Names,            \* worktree directory names
    ShortName,        \* the worktree name made from an id's first 8 characters
    Requests,         \* the spawn requests: mode, permission mode, worktree flag
    MaxConcurrent,    \* SubagentLimits::max_concurrent
    MaxCrashes,       \* bound: process exits followed by a restart
    MaxSaveFailures,  \* bound: record writes and removals that fail
    MaxForeignBoots   \* bound: boots of another process on the same directory

\* Research, plan and review modes are all read-only and behave alike here.
Modes == {"research", "implement"}
\* PermissionMode; approve and auto are told apart by the tools, not by spawn.
PermissionModes == {"plan", "edit"}

ASSUME IdsAssumption ==
    /\ IsFiniteSet(Ids)
    /\ NoId \notin Ids
ASSUME NamesAssumption == ShortName \in [Ids -> Names]
ASSUME RequestsAssumption ==
    Requests \subseteq [mode : Modes, perm : PermissionModes, worktree : BOOLEAN]
ASSUME LimitsAssumption ==
    /\ MaxConcurrent \in Nat
    /\ MaxCrashes \in Nat
    /\ MaxSaveFailures \in Nat
    /\ MaxForeignBoots \in Nat

MAX_SUBAGENT_DEPTH == 2
MIN_CONCURRENCY_FOR_NESTING == 2

-----------------------------------------------------------------------------
(* Records                                                                 *)

LiveStatus == {"Queued", "Running", "WaitingInput"}
TerminalStatus == {"Completed", "Failed", "Stopped", "TimedOut", "Interrupted"}

\* SubagentStatus::is_terminal.
is_terminal(st) == st \in TerminalStatus

\* What `result` holds: nothing, a parsed final report, or an error with
\* whatever text earlier runs produced.
Results == {"none", "report", "error"}

\* The part of a SubagentRecord that changes; "absent" is no record at all.
Record == [status : LiveStatus \cup TerminalStatus \cup {"absent"},
           messages : SUBSET Messages,
           result : Results]

Absent == [status |-> "absent", messages |-> {}, result |-> "none"]

\* SubagentRecord::new.
NewRecord == [status |-> "Queued", messages |-> {}, result |-> "none"]

\* SubagentRecord::set_status and ::push_message.
set_status(r, st) == [r EXCEPT !.status = st]
push_message(r, m) == [r EXCEPT !.messages = @ \cup {m}]

\* The part of a record that every copy shares from spawn on.
Meta == [mode : Modes, perm : PermissionModes, depth : Nat,
         parent : Ids \cup {NoId}, worktree : BOOLEAN]
NoMeta == [mode |-> "research", perm |-> "plan", depth |-> 0,
           parent |-> NoId, worktree |-> FALSE]

VARIABLES
    disk,       \* <state_dir>/subagents/<id>.json
    records,    \* SubagentManager::records
    meta,       \* the immutable half of each record
    pc,         \* where each subagent's spawn or worker is
    local,      \* the worker's own copy of its record
    child,      \* the child a worker's agent_spawn call is waiting for
    text,       \* workers whose earlier Agent::run produced text (last_text)
    pending,    \* SubagentManager::pending_messages
    tokens,     \* ids with an entry in SubagentManager::cancel_tokens
    cancelled,  \* ids whose token has been cancelled
    permits,    \* free permits of the concurrency semaphore
    claimed,    \* SubagentManager::claimed_worktrees
    worktrees,  \* the worktrees git has on disk
    sup,        \* the supervisor's command in progress
    scan,       \* records a recover_interrupted pass has listed, not yet saved
    booting,    \* this process is still in recover_interrupted
    budget,     \* what is left of the bounds
    accepted,   \* history: <<id, message>> for which send_message returned Ok
    removed     \* history: worktrees gone by /worktree remove

storeVars == <<disk, worktrees, scan>>
taskVars == <<pc, local, child, text>>
managerVars == <<records, pending, tokens, cancelled, permits, claimed>>
vars == <<disk, records, meta, pc, local, child, text, pending, tokens, cancelled,
          permits, claimed, worktrees, sup, scan, booting, budget,
          accepted, removed>>

-----------------------------------------------------------------------------
(* Where a subagent can be                                                 *)

\* Inside SubagentManager::spawn, at one of its awaits.
SpawnPc == {"claimed", "built", "persisted", "tokened"}
\* Inside drive_turns at an await: tokio::select! may drop the future here.
DroppablePc == {"drive", "spawning", "childwait", "drain",
                "waiting_map", "await", "resume_map"}
\* Holding a semaphore permit.
PermitPc == DroppablePc \cup {"running_map", "running_save", "waiting_save",
                              "resume_save", "finish_map", "finish_save", "finished"}
WorkerPc == PermitPc \cup {"queued"}
\* Over: the spawn returned an error, its future was dropped, the worker
\* returned, or the process exited.
GonePc == {"failed", "abandoned", "done", "dead"}
Pc == {"unborn"} \cup SpawnPc \cup WorkerPc \cup GonePc

\* Semaphore::new(limits.max_concurrent.max(1)).
Slots == IF MaxConcurrent = 0 THEN 1 ELSE MaxConcurrent

\* `msg` is meaningful only for op = "message".
SupIdle == [op |-> "idle", id |-> NoId, msg |-> NoId]
Command == {SupIdle}
           \cup [op : {"spawn", "stop", "cleanup"}, id : Ids, msg : {NoId}]
           \cup [op : {"message"}, id : Ids, msg : Messages]

Instances == {"self", "other"}
NoScan == [i \in Ids |-> Absent]

Init ==
    /\ disk = [i \in Ids |-> Absent]
    /\ records = [i \in Ids |-> Absent]
    /\ meta = [i \in Ids |-> NoMeta]
    /\ pc = [i \in Ids |-> "unborn"]
    /\ local = [i \in Ids |-> Absent]
    /\ child = [i \in Ids |-> NoId]
    /\ text = {}
    /\ pending = [i \in Ids |-> {}]
    /\ tokens = {}
    /\ cancelled = {}
    /\ permits = Slots
    /\ claimed = {}
    /\ worktrees = {}
    /\ sup = SupIdle
    /\ scan = [n \in Instances |-> NoScan]
    /\ booting = FALSE
    /\ budget = [crashes |-> MaxCrashes, failures |-> MaxSaveFailures,
                 boots |-> MaxForeignBoots]
    /\ accepted = {}
    /\ removed = {}

-----------------------------------------------------------------------------
(* save_subagent: an atomic file replacement that may fail.                *)

Save(id, rec) ==
    /\ disk' = [disk EXCEPT ![id] = rec]
    /\ UNCHANGED budget

SaveFails ==
    /\ budget.failures > 0
    /\ budget' = [budget EXCEPT !.failures = @ - 1]
    /\ UNCHANGED disk

-----------------------------------------------------------------------------
(* SubagentManager::spawn                                                  *)

allows_writes(mode) == mode = "implement"

effective_subagent_mode(requested, parent) ==
    IF parent = "plan" /\ allows_writes(requested) THEN "research" ELSE requested

\* The three early returns at the top of spawn.
SpawnAllowed(req, depth) ==
    /\ depth <= MAX_SUBAGENT_DEPTH
    /\ req.worktree => req.mode = "implement"
    /\ req.perm = "plan" => ~(req.mode = "implement" \/ req.worktree)

\* Validation, the new record and, for a writer, the claim on its worktree.
BeginSpawn(id, parent, req, depth) ==
    LET mode == effective_subagent_mode(req.mode, req.perm)
    IN  /\ pc[id] = "unborn"
        /\ SpawnAllowed(req, depth)
        /\ meta' = [meta EXCEPT ![id] = [mode |-> mode, perm |-> req.perm, depth |-> depth,
                                         parent |-> parent, worktree |-> FALSE]]
        /\ IF allows_writes(mode)
           THEN /\ ShortName[id] \notin claimed
                /\ claimed' = claimed \cup {ShortName[id]}
           ELSE UNCHANGED claimed

SpawnEntry(mode) == IF allows_writes(mode) THEN "claimed" ELSE "built"

\* AppCommand::AgentSpawn: the supervisor awaits spawn before its next command.
SpawnTop(id, req) ==
    /\ ~booting /\ sup = SupIdle
    /\ BeginSpawn(id, NoId, req, 1)
    /\ sup' = [op |-> "spawn", id |-> id, msg |-> NoId]
    /\ pc' = [pc EXCEPT ![id] = SpawnEntry(meta'[id].mode)]
    /\ UNCHANGED <<storeVars, records, pending, tokens, cancelled, permits,
                   local, child, text, booting, budget, accepted, removed>>

\* tools_for: a worker has agent_spawn only below the depth limit and with a
\* pool of at least two slots.
MayNest(id) ==
    /\ meta[id].depth < MAX_SUBAGENT_DEPTH
    /\ MaxConcurrent >= MIN_CONCURRENCY_FOR_NESTING

\* AgentSpawnTool::execute up to its call of spawn: the child inherits the
\* parent's permission mode and is one level deeper.
AgentSpawn(p, id, req) ==
    /\ pc[p] = "drive" /\ MayNest(p)
    /\ req.perm = meta[p].perm
    /\ BeginSpawn(id, p, req, meta[p].depth + 1)
    /\ child' = [child EXCEPT ![p] = id]
    /\ pc' = [pc EXCEPT ![p] = "spawning", ![id] = SpawnEntry(meta'[id].mode)]
    /\ UNCHANGED <<storeVars, records, pending, tokens, cancelled, permits,
                   local, text, sup, booting, budget, accepted, removed>>

\* spawn returns to its caller: the supervisor's loop or the parent's tool.
SpawnReturns(id, at, parentAt) ==
    /\ pc' = [i \in Ids |-> IF i = id THEN at
                            ELSE IF i = meta[id].parent THEN parentAt
                            ELSE pc[i]]
    /\ sup' = IF meta[id].parent = NoId THEN SupIdle ELSE sup

\* create_worktree succeeds: it never reuses an existing directory.
WorktreeCreated(id) ==
    /\ pc[id] = "claimed"
    /\ ShortName[id] \notin worktrees
    /\ worktrees' = worktrees \cup {ShortName[id]}
    /\ removed' = removed \ {ShortName[id]}
    /\ meta' = [meta EXCEPT ![id].worktree = TRUE]
    /\ pc' = [pc EXCEPT ![id] = "built"]
    /\ UNCHANGED <<disk, scan, managerVars, local, child, text, sup, booting, budget,
                   accepted>>

\* git fails, or the directory exists: spawn returns Err and keeps the claim.
WorktreeFails(id) ==
    /\ pc[id] = "claimed"
    /\ SpawnReturns(id, "failed", "drive")
    /\ UNCHANGED <<storeVars, managerVars, meta, local, child, text, booting, budget,
                   accepted, removed>>

\* The first write of the record; a failure ends the spawn with Err.
SpawnPersist(id) ==
    /\ pc[id] = "built"
    /\ \/ /\ Save(id, NewRecord)
          /\ pc' = [pc EXCEPT ![id] = "persisted"]
          /\ UNCHANGED sup
       \/ /\ SaveFails
          /\ SpawnReturns(id, "failed", "drive")
    /\ UNCHANGED <<worktrees, scan, managerVars, meta, local, child, text, booting,
                   accepted, removed>>

\* Mutant: the record enters the map before the token does.
SpawnTokenAfterRecord(id) ==
    /\ pc[id] = "persisted"
    /\ records' = [records EXCEPT ![id] = NewRecord]
    /\ pc' = [pc EXCEPT ![id] = "tokened"]
    /\ UNCHANGED <<storeVars, tokens, pending, cancelled, permits, claimed, meta,
                   local, child, text, sup, booting, budget, accepted, removed>>

\* After the Spawned event: the cancellation token enters its map.
SpawnToken(id) ==
    /\ pc[id] = "persisted"
    /\ tokens' = tokens \cup {id}
    /\ pc' = [pc EXCEPT ![id] = "tokened"]
    /\ UNCHANGED <<storeVars, records, pending, cancelled, permits, claimed, meta,
                   local, child, text, sup, booting, budget, accepted, removed>>

\* The record enters the manager's map and the worker task is started with a
\* copy of its own; spawn returns Ok.
SpawnStart(id) ==
    /\ pc[id] = "tokened"
    /\ records' = [records EXCEPT ![id] = NewRecord]
    /\ local' = [local EXCEPT ![id] = NewRecord]
    /\ SpawnReturns(id, "queued", "childwait")
    /\ UNCHANGED <<storeVars, pending, tokens, cancelled, permits, claimed, meta,
                   child, text, booting, budget, accepted, removed>>

-----------------------------------------------------------------------------
(* SubagentWorker::run                                                     *)

\* Mutant: the run starts without holding on to a permit.
AcquireForgotten(id) ==
    /\ pc[id] = "queued"
    /\ permits > 0
    /\ local' = [local EXCEPT ![id] = set_status(@, "Running")]
    /\ pc' = [pc EXCEPT ![id] = "running_map"]
    /\ UNCHANGED <<storeVars, records, pending, tokens, cancelled, permits, claimed, meta,
                   child, text, sup, booting, budget, accepted, removed>>

\* The semaphore grants a permit; a token cancelled while queued ends the run.
Acquire(id) ==
    /\ pc[id] = "queued"
    /\ permits > 0
    /\ permits' = permits - 1
    /\ IF id \in cancelled
       THEN /\ local' = [local EXCEPT ![id] = set_status(@, "Stopped")]
            /\ pc' = [pc EXCEPT ![id] = "finish_map"]
       ELSE /\ local' = [local EXCEPT ![id] = set_status(@, "Running")]
            /\ pc' = [pc EXCEPT ![id] = "running_map"]
    /\ UNCHANGED <<storeVars, records, pending, tokens, cancelled, claimed, meta,
                   child, text, sup, booting, budget, accepted, removed>>

\* update, first half: the worker's copy replaces the record in the map.
MapPc == {"running_map", "waiting_map", "resume_map", "finish_map"}
AfterMap == [running_map |-> "running_save", waiting_map |-> "waiting_save",
             resume_map |-> "resume_save", finish_map |-> "finish_save"]

UpdateMap(id) ==
    /\ pc[id] \in MapPc
    /\ records' = [records EXCEPT ![id] = local[id]]
    /\ pc' = [pc EXCEPT ![id] = AfterMap[pc[id]]]
    /\ UNCHANGED <<storeVars, pending, tokens, cancelled, permits, claimed, meta,
                   local, child, text, sup, booting, budget, accepted, removed>>

\* update, second half: the same copy goes to disk without the lock, and a
\* failed write is ignored.
SavePc == {"running_save", "waiting_save", "resume_save", "finish_save"}
AfterSave == [running_save |-> "drive", waiting_save |-> "await",
              resume_save |-> "drive", finish_save |-> "finished"]

UpdateSave(id) ==
    /\ pc[id] \in SavePc
    /\ Save(id, local[id]) \/ SaveFails
    /\ pc' = [pc EXCEPT ![id] = AfterSave[pc[id]]]
    /\ UNCHANGED <<worktrees, scan, managerVars, meta, local, child, text, sup, booting,
                   accepted, removed>>

\* run returns after the Finished event: the permit and the task's own state
\* are dropped.
Release(id) ==
    /\ pc[id] = "finished"
    /\ permits' = permits + 1
    /\ pc' = [pc EXCEPT ![id] = "done"]
    /\ local' = [local EXCEPT ![id] = Absent]
    /\ child' = [child EXCEPT ![id] = NoId]
    /\ text' = text \ {id}
    /\ UNCHANGED <<storeVars, records, pending, tokens, cancelled, claimed, meta,
                   sup, booting, budget, accepted, removed>>

\* finish: the status, and a result if there is one.
Finished(r, status, result) ==
    [r EXCEPT !.status = status, !.result = IF result = "none" THEN @ ELSE result]

\* A branch of run's select! is taken: the drive_turns future is over or
\* dropped (with an agent_spawn in flight, so is the child's spawn), and
\* finish updates the worker's copy.
Finish(id, status, result) ==
    /\ local' = [local EXCEPT ![id] = Finished(@, status, result)]
    /\ pc' = [i \in Ids |-> IF i = id THEN "finish_map"
                            ELSE IF pc[id] = "spawning" /\ i = child[id] THEN "abandoned"
                            ELSE pc[i]]

\* A dropped `git worktree add` may or may not have created its directory.
DroppedWorktree(id) ==
    \/ UNCHANGED worktrees
    \/ \E c \in Ids :
          /\ pc[id] = "spawning" /\ child[id] = c /\ pc[c] = "claimed"
          /\ worktrees' = worktrees \cup {ShortName[c]}

\* Mutant: the timeout wraps only the provider's turns.
TimeoutOfRunOnly(id) ==
    /\ pc[id] = "drive"
    /\ Finish(id, "TimedOut", "none")
    /\ cancelled' = cancelled \cup {id}
    /\ UNCHANGED <<storeVars, records, pending, tokens, permits, claimed, meta,
                   child, text, sup, booting, budget, accepted, removed>>

\* per_task_timeout elapses.
Timeout(id) ==
    /\ pc[id] \in DroppablePc
    /\ Finish(id, "TimedOut", "none")
    /\ cancelled' = cancelled \cup {id}
    /\ DroppedWorktree(id)
    /\ UNCHANGED <<disk, scan, records, pending, tokens, permits, claimed, meta,
                   child, text, sup, booting, budget, accepted, removed>>

\* cancellation.cancelled() resolves.
ObserveStop(id) ==
    /\ pc[id] \in DroppablePc
    /\ id \in cancelled
    /\ Finish(id, "Stopped", "none")
    /\ DroppedWorktree(id)
    /\ UNCHANGED <<disk, scan, managerVars, meta, child, text, sup, booting, budget,
                   accepted, removed>>

-----------------------------------------------------------------------------
(* SubagentWorker::drive_turns: Agent::run is the provider's choice        *)

\* Agent::run returns Err (a cancelled token is one reason among others).
RunFails(id) ==
    /\ pc[id] = "drive"
    /\ Finish(id, "Failed", "error")
    /\ UNCHANGED <<storeVars, managerVars, meta, child, text, sup, booting, budget,
                   accepted, removed>>

\* The final text carries a NEEDS_INPUT marker.
RunAsks(id) ==
    /\ pc[id] = "drive"
    /\ text' = text \cup {id}
    /\ local' = [local EXCEPT ![id] = set_status(@, "WaitingInput")]
    /\ pc' = [pc EXCEPT ![id] = "waiting_map"]
    /\ UNCHANGED <<storeVars, managerVars, meta, child, sup, booting, budget,
                   accepted, removed>>

\* The final text carries no marker.
RunEnds(id) ==
    /\ pc[id] = "drive"
    /\ text' = text \cup {id}
    /\ pc' = [pc EXCEPT ![id] = "drain"]
    /\ UNCHANGED <<storeVars, managerVars, meta, local, child, sup, booting, budget,
                   accepted, removed>>

\* Everything queued becomes the next prompt.
TakePending(id) == pending' = [pending EXCEPT ![id] = {}]

\* await_message finds the queue non-empty.
TakeAnswer(id) ==
    /\ pc[id] = "await"
    /\ pending[id] # {}
    /\ TakePending(id)
    /\ local' = [local EXCEPT ![id] = set_status(@, "Running")]
    /\ pc' = [pc EXCEPT ![id] = "resume_map"]
    /\ UNCHANGED <<storeVars, records, tokens, cancelled, permits, claimed, meta, child,
                   text, sup, booting, budget, accepted, removed>>

\* The end of a turn: run again on what was queued, or complete.
Drain(id) ==
    /\ pc[id] = "drain"
    /\ IF pending[id] # {}
       THEN /\ TakePending(id)
            /\ pc' = [pc EXCEPT ![id] = "drive"]
            /\ UNCHANGED local
       ELSE /\ Finish(id, "Completed", "report")
            /\ UNCHANGED pending
    /\ UNCHANGED <<storeVars, records, tokens, cancelled, permits, claimed, meta, child,
                   text, sup, booting, budget, accepted, removed>>

\* agent_spawn's polling loop: its own cancellation first, then the child's
\* record on disk.
ChildReturns(id) ==
    /\ pc[id] = "childwait"
    /\ \/ id \in cancelled
       \/ is_terminal(disk[child[id]].status)
    /\ pc' = [pc EXCEPT ![id] = "drive"]
    /\ UNCHANGED <<storeVars, managerVars, meta, local, child, text, sup, booting, budget,
                   accepted, removed>>

-----------------------------------------------------------------------------
(* The supervisor's /agent commands.  Each first resolves the id with      *)
(* find, which reads the disk.                                             *)

SupervisorFinds(id) ==
    /\ ~booting /\ sup = SupIdle
    /\ disk[id].status # "absent"

\* Mutant: the status is not checked.
ReachableWhenTerminal(id) == records[id].status # "absent"

\* Known to this manager and not terminal: send_message and stop go on.
Reachable(id) ==
    /\ records[id].status # "absent"
    /\ ~is_terminal(records[id].status)

\* send_message under the records lock: push, then save the map's record.  A
\* failed save returns Err after the push.
SendMessage(id, m) ==
    /\ SupervisorFinds(id) /\ Reachable(id)
    /\ m \notin records[id].messages /\ <<id, m>> \notin accepted
    /\ records' = [records EXCEPT ![id] = push_message(@, m)]
    /\ \/ /\ Save(id, records'[id])
          /\ sup' = [op |-> "message", id |-> id, msg |-> m]
       \/ /\ SaveFails
          /\ UNCHANGED sup
    /\ UNCHANGED <<worktrees, scan, pending, tokens, cancelled, permits, claimed, meta,
                   taskVars, booting, accepted, removed>>

\* send_message after the lock is dropped: queue for the worker, return Ok.
QueueMessage ==
    /\ sup.op = "message"
    /\ pending' = [pending EXCEPT ![sup.id] = @ \cup {sup.msg}]
    /\ accepted' = accepted \cup {<<sup.id, sup.msg>>}
    /\ sup' = SupIdle
    /\ UNCHANGED <<storeVars, records, tokens, cancelled, permits, claimed, meta, taskVars,
                   booting, budget, removed>>

\* stop, under the records lock.
StopCheck(id) ==
    /\ SupervisorFinds(id) /\ Reachable(id)
    /\ sup' = [op |-> "stop", id |-> id, msg |-> NoId]
    /\ UNCHANGED <<storeVars, managerVars, meta, taskVars, booting, budget,
                   accepted, removed>>

\* stop, after it: cancel the token if there is one, return Ok.
StopCancel ==
    /\ sup.op = "stop"
    /\ cancelled' = IF sup.id \in tokens THEN cancelled \cup {sup.id} ELSE cancelled
    /\ sup' = SupIdle
    /\ UNCHANGED <<storeVars, records, pending, tokens, permits, claimed, meta, taskVars,
                   booting, budget, accepted, removed>>

\* Mutant: cleanup does not wait for a terminal status.
CleanupWhileRunning(id) ==
    /\ SupervisorFinds(id)
    /\ worktrees' = IF meta[id].worktree THEN worktrees \ {ShortName[id]} ELSE worktrees
    /\ sup' = [op |-> "cleanup", id |-> id, msg |-> NoId]
    /\ UNCHANGED <<disk, scan, managerVars, meta, taskVars, booting, budget,
                   accepted, removed>>

\* Mutant: a refused `git worktree remove` does not end the command.
CleanupDespiteRefusal(id) ==
    /\ SupervisorFinds(id)
    /\ is_terminal(disk[id].status)
    /\ sup' = [op |-> "cleanup", id |-> id, msg |-> NoId]
    /\ UNCHANGED <<storeVars, managerVars, meta, taskVars, booting, budget,
                   accepted, removed>>

\* AgentCleanupConfirm for a record whose disk status is terminal: remove the
\* worktree (git may refuse, which ends the command) before the metadata.
CleanupWorktree(id) ==
    /\ SupervisorFinds(id)
    /\ is_terminal(disk[id].status)
    /\ worktrees' = IF meta[id].worktree THEN worktrees \ {ShortName[id]} ELSE worktrees
    /\ meta[id].worktree => ShortName[id] \in worktrees
    /\ sup' = [op |-> "cleanup", id |-> id, msg |-> NoId]
    /\ UNCHANGED <<disk, scan, managerVars, meta, taskVars, booting, budget,
                   accepted, removed>>

\* SubagentManager::delete: the manager forgets the subagent, then its file is
\* removed, which may fail.
Delete ==
    /\ sup.op = "cleanup"
    /\ records' = [records EXCEPT ![sup.id] = Absent]
    /\ tokens' = tokens \ {sup.id}
    /\ Save(sup.id, Absent) \/ SaveFails
    /\ sup' = SupIdle
    /\ UNCHANGED <<worktrees, scan, pending, cancelled, permits, claimed, meta, taskVars,
                   booting, accepted, removed>>

\* /worktree remove: any linked worktree by its name, unless git refuses it for
\* its changes.  Whether a subagent works in it is not asked.
WorktreeRemove(name) ==
    /\ ~booting /\ sup = SupIdle
    /\ name \in worktrees
    /\ worktrees' = worktrees \ {name}
    /\ removed' = removed \cup {name}
    /\ UNCHANGED <<disk, scan, managerVars, meta, taskVars, sup, booting, budget, accepted>>

-----------------------------------------------------------------------------
(* Exit, restart and recover_interrupted                                   *)

\* Mutant: recovery overlooks records that never got a slot.
UnfinishedStarted ==
    [i \in Ids |-> IF disk[i].status \in {"Running", "WaitingInput"} THEN disk[i] ELSE Absent]

\* Mutant: recovery rewrites every record.
UnfinishedAll == disk

\* list_subagents, keeping what recover_interrupted will rewrite.
Unfinished == [i \in Ids |-> IF disk[i].status \in LiveStatus THEN disk[i] ELSE Absent]

\* The process exits or is killed; every task and all of the manager's state
\* go with it.  The next boot lists the records before its command loop.
Restart ==
    /\ budget.crashes > 0
    /\ budget' = [budget EXCEPT !.crashes = @ - 1]
    /\ booting' = TRUE
    /\ scan' = [scan EXCEPT !["self"] = Unfinished]
    /\ pc' = [i \in Ids |-> IF pc[i] = "unborn" THEN "unborn" ELSE "dead"]
    /\ records' = [i \in Ids |-> Absent]
    /\ local' = [i \in Ids |-> Absent]
    /\ child' = [i \in Ids |-> NoId]
    /\ text' = {}
    /\ pending' = [i \in Ids |-> {}]
    /\ tokens' = {}
    /\ cancelled' = {}
    /\ permits' = Slots
    /\ claimed' = {}
    /\ sup' = SupIdle
    /\ UNCHANGED <<disk, worktrees, meta, accepted, removed>>

\* Another gocode process boots on the same state directory.
ForeignBoot ==
    /\ budget.boots > 0
    /\ budget' = [budget EXCEPT !.boots = @ - 1]
    /\ scan' = [scan EXCEPT !["other"] = Unfinished]
    /\ UNCHANGED <<disk, worktrees, managerVars, meta, taskVars, sup, booting,
                   accepted, removed>>

\* recover_interrupted re-saves one record it listed as Interrupted.
RecoverSave(n, id) ==
    /\ scan[n][id].status # "absent"
    /\ scan' = [scan EXCEPT ![n][id] = Absent]
    /\ Save(id, set_status(scan[n][id], "Interrupted")) \/ SaveFails
    /\ UNCHANGED <<worktrees, managerVars, meta, taskVars, sup, booting,
                   accepted, removed>>

\* The command loop starts.
BootDone ==
    /\ booting
    /\ scan["self"] = NoScan
    /\ booting' = FALSE
    /\ UNCHANGED <<storeVars, managerVars, meta, taskVars, sup, budget,
                   accepted, removed>>

-----------------------------------------------------------------------------
SpawnSteps(id) ==
    \/ WorktreeCreated(id) \/ WorktreeFails(id)
    \/ SpawnPersist(id) \/ SpawnToken(id) \/ SpawnStart(id)

WorkerSteps(id) ==
    \/ Acquire(id) \/ UpdateMap(id) \/ UpdateSave(id) \/ Release(id)
    \/ Timeout(id) \/ ObserveStop(id)
    \/ RunFails(id) \/ RunAsks(id) \/ RunEnds(id)
    \/ TakeAnswer(id) \/ Drain(id) \/ ChildReturns(id)

SupervisorSteps ==
    \/ \E id \in Ids, req \in Requests : SpawnTop(id, req)
    \/ \E id \in Ids, m \in Messages : SendMessage(id, m)
    \/ \E id \in Ids : StopCheck(id) \/ CleanupWorktree(id)
    \/ \E name \in Names : WorktreeRemove(name)
    \/ QueueMessage \/ StopCancel \/ Delete

Next ==
    \/ \E id \in Ids : SpawnSteps(id) \/ WorkerSteps(id)
    \/ \E p, id \in Ids, req \in Requests : AgentSpawn(p, id, req)
    \/ SupervisorSteps
    \/ Restart \/ BootDone \/ ForeignBoot
    \/ \E n \in Instances, id \in Ids : RecoverSave(n, id)

Spec == Init /\ [][Next]_vars

-----------------------------------------------------------------------------
(* Fairness.  tokio keeps polling every task, the timeout's timer fires,   *)
(* and the semaphore serves its waiters in order, so a permit that is free *)
(* again and again reaches each of them.  Nothing is assumed of the        *)
(* provider (RunFails, RunAsks, RunEnds), the user or the process's exits. *)

Fairness ==
    /\ \A id \in Ids :
        /\ WF_vars(SpawnSteps(id))
        /\ SF_vars(Acquire(id))
        /\ WF_vars(UpdateMap(id) \/ UpdateSave(id) \/ Release(id) \/ Drain(id))
        /\ WF_vars(Timeout(id))
        /\ WF_vars(RecoverSave("self", id))
    /\ WF_vars(BootDone)
    /\ WF_vars(QueueMessage \/ StopCancel \/ Delete)

FairSpec == Spec /\ Fairness

-----------------------------------------------------------------------------
(* Properties                                                              *)

VarTypes ==
    /\ disk \in [Ids -> Record]
    /\ records \in [Ids -> Record]
    /\ meta \in [Ids -> Meta]
    /\ pc \in [Ids -> Pc]
    /\ local \in [Ids -> Record]
    /\ child \in [Ids -> Ids \cup {NoId}]
    /\ text \subseteq Ids
    /\ pending \in [Ids -> SUBSET Messages]
    /\ tokens \subseteq Ids
    /\ cancelled \subseteq Ids
    /\ permits \in Nat
    /\ claimed \subseteq Names
    /\ worktrees \subseteq Names
    /\ sup \in Command
    /\ scan \in [Instances -> [Ids -> Record]]
    /\ booting \in BOOLEAN
    /\ budget \in [crashes : Nat, failures : Nat, boots : Nat]
    /\ accepted \subseteq Ids \X Messages
    /\ removed \subseteq Names

\* Every variable stays in its type, and the semaphore never has more permits
\* than it was created with.
TypeOK == VarTypes /\ permits <= Slots

\* The subagents the manager reports as running or waiting for input.
Active == {i \in Ids : records[i].status \in {"Running", "WaitingInput"}}

\* No more subagents are active than the semaphore has slots: a permit is
\* taken before the first Running update and given back only after the
\* terminal status is in the map, on every way out of SubagentWorker::run.
ConcurrencyCap == Cardinality(Active) <= Slots

\* A record that is terminal on disk is never written again, only deleted,
\* and a deleted one does not come back: neither a worker's update nor a
\* send_message that raced with it can overwrite a final status.
RecordFinal ==
    [][\A i \in Ids :
        /\ is_terminal(disk[i].status) => disk'[i] \in {disk[i], Absent}
        /\ disk[i] = Absent /\ pc[i] \in GonePc => disk'[i] = Absent]_vars

\* When a worker is over, what /agents reads from disk is what the manager
\* holds in memory, unless the record was cleaned up.
DiskAgrees ==
    \A i \in Ids : pc[i] = "done" => disk[i] = records[i]

\* A record that still looks unfinished has a task that will finish it, or a
\* boot that is about to mark it Interrupted.  (A nested spawn dropped with
\* its parent is the exception; see NoAbandonedRecord.)
NoZombie ==
    \A i \in Ids :
        disk[i].status \in LiveStatus =>
            \/ pc[i] \in SpawnPc \cup WorkerPc \cup {"abandoned"}
            \/ booting /\ scan["self"][i] # Absent

\* A stop that returns Ok has cancelled the subagent's own token, unless its
\* worker is over by then: whoever finds the record in the map also finds the
\* token, because spawn inserts the token first.
StopReachesToken ==
    [][\A i \in Ids :
        sup.op = "stop" /\ sup.id = i /\ sup'.op = "idle" /\ pc'[i] \in WorkerPc =>
            i \in cancelled']_vars

\* An implementer's worker may write to its worktree.
Writing(i) == pc[i] \in WorkerPc \ {"finished"} /\ allows_writes(meta[i].mode)

\* The engine keeps an implementer's worktree for as long as its worker may
\* write to it, for cleanup waits for a terminal record: if it is gone, the user
\* removed it by name.
WorktreeKept ==
    \A i \in Ids :
        Writing(i) => meta[i].worktree /\ ShortName[i] \in worktrees \cup removed

\* A record is deleted only once its worktree is gone, so no worktree is left
\* without the record that names it by a cleanup.
CleanupOrder ==
    [][\A i \in Ids :
        disk[i] # Absent /\ disk'[i] = Absent /\ meta[i].worktree =>
            ShortName[i] \notin worktrees']_vars

\* The status on disk follows the documented state diagram.
StatusOnDisk == [i \in Ids |-> disk[i].status]
L == INSTANCE Lifecycle WITH status <- StatusOnDisk
FollowsLifecycle == L!Spec

\* Every subagent that starts ends, nested or not, however the provider
\* behaves: its worker gets a slot, and its timeout bounds what it does there.
EveryRunEnds ==
    \A i \in Ids : pc[i] = "queued" ~> pc[i] \in GonePc

\* Every record written to disk eventually shows a final status or is gone,
\* across restarts too.  (Again but for a nested spawn dropped with its parent.)
RecordSettles ==
    \A i \in Ids :
        disk[i].status \in LiveStatus ~> disk[i].status \notin LiveStatus \/ pc[i] = "abandoned"

-----------------------------------------------------------------------------
(* The inductive invariants behind ConcurrencyCap and RecordFinal          *)

\* Free permits and holders add up to the semaphore's size.
Holders == {i \in Ids : pc[i] \in PermitPc}
PermitInv == permits + Cardinality(Holders) = Slots

\* A nested spawn in progress and the parent awaiting it name each other.
SpawnInv ==
    /\ \A c \in Ids : pc[c] \in SpawnPc /\ meta[c].parent # NoId =>
          pc[meta[c].parent] = "spawning" /\ child[meta[c].parent] = c
    /\ \A p \in Ids : pc[p] = "spawning" =>
          /\ child[p] \in Ids
          /\ pc[child[p]] \in SpawnPc
          /\ meta[child[p]].parent = p

\* The map follows the worker: nothing before it starts or after it is gone,
\* Queued until its first update, final from its last.
MapInv ==
    \A i \in Ids :
        /\ pc[i] \in {"unborn", "failed", "abandoned", "dead"} \cup SpawnPc =>
              records[i].status = "absent"
        /\ pc[i] \in {"queued", "running_map"} => records[i].status \in {"Queued", "absent"}
        /\ pc[i] \in {"finish_save", "finished", "done"} =>
              records[i].status \in TerminalStatus \cup {"absent"}

\* So does the worker's own copy.
LocalInv ==
    \A i \in Ids :
        /\ pc[i] \in {"finish_map", "finish_save", "finished"} =>
              local[i].status \in TerminalStatus
        /\ pc[i] \in WorkerPc \ {"finish_map", "finish_save", "finished"} =>
              local[i].status \in LiveStatus

\* The record on disk is unfinished from its first write to the last, as long
\* as no other process rewrites it.
UnwrittenPc == {"unborn", "claimed", "built"}
WrittenPc == {"persisted", "tokened"} \cup (WorkerPc \ {"finished"})
DiskInv ==
    \A i \in Ids :
        /\ pc[i] \in UnwrittenPc => disk[i] = Absent
        /\ pc[i] \in WrittenPc => disk[i].status \in LiveStatus

\* Recovery happens at boot only, when no worker is left, and what it is about
\* to rewrite is still unfinished.
ScanInv ==
    /\ budget.boots = 0
    /\ \A i \in Ids : scan["other"][i].status = "absent"
    /\ \A i \in Ids : scan["self"][i].status # "absent" =>
          booting /\ disk[i].status \in LiveStatus
    /\ booting => /\ \A i \in Ids : pc[i] \in {"unborn", "dead"}
                  /\ sup = SupIdle

\* A cleanup in progress is of a finished record.
CleanupInv == sup.op = "cleanup" => is_terminal(disk[sup.id].status)

PoolInv == VarTypes /\ PermitInv /\ SpawnInv /\ MapInv /\ LocalInv
StoreInv == PoolInv /\ DiskInv /\ ScanInv /\ CleanupInv

-----------------------------------------------------------------------------
(* What the documentation says and the code does not do                    *)

\* subagent_manager.rs, MIN_CONCURRENCY_FOR_NESTING: with at least two slots
\* nesting makes progress rather than "silently deadlocking (bounded only by
\* per_task_timeout)".  So the slots are never all held by parents blocked on
\* children that are themselves queued for a slot.
NestingProgresses ==
    LET holders == {i \in Ids : pc[i] \in PermitPc}
    IN  ~ /\ permits = 0
          /\ \A p \in holders : pc[p] = "childwait" /\ pc[child[p]] = "queued"

\* send_message: a follow-up it accepts is "delivered once its current turn
\* finishes", so a subagent does not complete with one still queued.
AcceptedIsDelivered ==
    \A i \in Ids :
        records[i].status = "Completed" /\ pc[i] = "done" => pending[i] = {}

\* send_message: the follow-up is "recorded in the subagent's message history
\* immediately", and the record is where that history is kept.
HistoryKept ==
    \A i \in Ids, m \in Messages :
        <<i, m>> \in accepted /\ disk[i] # Absent => m \in disk[i].messages

\* SubagentStatus::Stopped: "partial results are preserved", so a subagent
\* that had produced text before it was stopped has a result.
StopKeepsPartial ==
    \A i \in Ids :
        pc[i] = "finished" /\ disk[i].status = "Stopped" /\ i \in text =>
            disk[i].result # "none"

\* docs/SUBAGENTS.md 17: an implementer writes "only inside a worktree created
\* for it", so the worktree is there while it may write.
WritesInWorktree ==
    \A i \in Ids : Writing(i) => ShortName[i] \in worktrees

\* docs/SUBAGENTS.md 155: cleanup runs for a finished subagent, so what it needs
\* to remove is there.
CleanupPossible ==
    sup = SupIdle => \A i \in Ids :
        is_terminal(disk[i].status) /\ meta[i].worktree => ShortName[i] \in worktrees

\* spawn: "over-capacity spawns stay Queued until a concurrency slot frees
\* up", so a record that says Queued belongs to a spawn or a worker.
NoAbandonedRecord ==
    \A i \in Ids : disk[i].status = "Queued" => pc[i] # "abandoned"

=============================================================================
