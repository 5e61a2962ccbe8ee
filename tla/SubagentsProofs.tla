--------------------------- MODULE SubagentsProofs ---------------------------
(***************************************************************************)
(* Machine-checked theorems about Subagents, for every set of ids, every   *)
(* limit and every bound.                                                  *)
(***************************************************************************)
EXTENDS Subagents, FiniteSetTheorems, TLAPS

USE IdsAssumption, NamesAssumption, RequestsAssumption, LimitsAssumption

-----------------------------------------------------------------------------
(* Type correctness                                                        *)

\* Every record the code builds is a Record, and says what it was built from.
LEMMA RecordFacts ==
    /\ Absent \in Record /\ Absent.status = "absent"
    /\ NewRecord \in Record /\ NewRecord.status = "Queued"
    /\ \A r \in Record : r.status \in LiveStatus \cup TerminalStatus \cup {"absent"}
    /\ \A r \in Record, st \in LiveStatus \cup TerminalStatus :
          set_status(r, st) \in Record /\ set_status(r, st).status = st
    /\ \A r \in Record, m \in Messages :
          push_message(r, m) \in Record /\ push_message(r, m).status = r.status
    /\ \A r \in Record, st \in TerminalStatus, x \in Results :
          Finished(r, st, x) \in Record /\ Finished(r, st, x).status = st
<1>1. ASSUME NEW r \in Record, NEW st \in TerminalStatus, NEW x \in Results
      PROVE  Finished(r, st, x) \in Record /\ Finished(r, st, x).status = st
    <2>1. CASE x = "none"
        BY <2>1 DEF Record, TerminalStatus, Results, Finished
    <2>2. CASE x # "none"
        BY <2>2 DEF Record, TerminalStatus, Results, Finished
    <2> QED
        BY <2>1, <2>2
<1> QED
    BY <1>1 DEF Record, Absent, NewRecord, LiveStatus, TerminalStatus, Results,
        set_status, push_message

\* The statuses and results the actions name.
LEMMA StatusFacts ==
    /\ LiveStatus = {"Queued", "Running", "WaitingInput"}
    /\ TerminalStatus = {"Completed", "Failed", "Stopped", "TimedOut", "Interrupted"}
    /\ Results = {"none", "report", "error"}
BY DEF LiveStatus, TerminalStatus, Results

LEMMA TypeInit == Init => VarTypes
<1> SUFFICES ASSUME Init PROVE VarTypes
    OBVIOUS
<1>1. NoMeta \in Meta
    BY DEF NoMeta, Meta, Modes, PermissionModes
<1>2. SupIdle \in Command /\ Slots \in Nat
    BY DEF Command, Slots
<1>3. scan \in [Instances -> [Ids -> Record]]
    BY RecordFacts DEF Init, NoScan
<1> QED
    BY <1>1, <1>2, <1>3, RecordFacts DEF Init, VarTypes, Pc

LEMMA TypeSpawnTop ==
    ASSUME VarTypes, NEW id \in Ids, NEW req \in Requests, SpawnTop(id, req) PROVE VarTypes'
BY RecordFacts, StatusFacts DEF VarTypes, SpawnTop, Pc, SpawnPc, WorkerPc, PermitPc, DroppablePc, GonePc, storeVars, managerVars, taskVars, BeginSpawn, SpawnEntry, effective_subagent_mode, SpawnAllowed, Meta, Modes, PermissionModes, Command

LEMMA TypeAgentSpawn ==
    ASSUME VarTypes, NEW p \in Ids, NEW id \in Ids, NEW req \in Requests, AgentSpawn(p, id, req) PROVE VarTypes'
<1>1. meta' \in [Ids -> Meta]
    BY DEF VarTypes, AgentSpawn, BeginSpawn, effective_subagent_mode, Meta, Modes,
           PermissionModes
<1>2. pc' \in [Ids -> Pc]
    BY DEF VarTypes, AgentSpawn, BeginSpawn, SpawnEntry, Pc, SpawnPc, WorkerPc, PermitPc,
           DroppablePc, GonePc
<1>3. child' \in [Ids -> Ids \cup {NoId}] /\ claimed' \subseteq Names
    BY DEF VarTypes, AgentSpawn, BeginSpawn
<1> QED
    BY <1>1, <1>2, <1>3 DEF VarTypes, AgentSpawn, storeVars

LEMMA TypeWorktreeCreated ==
    ASSUME VarTypes, NEW id \in Ids, WorktreeCreated(id) PROVE VarTypes'
<1>1. ASSUME NEW x \in Meta PROVE [x EXCEPT !.worktree = TRUE] \in Meta
    BY <1>1 DEF Meta
<1>2. meta' \in [Ids -> Meta]
    <2>1. meta[id] \in Meta
        BY DEF VarTypes
    <2> QED
        BY <1>1, <2>1 DEF VarTypes, WorktreeCreated
<1>3. pc' \in [Ids -> Pc] /\ worktrees' \subseteq Names
    BY DEF VarTypes, WorktreeCreated, Pc, SpawnPc, WorkerPc, PermitPc,
           DroppablePc, GonePc
<1> QED
    BY <1>2, <1>3 DEF VarTypes, WorktreeCreated, managerVars

LEMMA TypeWorktreeFails ==
    ASSUME VarTypes, NEW id \in Ids, WorktreeFails(id) PROVE VarTypes'
BY RecordFacts, StatusFacts DEF VarTypes, WorktreeFails, Pc, SpawnPc, WorkerPc, PermitPc, DroppablePc, GonePc, storeVars, managerVars, taskVars, SpawnReturns, Command

LEMMA TypeSpawnPersist ==
    ASSUME VarTypes, NEW id \in Ids, SpawnPersist(id) PROVE VarTypes'
<1>1. disk' \in [Ids -> Record]
    <2>1. disk \in [Ids -> Record] /\ NewRecord \in Record
        BY RecordFacts DEF VarTypes
    <2>2. disk' = [disk EXCEPT ![id] = NewRecord] \/ disk' = disk
        BY DEF SpawnPersist, Save, SaveFails
    <2>3. QED
        BY <2>1, <2>2
<1>2. budget' \in [crashes : Nat, failures : Nat, boots : Nat]
    BY DEF VarTypes, SpawnPersist, Save, SaveFails
<1>3. pc' \in [Ids -> Pc]
    BY DEF VarTypes, SpawnPersist, SpawnReturns, Pc, SpawnPc, WorkerPc, PermitPc,
           DroppablePc, GonePc
<1>4. sup' \in Command
    BY DEF VarTypes, SpawnPersist, SpawnReturns, Command
<1> QED
    BY <1>1, <1>2, <1>3, <1>4 DEF VarTypes, SpawnPersist, managerVars

LEMMA TypeSpawnToken ==
    ASSUME VarTypes, NEW id \in Ids, SpawnToken(id) PROVE VarTypes'
BY RecordFacts, StatusFacts DEF VarTypes, SpawnToken, Pc, SpawnPc, WorkerPc, PermitPc, DroppablePc, GonePc, storeVars, managerVars, taskVars

LEMMA TypeSpawnStart ==
    ASSUME VarTypes, NEW id \in Ids, SpawnStart(id) PROVE VarTypes'
BY RecordFacts, StatusFacts DEF VarTypes, SpawnStart, Pc, SpawnPc, WorkerPc, PermitPc, DroppablePc, GonePc, storeVars, managerVars, taskVars, SpawnReturns, Command

LEMMA TypeAcquire ==
    ASSUME VarTypes, NEW id \in Ids, Acquire(id) PROVE VarTypes'
<1>1. /\ set_status(local[id], "Stopped") \in Record
      /\ set_status(local[id], "Running") \in Record
    BY RecordFacts, StatusFacts DEF VarTypes
<1>2. local' \in [Ids -> Record]
    BY <1>1 DEF VarTypes, Acquire
<1>3. pc' \in [Ids -> Pc] /\ permits' \in Nat
    BY DEF VarTypes, Acquire, Pc, SpawnPc, WorkerPc, PermitPc,
           DroppablePc, GonePc
<1> QED
    BY <1>2, <1>3 DEF VarTypes, Acquire, storeVars

LEMMA TypeUpdateMap ==
    ASSUME VarTypes, NEW id \in Ids, UpdateMap(id) PROVE VarTypes'
BY RecordFacts, StatusFacts DEF VarTypes, UpdateMap, Pc, SpawnPc, WorkerPc, PermitPc, DroppablePc, GonePc, storeVars, managerVars, taskVars, MapPc, AfterMap

LEMMA TypeUpdateSave ==
    ASSUME VarTypes, NEW id \in Ids, UpdateSave(id) PROVE VarTypes'
<1>1. disk' \in [Ids -> Record]
    BY DEF VarTypes, UpdateSave, Save, SaveFails
<1>2. budget' \in [crashes : Nat, failures : Nat, boots : Nat]
    BY DEF VarTypes, UpdateSave, Save, SaveFails
<1>3. pc' \in [Ids -> Pc]
    BY DEF VarTypes, UpdateSave, SavePc, AfterSave, Pc, SpawnPc, WorkerPc, PermitPc,
           DroppablePc, GonePc
<1> QED
    BY <1>1, <1>2, <1>3 DEF VarTypes, UpdateSave, managerVars

LEMMA TypeRelease ==
    ASSUME VarTypes, NEW id \in Ids, Release(id) PROVE VarTypes'
BY RecordFacts, StatusFacts DEF VarTypes, Release, Pc, SpawnPc, WorkerPc, PermitPc, DroppablePc, GonePc, storeVars, managerVars, taskVars

LEMMA FinishTypes ==
    ASSUME VarTypes, NEW id \in Ids, NEW st \in TerminalStatus, NEW x \in Results,
           Finish(id, st, x)
    PROVE  local' \in [Ids -> Record] /\ pc' \in [Ids -> Pc]
<1>1. Finished(local[id], st, x) \in Record
    BY RecordFacts DEF VarTypes
<1>2. local' \in [Ids -> Record]
    BY <1>1 DEF VarTypes, Finish
<1>3. pc' \in [Ids -> Pc]
    BY DEF VarTypes, Finish, Pc, SpawnPc, WorkerPc, PermitPc, DroppablePc, GonePc
<1> QED
    BY <1>2, <1>3

LEMMA TypeTimeout ==
    ASSUME VarTypes, NEW id \in Ids, Timeout(id) PROVE VarTypes'
<1>1. local' \in [Ids -> Record] /\ pc' \in [Ids -> Pc]
    BY FinishTypes, StatusFacts DEF Timeout
<1>2. cancelled' \subseteq Ids /\ worktrees' \subseteq Names
    BY DEF VarTypes, Timeout, DroppedWorktree
<1> QED
    BY <1>1, <1>2 DEF VarTypes, Timeout

LEMMA TypeObserveStop ==
    ASSUME VarTypes, NEW id \in Ids, ObserveStop(id) PROVE VarTypes'
<1>1. local' \in [Ids -> Record] /\ pc' \in [Ids -> Pc]
    BY FinishTypes, StatusFacts DEF ObserveStop
<1>2. worktrees' \subseteq Names
    BY DEF VarTypes, ObserveStop, DroppedWorktree
<1> QED
    BY <1>1, <1>2 DEF VarTypes, ObserveStop, managerVars

LEMMA TypeRunFails ==
    ASSUME VarTypes, NEW id \in Ids, RunFails(id) PROVE VarTypes'
<1>1. local' \in [Ids -> Record] /\ pc' \in [Ids -> Pc]
    BY FinishTypes, StatusFacts DEF RunFails
<1> QED
    BY <1>1 DEF VarTypes, RunFails, storeVars, managerVars

LEMMA TypeRunAsks ==
    ASSUME VarTypes, NEW id \in Ids, RunAsks(id) PROVE VarTypes'
BY RecordFacts, StatusFacts DEF VarTypes, RunAsks, Pc, SpawnPc, WorkerPc, PermitPc, DroppablePc, GonePc, storeVars, managerVars, taskVars

LEMMA TypeRunEnds ==
    ASSUME VarTypes, NEW id \in Ids, RunEnds(id) PROVE VarTypes'
BY RecordFacts, StatusFacts DEF VarTypes, RunEnds, Pc, SpawnPc, WorkerPc, PermitPc, DroppablePc, GonePc, storeVars, managerVars, taskVars

LEMMA TypeTakeAnswer ==
    ASSUME VarTypes, NEW id \in Ids, TakeAnswer(id) PROVE VarTypes'
BY RecordFacts, StatusFacts DEF VarTypes, TakeAnswer, Pc, SpawnPc, WorkerPc, PermitPc, DroppablePc, GonePc, storeVars, managerVars, taskVars, TakePending

LEMMA TypeDrain ==
    ASSUME VarTypes, NEW id \in Ids, Drain(id) PROVE VarTypes'
<1>1. CASE pending[id] # {}
    <2>1. pc' \in [Ids -> Pc] /\ pending' \in [Ids -> SUBSET Messages]
        BY <1>1 DEF VarTypes, Drain, TakePending, Pc, SpawnPc, WorkerPc, PermitPc,
           DroppablePc, GonePc
    <2> QED
        BY <1>1, <2>1 DEF VarTypes, Drain, storeVars
<1>2. CASE pending[id] = {}
    <2>1. local' \in [Ids -> Record] /\ pc' \in [Ids -> Pc]
        BY <1>2, FinishTypes, StatusFacts DEF Drain
    <2> QED
        BY <1>2, <2>1 DEF VarTypes, Drain, storeVars
<1> QED
    BY <1>1, <1>2

LEMMA TypeChildReturns ==
    ASSUME VarTypes, NEW id \in Ids, ChildReturns(id) PROVE VarTypes'
BY RecordFacts, StatusFacts DEF VarTypes, ChildReturns, Pc, SpawnPc, WorkerPc, PermitPc, DroppablePc, GonePc, storeVars, managerVars, taskVars

LEMMA TypeSendMessage ==
    ASSUME VarTypes, NEW id \in Ids, NEW m \in Messages, SendMessage(id, m) PROVE VarTypes'
<1>1. push_message(records[id], m) \in Record
    BY RecordFacts DEF VarTypes
<1>2. records' \in [Ids -> Record]
    BY <1>1 DEF VarTypes, SendMessage
<1>3. disk' \in [Ids -> Record] /\ budget' \in [crashes : Nat, failures : Nat, boots : Nat]
    BY <1>2 DEF VarTypes, SendMessage, Save, SaveFails
<1>4. sup' \in Command
    BY DEF VarTypes, SendMessage, Command
<1> QED
    BY <1>2, <1>3, <1>4 DEF VarTypes, SendMessage, taskVars

LEMMA TypeQueueMessage ==
    ASSUME VarTypes, QueueMessage PROVE VarTypes'
<1>1. sup.id \in Ids /\ sup.msg \in Messages
    BY DEF VarTypes, QueueMessage, Command, SupIdle
<1>2. pending' \in [Ids -> SUBSET Messages] /\ accepted' \subseteq Ids \X Messages
    BY <1>1 DEF VarTypes, QueueMessage
<1>3. sup' \in Command
    BY DEF QueueMessage, Command
<1> QED
    BY <1>2, <1>3 DEF VarTypes, QueueMessage, storeVars, taskVars

LEMMA TypeStopCheck ==
    ASSUME VarTypes, NEW id \in Ids, StopCheck(id) PROVE VarTypes'
BY RecordFacts, StatusFacts DEF VarTypes, StopCheck, Pc, SpawnPc, WorkerPc, PermitPc, DroppablePc, GonePc, storeVars, managerVars, taskVars, SupervisorFinds, Command

LEMMA TypeStopCancel ==
    ASSUME VarTypes, StopCancel PROVE VarTypes'
BY RecordFacts, StatusFacts DEF VarTypes, StopCancel, Pc, SpawnPc, WorkerPc, PermitPc, DroppablePc, GonePc, storeVars, managerVars, taskVars, Command

LEMMA TypeCleanupWorktree ==
    ASSUME VarTypes, NEW id \in Ids, CleanupWorktree(id) PROVE VarTypes'
BY RecordFacts, StatusFacts DEF VarTypes, CleanupWorktree, Pc, SpawnPc, WorkerPc, PermitPc, DroppablePc, GonePc, storeVars, managerVars, taskVars, SupervisorFinds, Command

LEMMA TypeDelete ==
    ASSUME VarTypes, Delete PROVE VarTypes'
<1>1. \/ disk' = [disk EXCEPT ![sup.id] = Absent] /\ budget' = budget
      \/ SaveFails
    BY DEF Delete, Save
<1>2. disk' \in [Ids -> Record]
    BY <1>1, RecordFacts DEF VarTypes, SaveFails
<1>3. budget' \in [crashes : Nat, failures : Nat, boots : Nat]
    BY <1>1 DEF VarTypes, SaveFails
<1>4. records' \in [Ids -> Record] /\ tokens' \subseteq Ids
    BY RecordFacts DEF VarTypes, Delete
<1> QED
    BY <1>2, <1>3, <1>4 DEF VarTypes, Delete, storeVars, managerVars, taskVars, Command

LEMMA TypeWorktreeRemove ==
    ASSUME VarTypes, NEW name \in Names, WorktreeRemove(name) PROVE VarTypes'
BY DEF VarTypes, WorktreeRemove, storeVars, managerVars, taskVars

LEMMA UnfinishedType == VarTypes => Unfinished \in [Ids -> Record]
BY RecordFacts DEF VarTypes, Unfinished

LEMMA TypeRestart ==
    ASSUME VarTypes, Restart PROVE VarTypes'
<1>1. scan' \in [Instances -> [Ids -> Record]]
    BY UnfinishedType DEF VarTypes, Restart, Instances
<1>2. budget' \in [crashes : Nat, failures : Nat, boots : Nat]
    BY DEF VarTypes, Restart
<1>3. pc' \in [Ids -> Pc]
    BY DEF VarTypes, Restart, Pc, SpawnPc, WorkerPc, PermitPc,
           DroppablePc, GonePc
<1>4. records' \in [Ids -> Record] /\ local' \in [Ids -> Record]
    BY RecordFacts DEF Restart
<1>5. permits' \in Nat /\ booting' \in BOOLEAN /\ sup' \in Command
    BY DEF Restart, Slots, Command
<1> QED
    BY <1>1, <1>2, <1>3, <1>4, <1>5 DEF VarTypes, Restart

LEMMA TypeForeignBoot ==
    ASSUME VarTypes, ForeignBoot PROVE VarTypes'
<1>1. scan' \in [Instances -> [Ids -> Record]]
    BY UnfinishedType DEF VarTypes, ForeignBoot, Instances
<1>2. budget' \in [crashes : Nat, failures : Nat, boots : Nat]
    BY DEF VarTypes, ForeignBoot
<1> QED
    BY <1>1, <1>2 DEF VarTypes, ForeignBoot, managerVars, taskVars

LEMMA TypeRecoverSave ==
    ASSUME VarTypes, NEW n \in Instances, NEW id \in Ids, RecoverSave(n, id) PROVE VarTypes'
<1>1. set_status(scan[n][id], "Interrupted") \in Record
    BY RecordFacts, StatusFacts DEF VarTypes
<1>2. disk' \in [Ids -> Record] /\ budget' \in [crashes : Nat, failures : Nat, boots : Nat]
    BY <1>1 DEF VarTypes, RecoverSave, Save, SaveFails
<1>3. [scan[n] EXCEPT ![id] = Absent] \in [Ids -> Record]
    BY RecordFacts DEF VarTypes
<1>4. scan' \in [Instances -> [Ids -> Record]]
    BY <1>3 DEF VarTypes, RecoverSave
<1> QED
    BY <1>2, <1>4 DEF VarTypes, RecoverSave, managerVars, taskVars

LEMMA TypeBootDone ==
    ASSUME VarTypes, BootDone PROVE VarTypes'
BY RecordFacts, StatusFacts DEF VarTypes, BootDone, Pc, SpawnPc, WorkerPc, PermitPc, DroppablePc, GonePc, storeVars, managerVars, taskVars

-----------------------------------------------------------------------------
(* The pool: permits, the map and the workers                              *)

LEMMA HoldersFinite == IsFiniteSet(Holders) /\ Cardinality(Holders) \in Nat
BY FS_Subset, FS_CardinalityType DEF Holders

LEMMA HoldersSame ==
    ASSUME PermitInv, Holders' = Holders, permits' = permits
    PROVE  PermitInv'
BY DEF PermitInv

LEMMA HoldersTake ==
    ASSUME PermitInv, permits \in Nat, NEW id \in Ids, id \notin Holders,
           Holders' = Holders \cup {id}, permits' = permits - 1
    PROVE  PermitInv'
<1>1. Cardinality(Holders \cup {id}) = Cardinality(Holders) + 1
    BY HoldersFinite, FS_AddElement
<1> QED
    BY <1>1, HoldersFinite DEF PermitInv

LEMMA HoldersDrop ==
    ASSUME PermitInv, permits \in Nat, NEW id \in Ids, id \in Holders,
           Holders' = Holders \ {id}, permits' = permits + 1
    PROVE  PermitInv'
<1>1. Cardinality(Holders \ {id}) = Cardinality(Holders) - 1
    BY HoldersFinite, FS_RemoveElement
<1> QED
    BY <1>1, HoldersFinite DEF PermitInv

\* The part of the types that the steps of SpawnInv rest on.
TaskTypes ==
    /\ pc \in [Ids -> Pc]
    /\ child \in [Ids -> Ids \cup {NoId}]
    /\ \A i \in Ids : meta[i].parent \in Ids \cup {NoId}

LEMMA TaskTyping == VarTypes => TaskTypes
BY DEF VarTypes, TaskTypes, Meta

\* A spawn that returns leaves the pair of child and parent together.
LEMMA SpawnReturnsInv ==
    ASSUME TaskTypes, SpawnInv, NEW id \in Ids, pc[id] \in SpawnPc,
           NEW at, at \notin SpawnPc \cup {"spawning"},
           NEW parentAt, parentAt \notin SpawnPc \cup {"spawning"},
           SpawnReturns(id, at, parentAt), UNCHANGED <<meta, child>>
    PROVE  SpawnInv'
BY DEF TaskTypes, SpawnInv, SpawnReturns, SpawnPc

\* So does a worker whose future is dropped or over.
LEMMA FinishInv ==
    ASSUME TaskTypes, SpawnInv, NEW id \in Ids, pc[id] \in DroppablePc,
           NEW st, NEW x, Finish(id, st, x), UNCHANGED <<meta, child>>
    PROVE  SpawnInv'
BY DEF TaskTypes, SpawnInv, Finish, SpawnPc, DroppablePc

\* A worker that moves without entering or leaving agent_spawn's call of spawn
\* does not touch any pair.
LEMMA MoveInv ==
    ASSUME TaskTypes, SpawnInv, NEW id \in Ids, pc[id] \notin SpawnPc \cup {"spawning"},
           NEW at, at \notin SpawnPc \cup {"spawning"},
           pc' = [pc EXCEPT ![id] = at], UNCHANGED meta,
           \A i \in Ids : pc[i] = "spawning" => child'[i] = child[i]
    PROVE  SpawnInv'
BY DEF TaskTypes, SpawnInv, SpawnPc

LEMMA PoolSpawnTop ==
    ASSUME PoolInv, NEW id \in Ids, NEW req \in Requests, SpawnTop(id, req) PROVE PoolInv'
<1>1. VarTypes'
    BY TypeSpawnTop DEF PoolInv
<1>2. SpawnInv'
    BY DEF PoolInv, VarTypes, SpawnInv, SpawnTop, BeginSpawn, SpawnEntry, SpawnPc, storeVars, managerVars, taskVars, DroppablePc
<1>3. MapInv'
    BY RecordFacts, StatusFacts DEF PoolInv, VarTypes, SpawnInv, MapInv, LocalInv, SpawnTop, BeginSpawn, SpawnEntry,
       SpawnPc, WorkerPc, PermitPc, DroppablePc, storeVars, managerVars, taskVars
<1>4. LocalInv'
    BY RecordFacts, StatusFacts DEF PoolInv, VarTypes, SpawnInv, LocalInv, SpawnTop, BeginSpawn, SpawnEntry,
       SpawnPc, WorkerPc, PermitPc, DroppablePc, storeVars, managerVars, taskVars
<1>5. Holders' = Holders /\ permits' = permits
    BY DEF PoolInv, VarTypes, SpawnInv, Holders, SpawnTop, BeginSpawn, SpawnEntry, SpawnPc, WorkerPc, PermitPc, DroppablePc, storeVars, managerVars, taskVars
<1> QED
    BY <1>1, <1>2, <1>3, <1>4, <1>5, HoldersSame DEF PoolInv

LEMMA PoolAgentSpawn ==
    ASSUME PoolInv, NEW p \in Ids, NEW id \in Ids, NEW req \in Requests, AgentSpawn(p, id, req) PROVE PoolInv'
<1>1. VarTypes'
    BY TypeAgentSpawn DEF PoolInv
<1>2. SpawnInv'
    <2> DEFINE entry == SpawnEntry(meta'[id].mode)
    <2>1. TaskTypes /\ SpawnInv
        BY TaskTyping DEF PoolInv
    <2>2. /\ pc[p] = "drive" /\ pc[id] = "unborn" /\ p # id
          /\ pc' = [pc EXCEPT ![p] = "spawning", ![id] = entry]
          /\ child' = [child EXCEPT ![p] = id]
        BY DEF AgentSpawn, BeginSpawn
    <2>3. entry \in SpawnPc /\ entry # "spawning" /\ "spawning" \notin SpawnPc
          /\ "unborn" \notin SpawnPc
        BY DEF SpawnEntry, SpawnPc
    <2>4. meta \in [Ids -> Meta]
        BY DEF PoolInv, VarTypes
    <2>5. meta'[id].parent = p /\ \A i \in Ids \ {id} : meta'[i] = meta[i]
        BY <2>4 DEF AgentSpawn, BeginSpawn
    <2> HIDE DEF entry
    <2>6. /\ pc'[p] = "spawning" /\ pc'[id] = entry /\ child'[p] = id
          /\ \A i \in Ids \ {p, id} : pc'[i] = pc[i] /\ child'[i] = child[i]
        BY <2>1, <2>2 DEF TaskTypes
    <2>7. ASSUME NEW c \in Ids, pc'[c] \in SpawnPc, meta'[c].parent # NoId
          PROVE  pc'[meta'[c].parent] = "spawning" /\ child'[meta'[c].parent] = c
        <3>1. CASE c = id
            BY <2>5, <2>6, <3>1
        <3>2. CASE c # id
            <4>1. c # p /\ pc[c] \in SpawnPc /\ meta'[c] = meta[c]
                BY <2>3, <2>5, <2>6, <2>7, <3>2
            <4>2. meta[c].parent \in Ids /\ pc[meta[c].parent] = "spawning"
                  /\ child[meta[c].parent] = c
                BY <2>1, <2>7, <4>1 DEF TaskTypes, SpawnInv
            <4>3. meta[c].parent \notin {p, id}
                BY <2>2, <4>2
            <4>4. QED
                BY <2>6, <4>1, <4>2, <4>3
        <3>3. QED
            BY <3>1, <3>2
    <2>8. ASSUME NEW q \in Ids, pc'[q] = "spawning"
          PROVE  child'[q] \in Ids /\ pc'[child'[q]] \in SpawnPc /\ meta'[child'[q]].parent = q
        <3>1. CASE q = p
            BY <2>3, <2>5, <2>6, <3>1
        <3>2. CASE q # p
            <4>1. q # id /\ pc[q] = "spawning" /\ child'[q] = child[q]
                BY <2>3, <2>6, <2>8, <3>2
            <4>2. child[q] \in Ids /\ pc[child[q]] \in SpawnPc /\ meta[child[q]].parent = q
                BY <2>1, <4>1 DEF SpawnInv
            <4>3. child[q] # id /\ child[q] # p
                <5>1. "drive" \notin SpawnPc
                    BY DEF SpawnPc
                <5>2. QED
                    BY <2>2, <2>3, <4>2, <5>1
            <4>4. QED
                BY <2>5, <2>6, <4>1, <4>2, <4>3
        <3>3. QED
            BY <3>1, <3>2
    <2>9. QED
        BY <2>7, <2>8 DEF SpawnInv
<1>3. MapInv'
    BY RecordFacts, StatusFacts DEF PoolInv, VarTypes, SpawnInv, MapInv, LocalInv, AgentSpawn, BeginSpawn, SpawnEntry,
       SpawnPc, WorkerPc, PermitPc, DroppablePc, storeVars, managerVars, taskVars
<1>4. LocalInv'
    BY RecordFacts, StatusFacts DEF PoolInv, VarTypes, SpawnInv, LocalInv, AgentSpawn, BeginSpawn, SpawnEntry,
       SpawnPc, WorkerPc, PermitPc, DroppablePc, storeVars, managerVars, taskVars
<1>5. Holders' = Holders /\ permits' = permits
    BY DEF PoolInv, VarTypes, SpawnInv, Holders, AgentSpawn, BeginSpawn, SpawnEntry, SpawnPc, WorkerPc, PermitPc, DroppablePc, storeVars, managerVars, taskVars
<1> QED
    BY <1>1, <1>2, <1>3, <1>4, <1>5, HoldersSame DEF PoolInv

LEMMA PoolWorktreeCreated ==
    ASSUME PoolInv, NEW id \in Ids, WorktreeCreated(id) PROVE PoolInv'
<1>1. VarTypes'
    BY TypeWorktreeCreated DEF PoolInv
<1>2. SpawnInv'
    BY DEF PoolInv, VarTypes, SpawnInv, WorktreeCreated, SpawnPc, storeVars, managerVars, taskVars, DroppablePc
<1>3. MapInv'
    BY RecordFacts, StatusFacts DEF PoolInv, VarTypes, SpawnInv, MapInv, LocalInv, WorktreeCreated,
       SpawnPc, WorkerPc, PermitPc, DroppablePc, storeVars, managerVars, taskVars
<1>4. LocalInv'
    BY RecordFacts, StatusFacts DEF PoolInv, VarTypes, SpawnInv, LocalInv, WorktreeCreated,
       SpawnPc, WorkerPc, PermitPc, DroppablePc, storeVars, managerVars, taskVars
<1>5. Holders' = Holders /\ permits' = permits
    BY DEF PoolInv, VarTypes, SpawnInv, Holders, WorktreeCreated, SpawnPc, WorkerPc, PermitPc, DroppablePc, storeVars, managerVars, taskVars
<1> QED
    BY <1>1, <1>2, <1>3, <1>4, <1>5, HoldersSame DEF PoolInv

LEMMA PoolWorktreeFails ==
    ASSUME PoolInv, NEW id \in Ids, WorktreeFails(id) PROVE PoolInv'
<1>1. VarTypes'
    BY TypeWorktreeFails DEF PoolInv
<1>2. SpawnInv'
    BY SpawnReturnsInv, TaskTyping DEF PoolInv, WorktreeFails, SpawnPc
<1>3. MapInv'
    BY RecordFacts, StatusFacts DEF PoolInv, VarTypes, SpawnInv, MapInv, LocalInv, WorktreeFails, SpawnReturns,
       SpawnPc, WorkerPc, PermitPc, DroppablePc, storeVars, managerVars, taskVars
<1>4. LocalInv'
    BY RecordFacts, StatusFacts DEF PoolInv, VarTypes, SpawnInv, LocalInv, WorktreeFails, SpawnReturns,
       SpawnPc, WorkerPc, PermitPc, DroppablePc, storeVars, managerVars, taskVars
<1>5. Holders' = Holders /\ permits' = permits
    BY DEF PoolInv, VarTypes, SpawnInv, Holders, WorktreeFails, SpawnReturns, SpawnPc, WorkerPc, PermitPc, DroppablePc, storeVars, managerVars, taskVars
<1> QED
    BY <1>1, <1>2, <1>3, <1>4, <1>5, HoldersSame DEF PoolInv

LEMMA PoolSpawnPersist ==
    ASSUME PoolInv, NEW id \in Ids, SpawnPersist(id) PROVE PoolInv'
<1>1. VarTypes'
    BY TypeSpawnPersist DEF PoolInv
<1>2. SpawnInv'
    <2>1. CASE pc' = [pc EXCEPT ![id] = "persisted"]
        BY <2>1, TaskTyping DEF PoolInv, TaskTypes, SpawnInv, SpawnPersist, SpawnPc
    <2>2. CASE SpawnReturns(id, "failed", "drive")
        BY <2>2, SpawnReturnsInv, TaskTyping DEF PoolInv, SpawnPersist, SpawnPc
    <2> QED
        BY <2>1, <2>2 DEF SpawnPersist
<1>3. MapInv'
    BY RecordFacts, StatusFacts DEF PoolInv, VarTypes, SpawnInv, MapInv, LocalInv, SpawnPersist, SpawnReturns,
       SpawnPc, WorkerPc, PermitPc, DroppablePc, storeVars, managerVars, taskVars
<1>4. LocalInv'
    <2>1. CASE pc' = [pc EXCEPT ![id] = "persisted"]
        BY <2>1 DEF PoolInv, VarTypes, LocalInv, SpawnPersist, SpawnPc, WorkerPc, PermitPc,
           DroppablePc
    <2>2. CASE SpawnReturns(id, "failed", "drive")
        BY <2>2 DEF PoolInv, VarTypes, SpawnInv, LocalInv, SpawnReturns, SpawnPersist,
           SpawnPc, WorkerPc, PermitPc, DroppablePc
    <2> QED
        BY <2>1, <2>2 DEF SpawnPersist
<1>5. Holders' = Holders /\ permits' = permits
    BY DEF PoolInv, VarTypes, SpawnInv, Holders, SpawnPersist, SpawnReturns, SpawnPc, WorkerPc, PermitPc, DroppablePc, storeVars, managerVars, taskVars
<1> QED
    BY <1>1, <1>2, <1>3, <1>4, <1>5, HoldersSame DEF PoolInv

LEMMA PoolSpawnToken ==
    ASSUME PoolInv, NEW id \in Ids, SpawnToken(id) PROVE PoolInv'
<1>1. VarTypes'
    BY TypeSpawnToken DEF PoolInv
<1>2. SpawnInv'
    BY DEF PoolInv, VarTypes, SpawnInv, SpawnToken, SpawnPc, storeVars, managerVars, taskVars, DroppablePc
<1>3. MapInv'
    BY RecordFacts, StatusFacts DEF PoolInv, VarTypes, SpawnInv, MapInv, LocalInv, SpawnToken,
       SpawnPc, WorkerPc, PermitPc, DroppablePc, storeVars, managerVars, taskVars
<1>4. LocalInv'
    BY RecordFacts, StatusFacts DEF PoolInv, VarTypes, SpawnInv, LocalInv, SpawnToken,
       SpawnPc, WorkerPc, PermitPc, DroppablePc, storeVars, managerVars, taskVars
<1>5. Holders' = Holders /\ permits' = permits
    BY DEF PoolInv, VarTypes, SpawnInv, Holders, SpawnToken, SpawnPc, WorkerPc, PermitPc, DroppablePc, storeVars, managerVars, taskVars
<1> QED
    BY <1>1, <1>2, <1>3, <1>4, <1>5, HoldersSame DEF PoolInv

LEMMA PoolSpawnStart ==
    ASSUME PoolInv, NEW id \in Ids, SpawnStart(id) PROVE PoolInv'
<1>1. VarTypes'
    BY TypeSpawnStart DEF PoolInv
<1>2. SpawnInv'
    BY SpawnReturnsInv, TaskTyping DEF PoolInv, SpawnStart, SpawnPc
<1>3. MapInv'
    BY RecordFacts, StatusFacts DEF PoolInv, VarTypes, SpawnInv, MapInv, LocalInv, SpawnStart, SpawnReturns,
       SpawnPc, WorkerPc, PermitPc, DroppablePc, storeVars, managerVars, taskVars
<1>4. LocalInv'
    BY RecordFacts, StatusFacts DEF PoolInv, VarTypes, SpawnInv, LocalInv, SpawnStart, SpawnReturns,
       SpawnPc, WorkerPc, PermitPc, DroppablePc, storeVars, managerVars, taskVars
<1>5. Holders' = Holders /\ permits' = permits
    BY DEF PoolInv, VarTypes, SpawnInv, Holders, SpawnStart, SpawnReturns, SpawnPc, WorkerPc, PermitPc, DroppablePc, storeVars, managerVars, taskVars
<1> QED
    BY <1>1, <1>2, <1>3, <1>4, <1>5, HoldersSame DEF PoolInv

LEMMA PoolAcquire ==
    ASSUME PoolInv, NEW id \in Ids, Acquire(id) PROVE PoolInv'
<1>1. VarTypes'
    BY TypeAcquire DEF PoolInv
<1>2. SpawnInv'
    BY MoveInv, TaskTyping DEF PoolInv, Acquire, SpawnPc
<1>3. MapInv'
    BY RecordFacts, StatusFacts DEF PoolInv, VarTypes, SpawnInv, MapInv, LocalInv, Acquire,
       SpawnPc, WorkerPc, PermitPc, DroppablePc, storeVars, managerVars, taskVars
<1>4. LocalInv'
    BY RecordFacts, StatusFacts DEF PoolInv, VarTypes, SpawnInv, LocalInv, Acquire,
       SpawnPc, WorkerPc, PermitPc, DroppablePc, storeVars, managerVars, taskVars
<1>5. Holders' = Holders \cup {id} /\ id \notin Holders /\ permits' = permits - 1
    BY DEF PoolInv, VarTypes, Holders, Acquire, SpawnPc, WorkerPc, PermitPc, DroppablePc
<1>6. permits \in Nat
    BY DEF PoolInv, VarTypes
<1> QED
    BY <1>6, <1>1, <1>2, <1>3, <1>4, <1>5, HoldersTake DEF PoolInv

LEMMA PoolUpdateMap ==
    ASSUME PoolInv, NEW id \in Ids, UpdateMap(id) PROVE PoolInv'
<1>1. VarTypes'
    BY TypeUpdateMap DEF PoolInv
<1>2. SpawnInv'
    BY DEF PoolInv, VarTypes, SpawnInv, UpdateMap, MapPc, AfterMap, SpawnPc, storeVars, managerVars, taskVars, DroppablePc
<1>3. MapInv'
    BY RecordFacts, StatusFacts DEF PoolInv, VarTypes, SpawnInv, MapInv, LocalInv, UpdateMap, MapPc, AfterMap,
       SpawnPc, WorkerPc, PermitPc, DroppablePc, storeVars, managerVars, taskVars
<1>4. LocalInv'
    BY RecordFacts, StatusFacts DEF PoolInv, VarTypes, SpawnInv, LocalInv, UpdateMap, MapPc, AfterMap,
       SpawnPc, WorkerPc, PermitPc, DroppablePc, storeVars, managerVars, taskVars
<1>5. Holders' = Holders /\ permits' = permits
    BY DEF PoolInv, VarTypes, SpawnInv, Holders, UpdateMap, MapPc, AfterMap, SpawnPc, WorkerPc, PermitPc, DroppablePc, storeVars, managerVars, taskVars
<1> QED
    BY <1>1, <1>2, <1>3, <1>4, <1>5, HoldersSame DEF PoolInv

LEMMA PoolUpdateSave ==
    ASSUME PoolInv, NEW id \in Ids, UpdateSave(id) PROVE PoolInv'
<1>1. VarTypes'
    BY TypeUpdateSave DEF PoolInv
<1>2. SpawnInv'
    BY DEF PoolInv, VarTypes, SpawnInv, UpdateSave, SavePc, AfterSave, SpawnPc, storeVars, managerVars, taskVars, DroppablePc
<1>3. MapInv'
    BY RecordFacts, StatusFacts DEF PoolInv, VarTypes, SpawnInv, MapInv, LocalInv, UpdateSave, SavePc, AfterSave,
       SpawnPc, WorkerPc, PermitPc, DroppablePc, storeVars, managerVars, taskVars
<1>4. LocalInv'
    BY RecordFacts, StatusFacts DEF PoolInv, VarTypes, SpawnInv, LocalInv, UpdateSave, SavePc, AfterSave,
       SpawnPc, WorkerPc, PermitPc, DroppablePc, storeVars, managerVars, taskVars
<1>5. Holders' = Holders /\ permits' = permits
    BY DEF PoolInv, VarTypes, SpawnInv, Holders, UpdateSave, SavePc, AfterSave, SpawnPc, WorkerPc, PermitPc, DroppablePc, storeVars, managerVars, taskVars
<1> QED
    BY <1>1, <1>2, <1>3, <1>4, <1>5, HoldersSame DEF PoolInv

LEMMA PoolRelease ==
    ASSUME PoolInv, NEW id \in Ids, Release(id) PROVE PoolInv'
<1>1. VarTypes'
    BY TypeRelease DEF PoolInv
<1>2. SpawnInv'
    BY DEF PoolInv, VarTypes, SpawnInv, Release, SpawnPc, storeVars, managerVars, taskVars, DroppablePc
<1>3. MapInv'
    BY RecordFacts, StatusFacts DEF PoolInv, VarTypes, SpawnInv, MapInv, LocalInv, Release,
       SpawnPc, WorkerPc, PermitPc, DroppablePc, storeVars, managerVars, taskVars
<1>4. LocalInv'
    BY RecordFacts, StatusFacts DEF PoolInv, VarTypes, SpawnInv, LocalInv, Release,
       SpawnPc, WorkerPc, PermitPc, DroppablePc, storeVars, managerVars, taskVars
<1>5. Holders' = Holders \ {id} /\ id \in Holders /\ permits' = permits + 1
    BY DEF PoolInv, VarTypes, Holders, Release, SpawnPc, WorkerPc, PermitPc, DroppablePc
<1>6. permits \in Nat
    BY DEF PoolInv, VarTypes
<1> QED
    BY <1>6, <1>1, <1>2, <1>3, <1>4, <1>5, HoldersDrop DEF PoolInv

LEMMA PoolTimeout ==
    ASSUME PoolInv, NEW id \in Ids, Timeout(id) PROVE PoolInv'
<1>1. VarTypes'
    BY TypeTimeout DEF PoolInv
<1>2. SpawnInv'
    BY FinishInv, TaskTyping DEF PoolInv, Timeout, DroppablePc
<1>3. MapInv'
    BY RecordFacts, StatusFacts DEF PoolInv, VarTypes, SpawnInv, MapInv, LocalInv, Timeout, Finish,
       SpawnPc, WorkerPc, PermitPc, DroppablePc, storeVars, managerVars, taskVars
<1>4. LocalInv'
    BY RecordFacts, StatusFacts DEF PoolInv, VarTypes, SpawnInv, LocalInv, Timeout, Finish,
       SpawnPc, WorkerPc, PermitPc, DroppablePc, storeVars, managerVars, taskVars
<1>5. Holders' = Holders /\ permits' = permits
    BY DEF PoolInv, VarTypes, SpawnInv, Holders, Timeout, Finish, SpawnPc, WorkerPc, PermitPc, DroppablePc, storeVars, managerVars, taskVars
<1> QED
    BY <1>1, <1>2, <1>3, <1>4, <1>5, HoldersSame DEF PoolInv

LEMMA PoolObserveStop ==
    ASSUME PoolInv, NEW id \in Ids, ObserveStop(id) PROVE PoolInv'
<1>1. VarTypes'
    BY TypeObserveStop DEF PoolInv
<1>2. SpawnInv'
    BY FinishInv, TaskTyping DEF PoolInv, ObserveStop, DroppablePc
<1>3. MapInv'
    BY RecordFacts, StatusFacts DEF PoolInv, VarTypes, SpawnInv, MapInv, LocalInv, ObserveStop, Finish,
       SpawnPc, WorkerPc, PermitPc, DroppablePc, storeVars, managerVars, taskVars
<1>4. LocalInv'
    BY RecordFacts, StatusFacts DEF PoolInv, VarTypes, SpawnInv, LocalInv, ObserveStop, Finish,
       SpawnPc, WorkerPc, PermitPc, DroppablePc, storeVars, managerVars, taskVars
<1>5. Holders' = Holders /\ permits' = permits
    BY DEF PoolInv, VarTypes, SpawnInv, Holders, ObserveStop, Finish, SpawnPc, WorkerPc, PermitPc, DroppablePc, storeVars, managerVars, taskVars
<1> QED
    BY <1>1, <1>2, <1>3, <1>4, <1>5, HoldersSame DEF PoolInv

LEMMA PoolRunFails ==
    ASSUME PoolInv, NEW id \in Ids, RunFails(id) PROVE PoolInv'
<1>1. VarTypes'
    BY TypeRunFails DEF PoolInv
<1>2. SpawnInv'
    BY FinishInv, TaskTyping DEF PoolInv, RunFails, DroppablePc
<1>3. MapInv'
    BY RecordFacts, StatusFacts DEF PoolInv, VarTypes, SpawnInv, MapInv, LocalInv, RunFails, Finish,
       SpawnPc, WorkerPc, PermitPc, DroppablePc, storeVars, managerVars, taskVars
<1>4. LocalInv'
    BY RecordFacts, StatusFacts DEF PoolInv, VarTypes, SpawnInv, LocalInv, RunFails, Finish,
       SpawnPc, WorkerPc, PermitPc, DroppablePc, storeVars, managerVars, taskVars
<1>5. Holders' = Holders /\ permits' = permits
    BY DEF PoolInv, VarTypes, SpawnInv, Holders, RunFails, Finish, SpawnPc, WorkerPc, PermitPc, DroppablePc, storeVars, managerVars, taskVars
<1> QED
    BY <1>1, <1>2, <1>3, <1>4, <1>5, HoldersSame DEF PoolInv

LEMMA PoolRunAsks ==
    ASSUME PoolInv, NEW id \in Ids, RunAsks(id) PROVE PoolInv'
<1>1. VarTypes'
    BY TypeRunAsks DEF PoolInv
<1>2. SpawnInv'
    BY DEF PoolInv, VarTypes, SpawnInv, RunAsks, SpawnPc, storeVars, managerVars, taskVars, DroppablePc
<1>3. MapInv'
    BY RecordFacts, StatusFacts DEF PoolInv, VarTypes, SpawnInv, MapInv, LocalInv, RunAsks,
       SpawnPc, WorkerPc, PermitPc, DroppablePc, storeVars, managerVars, taskVars
<1>4. LocalInv'
    BY RecordFacts, StatusFacts DEF PoolInv, VarTypes, SpawnInv, LocalInv, RunAsks,
       SpawnPc, WorkerPc, PermitPc, DroppablePc, storeVars, managerVars, taskVars
<1>5. Holders' = Holders /\ permits' = permits
    BY DEF PoolInv, VarTypes, SpawnInv, Holders, RunAsks, SpawnPc, WorkerPc, PermitPc, DroppablePc, storeVars, managerVars, taskVars
<1> QED
    BY <1>1, <1>2, <1>3, <1>4, <1>5, HoldersSame DEF PoolInv

LEMMA PoolRunEnds ==
    ASSUME PoolInv, NEW id \in Ids, RunEnds(id) PROVE PoolInv'
<1>1. VarTypes'
    BY TypeRunEnds DEF PoolInv
<1>2. SpawnInv'
    BY DEF PoolInv, VarTypes, SpawnInv, RunEnds, SpawnPc, storeVars, managerVars, taskVars, DroppablePc
<1>3. MapInv'
    BY RecordFacts, StatusFacts DEF PoolInv, VarTypes, SpawnInv, MapInv, LocalInv, RunEnds,
       SpawnPc, WorkerPc, PermitPc, DroppablePc, storeVars, managerVars, taskVars
<1>4. LocalInv'
    BY RecordFacts, StatusFacts DEF PoolInv, VarTypes, SpawnInv, LocalInv, RunEnds,
       SpawnPc, WorkerPc, PermitPc, DroppablePc, storeVars, managerVars, taskVars
<1>5. Holders' = Holders /\ permits' = permits
    BY DEF PoolInv, VarTypes, SpawnInv, Holders, RunEnds, SpawnPc, WorkerPc, PermitPc, DroppablePc, storeVars, managerVars, taskVars
<1> QED
    BY <1>1, <1>2, <1>3, <1>4, <1>5, HoldersSame DEF PoolInv

LEMMA PoolTakeAnswer ==
    ASSUME PoolInv, NEW id \in Ids, TakeAnswer(id) PROVE PoolInv'
<1>1. VarTypes'
    BY TypeTakeAnswer DEF PoolInv
<1>2. SpawnInv'
    BY DEF PoolInv, VarTypes, SpawnInv, TakeAnswer, TakePending, SpawnPc, storeVars, managerVars, taskVars, DroppablePc
<1>3. MapInv'
    BY RecordFacts, StatusFacts DEF PoolInv, VarTypes, SpawnInv, MapInv, LocalInv, TakeAnswer, TakePending,
       SpawnPc, WorkerPc, PermitPc, DroppablePc, storeVars, managerVars, taskVars
<1>4. LocalInv'
    BY RecordFacts, StatusFacts DEF PoolInv, VarTypes, SpawnInv, LocalInv, TakeAnswer, TakePending,
       SpawnPc, WorkerPc, PermitPc, DroppablePc, storeVars, managerVars, taskVars
<1>5. Holders' = Holders /\ permits' = permits
    BY DEF PoolInv, VarTypes, SpawnInv, Holders, TakeAnswer, TakePending, SpawnPc, WorkerPc, PermitPc, DroppablePc, storeVars, managerVars, taskVars
<1> QED
    BY <1>1, <1>2, <1>3, <1>4, <1>5, HoldersSame DEF PoolInv

LEMMA PoolDrain ==
    ASSUME PoolInv, NEW id \in Ids, Drain(id) PROVE PoolInv'
<1>1. VarTypes'
    BY TypeDrain DEF PoolInv
<1>2. SpawnInv'
    <2>1. CASE pending[id] # {}
        BY <2>1, MoveInv, TaskTyping DEF PoolInv, Drain, SpawnPc
    <2>2. CASE pending[id] = {}
        BY <2>2, FinishInv, TaskTyping DEF PoolInv, Drain, DroppablePc
    <2> QED
        BY <2>1, <2>2
<1>3. MapInv'
    BY RecordFacts, StatusFacts DEF PoolInv, VarTypes, SpawnInv, MapInv, LocalInv, Drain, TakePending, Finish,
       SpawnPc, WorkerPc, PermitPc, DroppablePc, storeVars, managerVars, taskVars
<1>4. LocalInv'
    BY RecordFacts, StatusFacts DEF PoolInv, VarTypes, SpawnInv, LocalInv, Drain, TakePending, Finish,
       SpawnPc, WorkerPc, PermitPc, DroppablePc, storeVars, managerVars, taskVars
<1>5. Holders' = Holders /\ permits' = permits
    BY DEF PoolInv, VarTypes, SpawnInv, Holders, Drain, TakePending, Finish, SpawnPc, WorkerPc, PermitPc, DroppablePc, storeVars, managerVars, taskVars
<1> QED
    BY <1>1, <1>2, <1>3, <1>4, <1>5, HoldersSame DEF PoolInv

LEMMA PoolChildReturns ==
    ASSUME PoolInv, NEW id \in Ids, ChildReturns(id) PROVE PoolInv'
<1>1. VarTypes'
    BY TypeChildReturns DEF PoolInv
<1>2. SpawnInv'
    BY DEF PoolInv, VarTypes, SpawnInv, ChildReturns, SpawnPc, storeVars, managerVars, taskVars, DroppablePc
<1>3. MapInv'
    BY RecordFacts, StatusFacts DEF PoolInv, VarTypes, SpawnInv, MapInv, LocalInv, ChildReturns,
       SpawnPc, WorkerPc, PermitPc, DroppablePc, storeVars, managerVars, taskVars
<1>4. LocalInv'
    BY RecordFacts, StatusFacts DEF PoolInv, VarTypes, SpawnInv, LocalInv, ChildReturns,
       SpawnPc, WorkerPc, PermitPc, DroppablePc, storeVars, managerVars, taskVars
<1>5. Holders' = Holders /\ permits' = permits
    BY DEF PoolInv, VarTypes, SpawnInv, Holders, ChildReturns, SpawnPc, WorkerPc, PermitPc, DroppablePc, storeVars, managerVars, taskVars
<1> QED
    BY <1>1, <1>2, <1>3, <1>4, <1>5, HoldersSame DEF PoolInv

LEMMA PoolSendMessage ==
    ASSUME PoolInv, NEW id \in Ids, NEW m \in Messages, SendMessage(id, m) PROVE PoolInv'
<1>1. VarTypes'
    BY TypeSendMessage DEF PoolInv
<1>2. SpawnInv'
    BY DEF PoolInv, VarTypes, SpawnInv, SendMessage, Reachable, SpawnPc, storeVars, managerVars, taskVars, DroppablePc
<1>3. MapInv'
    BY RecordFacts, StatusFacts DEF PoolInv, VarTypes, SpawnInv, MapInv, LocalInv, SendMessage, Reachable,
       SpawnPc, WorkerPc, PermitPc, DroppablePc, storeVars, managerVars, taskVars
<1>4. LocalInv'
    BY RecordFacts, StatusFacts DEF PoolInv, VarTypes, SpawnInv, LocalInv, SendMessage, Reachable,
       SpawnPc, WorkerPc, PermitPc, DroppablePc, storeVars, managerVars, taskVars
<1>5. Holders' = Holders /\ permits' = permits
    BY DEF PoolInv, VarTypes, SpawnInv, Holders, SendMessage, Reachable, SpawnPc, WorkerPc, PermitPc, DroppablePc, storeVars, managerVars, taskVars
<1> QED
    BY <1>1, <1>2, <1>3, <1>4, <1>5, HoldersSame DEF PoolInv

LEMMA PoolDelete ==
    ASSUME PoolInv, Delete PROVE PoolInv'
<1>1. VarTypes'
    BY TypeDelete DEF PoolInv
<1>2. SpawnInv'
    BY DEF PoolInv, VarTypes, SpawnInv, Delete, SpawnPc, storeVars, managerVars, taskVars, DroppablePc
<1>3. MapInv'
    BY RecordFacts, StatusFacts DEF PoolInv, VarTypes, SpawnInv, MapInv, LocalInv, Delete,
       SpawnPc, WorkerPc, PermitPc, DroppablePc, storeVars, managerVars, taskVars
<1>4. LocalInv'
    BY RecordFacts, StatusFacts DEF PoolInv, VarTypes, SpawnInv, LocalInv, Delete,
       SpawnPc, WorkerPc, PermitPc, DroppablePc, storeVars, managerVars, taskVars
<1>5. Holders' = Holders /\ permits' = permits
    BY DEF PoolInv, VarTypes, SpawnInv, Holders, Delete, SpawnPc, WorkerPc, PermitPc, DroppablePc, storeVars, managerVars, taskVars
<1> QED
    BY <1>1, <1>2, <1>3, <1>4, <1>5, HoldersSame DEF PoolInv

\* Restart leaves no worker, and the semaphore is new.
LEMMA PoolRestart ==
    ASSUME PoolInv, Restart PROVE PoolInv'
<1>1. VarTypes'
    BY TypeRestart DEF PoolInv
<1>2. \A i \in Ids : pc'[i] \in {"unborn", "dead"} /\ records'[i].status = "absent"
    BY RecordFacts DEF Restart
<1>3. SpawnInv' /\ MapInv' /\ LocalInv'
    BY <1>2 DEF SpawnInv, MapInv, LocalInv, SpawnPc, WorkerPc, PermitPc, DroppablePc
<1>4. Holders' = {}
    BY <1>2 DEF Holders, PermitPc, DroppablePc
<1>5. PermitInv'
    BY <1>4, FS_EmptySet DEF PermitInv, Restart, Slots
<1> QED
    BY <1>1, <1>3, <1>5 DEF PoolInv

\* What PoolInv says is about these variables only, the types aside.
LEMMA PoolUnchanged ==
    ASSUME PoolInv, VarTypes', UNCHANGED <<records, meta, pc, local, child, permits>>
    PROVE  PoolInv'
BY DEF PoolInv, PermitInv, Holders, SpawnInv, MapInv, LocalInv

LEMMA PoolInit == Init => PoolInv
<1> SUFFICES ASSUME Init PROVE PoolInv
    OBVIOUS
<1>1. VarTypes
    BY TypeInit
<1>2. SpawnInv /\ MapInv /\ LocalInv
    BY RecordFacts DEF Init, SpawnInv, MapInv, LocalInv, SpawnPc, WorkerPc, PermitPc, DroppablePc
<1>3. Holders = {}
    BY DEF Init, Holders, PermitPc, DroppablePc
<1>4. PermitInv
    BY <1>3, FS_EmptySet DEF Init, PermitInv, Slots
<1> QED
    BY <1>1, <1>2, <1>4 DEF PoolInv

LEMMA PoolNext == PoolInv /\ [Next]_vars => PoolInv'
<1> SUFFICES ASSUME PoolInv, [Next]_vars PROVE PoolInv'
    OBVIOUS
<1> USE DEF PoolInv
<1>1. ASSUME NEW id \in Ids, SpawnSteps(id) PROVE PoolInv'
    BY <1>1, PoolWorktreeCreated, PoolWorktreeFails, PoolSpawnPersist, PoolSpawnToken,
       PoolSpawnStart DEF SpawnSteps
<1>2. ASSUME NEW id \in Ids, WorkerSteps(id) PROVE PoolInv'
    BY <1>2, PoolAcquire, PoolUpdateMap, PoolUpdateSave, PoolRelease, PoolTimeout,
       PoolObserveStop, PoolRunFails, PoolRunAsks, PoolRunEnds, PoolTakeAnswer, PoolDrain,
       PoolChildReturns DEF WorkerSteps
<1>3. ASSUME NEW p \in Ids, NEW id \in Ids, NEW req \in Requests, AgentSpawn(p, id, req)
      PROVE  PoolInv'
    BY <1>3, PoolAgentSpawn
<1>4. CASE SupervisorSteps
    <2>1. ASSUME NEW id \in Ids, NEW req \in Requests, SpawnTop(id, req) PROVE PoolInv'
        BY <2>1, PoolSpawnTop
    <2>2. ASSUME NEW id \in Ids, NEW m \in Messages, SendMessage(id, m) PROVE PoolInv'
        BY <2>2, PoolSendMessage
    <2>3. ASSUME NEW id \in Ids, StopCheck(id) PROVE PoolInv'
        BY <2>3, TypeStopCheck, PoolUnchanged DEF StopCheck, managerVars, taskVars
    <2>4. ASSUME NEW id \in Ids, CleanupWorktree(id) PROVE PoolInv'
        BY <2>4, TypeCleanupWorktree, PoolUnchanged DEF CleanupWorktree, managerVars, taskVars
    <2>5. CASE QueueMessage
        BY <2>5, TypeQueueMessage, PoolUnchanged DEF QueueMessage, taskVars
    <2>6. CASE StopCancel
        BY <2>6, TypeStopCancel, PoolUnchanged DEF StopCancel, taskVars
    <2>7. CASE Delete
        BY <2>7, PoolDelete
    <2>8. ASSUME NEW name \in Names, WorktreeRemove(name) PROVE PoolInv'
        BY <2>8, TypeWorktreeRemove, PoolUnchanged DEF WorktreeRemove, managerVars, taskVars
    <2> QED
        BY <1>4, <2>1, <2>2, <2>3, <2>4, <2>5, <2>6, <2>7, <2>8 DEF SupervisorSteps
<1>5. CASE Restart
    BY <1>5, PoolRestart
<1>6. CASE BootDone
    BY <1>6, TypeBootDone, PoolUnchanged DEF BootDone, managerVars, taskVars
<1>7. CASE ForeignBoot
    BY <1>7, TypeForeignBoot, PoolUnchanged DEF ForeignBoot, managerVars, taskVars
<1>8. ASSUME NEW n \in Instances, NEW id \in Ids, RecoverSave(n, id) PROVE PoolInv'
    BY <1>8, TypeRecoverSave, PoolUnchanged DEF RecoverSave, managerVars, taskVars
<1>9. CASE UNCHANGED vars
    BY <1>9, PoolUnchanged DEF vars, VarTypes
<1> QED
    BY <1>1, <1>2, <1>3, <1>4, <1>5, <1>6, <1>7, <1>8, <1>9 DEF Next

LEMMA PoolCap == PoolInv => TypeOK /\ ConcurrencyCap
<1> SUFFICES ASSUME PoolInv PROVE TypeOK /\ ConcurrencyCap
    OBVIOUS
<1>1. Active \subseteq Holders
    BY StatusFacts DEF PoolInv, VarTypes, MapInv, Active, Holders, Pc, WorkerPc, GonePc
<1>2. Cardinality(Active) \in Nat /\ Cardinality(Active) <= Cardinality(Holders)
    BY <1>1, HoldersFinite, FS_Subset, FS_CardinalityType
<1>3. permits \in Nat /\ Slots \in Nat /\ permits + Cardinality(Holders) = Slots
    BY DEF PoolInv, VarTypes, PermitInv, Slots
<1> QED
    BY <1>2, <1>3, HoldersFinite DEF PoolInv, TypeOK, ConcurrencyCap

\* Whatever the pool's size, the ids and the bounds, the engine's variables
\* keep their types and the semaphore never gains a permit.
THEOREM TypeCorrect == Spec => []TypeOK
<1> QED
    BY PoolInit, PoolNext, PoolCap, PTL DEF Spec

\* Never more subagents Running or WaitingInput than the limit allows,
\* whatever the interleaving of stops, timeouts, crashes, failed writes and
\* other processes booting on the same directory.
THEOREM NeverOverCapacity == Spec => []ConcurrencyCap
<1> QED
    BY PoolInit, PoolNext, PoolCap, PTL DEF Spec

-----------------------------------------------------------------------------
(* The record store: final statuses stay                                   *)

\* What RecordFinal asks of one step, and what a step without a cleanup gives.
FinalStep ==
    \A i \in Ids :
        /\ is_terminal(disk[i].status) => disk'[i] \in {disk[i], Absent}
        /\ disk[i] = Absent /\ pc[i] \in GonePc => disk'[i] = Absent
FrozenStep ==
    \A i \in Ids :
        /\ is_terminal(disk[i].status) => disk'[i] = disk[i]
        /\ disk[i] = Absent /\ pc[i] \in GonePc => disk'[i] = Absent

LEMMA StatusDisjoint ==
    /\ \A st \in LiveStatus : ~is_terminal(st)
    /\ ~is_terminal("absent") /\ "absent" \notin LiveStatus
    /\ Absent.status = "absent"
BY DEF LiveStatus, TerminalStatus, is_terminal, Absent

\* No worker or command runs while this process boots.
LEMMA ScanWhileUp ==
    ASSUME ScanInv, ~booting, UNCHANGED <<scan, booting>>, budget'.boots = budget.boots
    PROVE  ScanInv'
BY DEF ScanInv

LEMMA WorkersOnlyWhileUp ==
    ASSUME ScanInv, NEW id \in Ids, pc[id] \notin {"unborn", "dead"}
    PROVE  ~booting
BY DEF ScanInv

LEMMA CommandsOnlyWhileUp ==
    ASSUME ScanInv, sup.op # "idle"
    PROVE  ~booting
BY DEF ScanInv, SupIdle

\* A save's effect on the bounds.
LEMMA SaveBudget ==
    ASSUME VarTypes, UNCHANGED budget \/ SaveFails
    PROVE  budget'.boots = budget.boots
BY DEF VarTypes, SaveFails

\* A step that freezes finished records keeps a cleanup in progress valid.
LEMMA CleanupKept ==
    ASSUME VarTypes, CleanupInv, FrozenStep, sup'.op = "cleanup" => sup' = sup
    PROVE  CleanupInv'
BY DEF VarTypes, Command, SupIdle, CleanupInv, FrozenStep, is_terminal

\* A step that leaves the disk alone and moves no subagent backwards.
LEMMA DiskUnchanged ==
    ASSUME DiskInv, UNCHANGED disk,
           \A i \in Ids : /\ pc'[i] \in UnwrittenPc => pc[i] \in UnwrittenPc
                          /\ pc'[i] \in WrittenPc => pc[i] \in WrittenPc
    PROVE  DiskInv' /\ FrozenStep
BY DEF DiskInv, FrozenStep

LEMMA StoreSpawnTop ==
    ASSUME StoreInv, NEW id \in Ids, NEW req \in Requests, SpawnTop(id, req)
    PROVE  DiskInv' /\ ScanInv' /\ CleanupInv' /\ FinalStep
<1>1. DiskInv' /\ FrozenStep
    BY DiskUnchanged DEF StoreInv, PoolInv, VarTypes, SpawnInv, SpawnTop, BeginSpawn, SpawnEntry,
       storeVars, UnwrittenPc, WrittenPc, SpawnPc, WorkerPc, PermitPc,
       DroppablePc
<1>2. ~booting
    BY DEF SpawnTop
<1>3. ScanInv'
    BY <1>2, ScanWhileUp DEF StoreInv, SpawnTop, storeVars
<1>4. CleanupInv'
    BY <1>1, CleanupKept DEF StoreInv, PoolInv, SpawnTop, BeginSpawn
<1> QED
    BY <1>1, <1>3, <1>4 DEF FinalStep, FrozenStep

LEMMA StoreAgentSpawn ==
    ASSUME StoreInv, NEW p \in Ids, NEW id \in Ids, NEW req \in Requests, AgentSpawn(p, id, req)
    PROVE  DiskInv' /\ ScanInv' /\ CleanupInv' /\ FinalStep
<1>1. DiskInv' /\ FrozenStep
    BY DiskUnchanged DEF StoreInv, PoolInv, VarTypes, SpawnInv, AgentSpawn, BeginSpawn, SpawnEntry,
       storeVars, UnwrittenPc, WrittenPc, SpawnPc, WorkerPc, PermitPc,
       DroppablePc
<1>2. ~booting
    BY WorkersOnlyWhileUp DEF StoreInv, AgentSpawn, SpawnPc, DroppablePc
<1>3. ScanInv'
    BY <1>2, ScanWhileUp DEF StoreInv, AgentSpawn, storeVars
<1>4. CleanupInv'
    BY <1>1, CleanupKept DEF StoreInv, PoolInv, AgentSpawn, BeginSpawn
<1> QED
    BY <1>1, <1>3, <1>4 DEF FinalStep, FrozenStep

LEMMA StoreWorktreeCreated ==
    ASSUME StoreInv, NEW id \in Ids, WorktreeCreated(id)
    PROVE  DiskInv' /\ ScanInv' /\ CleanupInv' /\ FinalStep
<1>1. DiskInv' /\ FrozenStep
    BY DiskUnchanged DEF StoreInv, PoolInv, VarTypes, SpawnInv, WorktreeCreated,
       storeVars, UnwrittenPc, WrittenPc, SpawnPc, WorkerPc, PermitPc,
       DroppablePc
<1>2. ~booting
    BY WorkersOnlyWhileUp DEF StoreInv, WorktreeCreated, SpawnPc, DroppablePc
<1>3. ScanInv'
    BY <1>2, ScanWhileUp DEF StoreInv, WorktreeCreated, storeVars
<1>4. CleanupInv'
    BY <1>1, CleanupKept DEF StoreInv, PoolInv, WorktreeCreated
<1> QED
    BY <1>1, <1>3, <1>4 DEF FinalStep, FrozenStep

LEMMA StoreWorktreeFails ==
    ASSUME StoreInv, NEW id \in Ids, WorktreeFails(id)
    PROVE  DiskInv' /\ ScanInv' /\ CleanupInv' /\ FinalStep
<1>1. DiskInv' /\ FrozenStep
    BY DiskUnchanged DEF StoreInv, PoolInv, VarTypes, SpawnInv, WorktreeFails, SpawnReturns,
       storeVars, UnwrittenPc, WrittenPc, SpawnPc, WorkerPc, PermitPc,
       DroppablePc
<1>2. ~booting
    BY WorkersOnlyWhileUp DEF StoreInv, WorktreeFails, SpawnPc, DroppablePc
<1>3. ScanInv'
    BY <1>2, ScanWhileUp DEF StoreInv, WorktreeFails, storeVars
<1>4. CleanupInv'
    BY <1>1, CleanupKept DEF StoreInv, PoolInv, WorktreeFails, SpawnReturns, SupIdle
<1> QED
    BY <1>1, <1>3, <1>4 DEF FinalStep, FrozenStep

LEMMA StoreSpawnToken ==
    ASSUME StoreInv, NEW id \in Ids, SpawnToken(id)
    PROVE  DiskInv' /\ ScanInv' /\ CleanupInv' /\ FinalStep
<1>1. DiskInv' /\ FrozenStep
    BY DiskUnchanged DEF StoreInv, PoolInv, VarTypes, SpawnInv, SpawnToken,
       storeVars, UnwrittenPc, WrittenPc, SpawnPc, WorkerPc, PermitPc,
       DroppablePc
<1>2. ~booting
    BY WorkersOnlyWhileUp DEF StoreInv, SpawnToken, SpawnPc, DroppablePc
<1>3. ScanInv'
    BY <1>2, ScanWhileUp DEF StoreInv, SpawnToken, storeVars
<1>4. CleanupInv'
    BY <1>1, CleanupKept DEF StoreInv, PoolInv, SpawnToken
<1> QED
    BY <1>1, <1>3, <1>4 DEF FinalStep, FrozenStep

LEMMA StoreSpawnStart ==
    ASSUME StoreInv, NEW id \in Ids, SpawnStart(id)
    PROVE  DiskInv' /\ ScanInv' /\ CleanupInv' /\ FinalStep
<1>1. DiskInv' /\ FrozenStep
    BY DiskUnchanged DEF StoreInv, PoolInv, VarTypes, SpawnInv, SpawnStart, SpawnReturns,
       storeVars, UnwrittenPc, WrittenPc, SpawnPc, WorkerPc, PermitPc,
       DroppablePc
<1>2. ~booting
    BY WorkersOnlyWhileUp DEF StoreInv, SpawnStart, SpawnPc, DroppablePc
<1>3. ScanInv'
    BY <1>2, ScanWhileUp DEF StoreInv, SpawnStart, storeVars
<1>4. CleanupInv'
    BY <1>1, CleanupKept DEF StoreInv, PoolInv, SpawnStart, SpawnReturns, SupIdle
<1> QED
    BY <1>1, <1>3, <1>4 DEF FinalStep, FrozenStep

LEMMA StoreAcquire ==
    ASSUME StoreInv, NEW id \in Ids, Acquire(id)
    PROVE  DiskInv' /\ ScanInv' /\ CleanupInv' /\ FinalStep
<1>1. DiskInv' /\ FrozenStep
    BY DiskUnchanged DEF StoreInv, PoolInv, VarTypes, SpawnInv, Acquire,
       storeVars, UnwrittenPc, WrittenPc, SpawnPc, WorkerPc, PermitPc,
       DroppablePc
<1>2. ~booting
    BY WorkersOnlyWhileUp DEF StoreInv, Acquire, SpawnPc, DroppablePc
<1>3. ScanInv'
    BY <1>2, ScanWhileUp DEF StoreInv, Acquire, storeVars
<1>4. CleanupInv'
    BY <1>1, CleanupKept DEF StoreInv, PoolInv, Acquire
<1> QED
    BY <1>1, <1>3, <1>4 DEF FinalStep, FrozenStep

LEMMA StoreUpdateMap ==
    ASSUME StoreInv, NEW id \in Ids, UpdateMap(id)
    PROVE  DiskInv' /\ ScanInv' /\ CleanupInv' /\ FinalStep
<1>1. DiskInv' /\ FrozenStep
    BY DiskUnchanged DEF StoreInv, PoolInv, VarTypes, SpawnInv, UpdateMap, MapPc, AfterMap,
       storeVars, UnwrittenPc, WrittenPc, SpawnPc, WorkerPc, PermitPc,
       DroppablePc
<1>2. ~booting
    BY WorkersOnlyWhileUp DEF StoreInv, UpdateMap, SpawnPc, DroppablePc, MapPc
<1>3. ScanInv'
    BY <1>2, ScanWhileUp DEF StoreInv, UpdateMap, storeVars
<1>4. CleanupInv'
    BY <1>1, CleanupKept DEF StoreInv, PoolInv, UpdateMap
<1> QED
    BY <1>1, <1>3, <1>4 DEF FinalStep, FrozenStep

LEMMA StoreRelease ==
    ASSUME StoreInv, NEW id \in Ids, Release(id)
    PROVE  DiskInv' /\ ScanInv' /\ CleanupInv' /\ FinalStep
<1>1. DiskInv' /\ FrozenStep
    BY DiskUnchanged DEF StoreInv, PoolInv, VarTypes, SpawnInv, Release,
       storeVars, UnwrittenPc, WrittenPc, SpawnPc, WorkerPc, PermitPc,
       DroppablePc
<1>2. ~booting
    BY WorkersOnlyWhileUp DEF StoreInv, Release, SpawnPc, DroppablePc
<1>3. ScanInv'
    BY <1>2, ScanWhileUp DEF StoreInv, Release, storeVars
<1>4. CleanupInv'
    BY <1>1, CleanupKept DEF StoreInv, PoolInv, Release
<1> QED
    BY <1>1, <1>3, <1>4 DEF FinalStep, FrozenStep

LEMMA StoreTimeout ==
    ASSUME StoreInv, NEW id \in Ids, Timeout(id)
    PROVE  DiskInv' /\ ScanInv' /\ CleanupInv' /\ FinalStep
<1>1. DiskInv' /\ FrozenStep
    BY DiskUnchanged DEF StoreInv, PoolInv, VarTypes, SpawnInv, Timeout, Finish,
       storeVars, UnwrittenPc, WrittenPc, SpawnPc, WorkerPc, PermitPc,
       DroppablePc
<1>2. ~booting
    BY WorkersOnlyWhileUp DEF StoreInv, Timeout, SpawnPc, DroppablePc
<1>3. ScanInv'
    BY <1>2, ScanWhileUp DEF StoreInv, Timeout, storeVars
<1>4. CleanupInv'
    BY <1>1, CleanupKept DEF StoreInv, PoolInv, Timeout
<1> QED
    BY <1>1, <1>3, <1>4 DEF FinalStep, FrozenStep

LEMMA StoreObserveStop ==
    ASSUME StoreInv, NEW id \in Ids, ObserveStop(id)
    PROVE  DiskInv' /\ ScanInv' /\ CleanupInv' /\ FinalStep
<1>1. DiskInv' /\ FrozenStep
    BY DiskUnchanged DEF StoreInv, PoolInv, VarTypes, SpawnInv, ObserveStop, Finish,
       storeVars, UnwrittenPc, WrittenPc, SpawnPc, WorkerPc, PermitPc,
       DroppablePc
<1>2. ~booting
    BY WorkersOnlyWhileUp DEF StoreInv, ObserveStop, SpawnPc, DroppablePc
<1>3. ScanInv'
    BY <1>2, ScanWhileUp DEF StoreInv, ObserveStop, storeVars
<1>4. CleanupInv'
    BY <1>1, CleanupKept DEF StoreInv, PoolInv, ObserveStop
<1> QED
    BY <1>1, <1>3, <1>4 DEF FinalStep, FrozenStep

LEMMA StoreRunFails ==
    ASSUME StoreInv, NEW id \in Ids, RunFails(id)
    PROVE  DiskInv' /\ ScanInv' /\ CleanupInv' /\ FinalStep
<1>1. DiskInv' /\ FrozenStep
    BY DiskUnchanged DEF StoreInv, PoolInv, VarTypes, SpawnInv, RunFails, Finish,
       storeVars, UnwrittenPc, WrittenPc, SpawnPc, WorkerPc, PermitPc,
       DroppablePc
<1>2. ~booting
    BY WorkersOnlyWhileUp DEF StoreInv, RunFails, SpawnPc, DroppablePc
<1>3. ScanInv'
    BY <1>2, ScanWhileUp DEF StoreInv, RunFails, storeVars
<1>4. CleanupInv'
    BY <1>1, CleanupKept DEF StoreInv, PoolInv, RunFails
<1> QED
    BY <1>1, <1>3, <1>4 DEF FinalStep, FrozenStep

LEMMA StoreRunAsks ==
    ASSUME StoreInv, NEW id \in Ids, RunAsks(id)
    PROVE  DiskInv' /\ ScanInv' /\ CleanupInv' /\ FinalStep
<1>1. DiskInv' /\ FrozenStep
    BY DiskUnchanged DEF StoreInv, PoolInv, VarTypes, SpawnInv, RunAsks,
       storeVars, UnwrittenPc, WrittenPc, SpawnPc, WorkerPc, PermitPc,
       DroppablePc
<1>2. ~booting
    BY WorkersOnlyWhileUp DEF StoreInv, RunAsks, SpawnPc, DroppablePc
<1>3. ScanInv'
    BY <1>2, ScanWhileUp DEF StoreInv, RunAsks, storeVars
<1>4. CleanupInv'
    BY <1>1, CleanupKept DEF StoreInv, PoolInv, RunAsks
<1> QED
    BY <1>1, <1>3, <1>4 DEF FinalStep, FrozenStep

LEMMA StoreRunEnds ==
    ASSUME StoreInv, NEW id \in Ids, RunEnds(id)
    PROVE  DiskInv' /\ ScanInv' /\ CleanupInv' /\ FinalStep
<1>1. DiskInv' /\ FrozenStep
    BY DiskUnchanged DEF StoreInv, PoolInv, VarTypes, SpawnInv, RunEnds,
       storeVars, UnwrittenPc, WrittenPc, SpawnPc, WorkerPc, PermitPc,
       DroppablePc
<1>2. ~booting
    BY WorkersOnlyWhileUp DEF StoreInv, RunEnds, SpawnPc, DroppablePc
<1>3. ScanInv'
    BY <1>2, ScanWhileUp DEF StoreInv, RunEnds, storeVars
<1>4. CleanupInv'
    BY <1>1, CleanupKept DEF StoreInv, PoolInv, RunEnds
<1> QED
    BY <1>1, <1>3, <1>4 DEF FinalStep, FrozenStep

LEMMA StoreTakeAnswer ==
    ASSUME StoreInv, NEW id \in Ids, TakeAnswer(id)
    PROVE  DiskInv' /\ ScanInv' /\ CleanupInv' /\ FinalStep
<1>1. DiskInv' /\ FrozenStep
    BY DiskUnchanged DEF StoreInv, PoolInv, VarTypes, SpawnInv, TakeAnswer,
       storeVars, UnwrittenPc, WrittenPc, SpawnPc, WorkerPc, PermitPc,
       DroppablePc
<1>2. ~booting
    BY WorkersOnlyWhileUp DEF StoreInv, TakeAnswer, SpawnPc, DroppablePc
<1>3. ScanInv'
    BY <1>2, ScanWhileUp DEF StoreInv, TakeAnswer, storeVars
<1>4. CleanupInv'
    BY <1>1, CleanupKept DEF StoreInv, PoolInv, TakeAnswer
<1> QED
    BY <1>1, <1>3, <1>4 DEF FinalStep, FrozenStep

LEMMA StoreDrain ==
    ASSUME StoreInv, NEW id \in Ids, Drain(id)
    PROVE  DiskInv' /\ ScanInv' /\ CleanupInv' /\ FinalStep
<1>1. DiskInv' /\ FrozenStep
    BY DiskUnchanged DEF StoreInv, PoolInv, VarTypes, SpawnInv, Drain, Finish,
       storeVars, UnwrittenPc, WrittenPc, SpawnPc, WorkerPc, PermitPc,
       DroppablePc
<1>2. ~booting
    BY WorkersOnlyWhileUp DEF StoreInv, Drain, SpawnPc, DroppablePc
<1>3. ScanInv'
    BY <1>2, ScanWhileUp DEF StoreInv, Drain, storeVars
<1>4. CleanupInv'
    BY <1>1, CleanupKept DEF StoreInv, PoolInv, Drain
<1> QED
    BY <1>1, <1>3, <1>4 DEF FinalStep, FrozenStep

LEMMA StoreChildReturns ==
    ASSUME StoreInv, NEW id \in Ids, ChildReturns(id)
    PROVE  DiskInv' /\ ScanInv' /\ CleanupInv' /\ FinalStep
<1>1. DiskInv' /\ FrozenStep
    BY DiskUnchanged DEF StoreInv, PoolInv, VarTypes, SpawnInv, ChildReturns,
       storeVars, UnwrittenPc, WrittenPc, SpawnPc, WorkerPc, PermitPc,
       DroppablePc
<1>2. ~booting
    BY WorkersOnlyWhileUp DEF StoreInv, ChildReturns, SpawnPc, DroppablePc
<1>3. ScanInv'
    BY <1>2, ScanWhileUp DEF StoreInv, ChildReturns, storeVars
<1>4. CleanupInv'
    BY <1>1, CleanupKept DEF StoreInv, PoolInv, ChildReturns
<1> QED
    BY <1>1, <1>3, <1>4 DEF FinalStep, FrozenStep

\* The first write: there was nothing to overwrite.
LEMMA StoreSpawnPersist ==
    ASSUME StoreInv, NEW id \in Ids, SpawnPersist(id)
    PROVE  DiskInv' /\ ScanInv' /\ CleanupInv' /\ FinalStep
<1>1. pc[id] = "built" /\ disk[id] = Absent
    BY DEF StoreInv, DiskInv, SpawnPersist, UnwrittenPc
<1>2. ~booting
    BY <1>1, WorkersOnlyWhileUp DEF StoreInv
<1>3. ASSUME Save(id, NewRecord), pc' = [pc EXCEPT ![id] = "persisted"]
      PROVE  DiskInv' /\ FrozenStep
    <2>1. disk'[id] = NewRecord /\ pc'[id] = "persisted"
        BY <1>3 DEF StoreInv, PoolInv, VarTypes, Save
    <2>2. ASSUME NEW i \in Ids, i # id
          PROVE  disk'[i] = disk[i] /\ pc'[i] = pc[i]
        BY <1>3, <2>2 DEF StoreInv, PoolInv, VarTypes, Save
    <2>3. NewRecord.status \in LiveStatus
        BY RecordFacts, StatusFacts
    <2>4. DiskInv'
        BY <2>1, <2>2, <2>3 DEF StoreInv, DiskInv, UnwrittenPc
    <2>5. FrozenStep
        BY <1>1, <2>2, StatusDisjoint DEF FrozenStep, GonePc
    <2> QED
        BY <2>4, <2>5
<1>4. ASSUME SaveFails, SpawnReturns(id, "failed", "drive")
      PROVE  DiskInv' /\ FrozenStep
    <2>1. \A i \in Ids : \/ pc'[i] = pc[i]
                         \/ pc'[i] = "failed"
                         \/ pc'[i] = "drive" /\ pc[i] = "spawning"
        <3>1. ASSUME NEW i \in Ids, i = meta[id].parent
              PROVE  pc[i] = "spawning"
            <4>1. meta[id].parent # NoId
                BY <3>1, IdsAssumption
            <4> QED
                BY <1>1, <3>1, <4>1 DEF StoreInv, PoolInv, SpawnInv, SpawnPc
        <3>2. ASSUME NEW i \in Ids
              PROVE  pc'[i] = IF i = id THEN "failed"
                              ELSE IF i = meta[id].parent THEN "drive" ELSE pc[i]
            BY <1>4 DEF SpawnReturns
        <3> QED
            BY <3>1, <3>2
    <2>2. \A i \in Ids : /\ pc'[i] \in UnwrittenPc => pc[i] \in UnwrittenPc
                         /\ pc'[i] \in WrittenPc => pc[i] \in WrittenPc
        BY <2>1 DEF UnwrittenPc, WrittenPc, WorkerPc, PermitPc, DroppablePc
    <2> QED
        BY <1>4, <2>2, DiskUnchanged DEF StoreInv, SaveFails
<1>5. DiskInv' /\ FrozenStep
    BY <1>3, <1>4 DEF SpawnPersist
<1>6. ScanInv'
    BY <1>2, ScanWhileUp, SaveBudget DEF StoreInv, PoolInv, SpawnPersist, Save
<1>7. CleanupInv'
    BY <1>5, CleanupKept DEF StoreInv, PoolInv, SpawnPersist, SpawnReturns, SupIdle
<1> QED
    BY <1>5, <1>6, <1>7 DEF FinalStep, FrozenStep

\* A worker's save overwrites an unfinished record, and writes a final status
\* only on its way out.
LEMMA StoreUpdateSave ==
    ASSUME StoreInv, NEW id \in Ids, UpdateSave(id)
    PROVE  DiskInv' /\ ScanInv' /\ CleanupInv' /\ FinalStep
<1>1. pc[id] \in SavePc /\ disk[id].status \in LiveStatus
    BY DEF StoreInv, DiskInv, UpdateSave, WrittenPc, SavePc, WorkerPc, PermitPc, DroppablePc
<1>2. ~booting
    BY <1>1, WorkersOnlyWhileUp DEF StoreInv, SavePc
<1>3. FrozenStep
    BY <1>1, StatusDisjoint
    DEF StoreInv, PoolInv, VarTypes, UpdateSave, Save, SaveFails, FrozenStep, SavePc, GonePc
<1>4. DiskInv'
    <2>1. pc' = [pc EXCEPT ![id] = AfterSave[pc[id]]] /\ pc \in [Ids -> Pc]
        BY DEF StoreInv, PoolInv, VarTypes, UpdateSave
    <2>2. disk' = [disk EXCEPT ![id] = local[id]] \/ disk' = disk
        BY DEF UpdateSave, Save, SaveFails
    <2>3. ASSUME NEW i \in Ids, i # id
          PROVE  disk'[i] = disk[i] /\ pc'[i] = pc[i]
        BY <2>1, <2>2, <2>3 DEF StoreInv, PoolInv, VarTypes
    <2>4. pc'[id] \notin UnwrittenPc
        BY <1>1, <2>1 DEF SavePc, AfterSave, UnwrittenPc
    <2>5. pc'[id] \in WrittenPc => pc[id] # "finish_save"
        BY <1>1, <2>1 DEF SavePc, AfterSave, WrittenPc, WorkerPc, PermitPc, DroppablePc
    <2>6. pc[id] # "finish_save" => local[id].status \in LiveStatus
        BY <1>1 DEF StoreInv, PoolInv, LocalInv, SavePc, WorkerPc, PermitPc
    <2>7. pc'[id] \in WrittenPc => disk'[id].status \in LiveStatus
        BY <1>1, <2>2, <2>5, <2>6 DEF StoreInv, PoolInv, VarTypes
    <2> QED
        BY <2>3, <2>4, <2>7 DEF StoreInv, DiskInv
<1>5. ScanInv'
    BY <1>2, ScanWhileUp, SaveBudget DEF StoreInv, PoolInv, UpdateSave, Save
<1>6. CleanupInv'
    BY <1>3, CleanupKept DEF StoreInv, PoolInv, UpdateSave
<1> QED
    BY <1>3, <1>4, <1>5, <1>6 DEF FinalStep, FrozenStep

\* send_message saves the map's record under the lock: it is unfinished, so
\* the worker has not written its last status yet.
LEMMA StoreSendMessage ==
    ASSUME StoreInv, NEW id \in Ids, NEW m \in Messages, SendMessage(id, m)
    PROVE  DiskInv' /\ ScanInv' /\ CleanupInv' /\ FinalStep
<1>1. records[id].status \in LiveStatus /\ disk[id].status # "absent" /\ ~booting
    BY RecordFacts DEF StoreInv, PoolInv, VarTypes, SendMessage, Reachable, SupervisorFinds,
       is_terminal
<1>2. pc[id] \in {"queued", "running_map"} \cup WrittenPc /\ pc[id] \notin UnwrittenPc
    BY <1>1, StatusDisjoint, StatusFacts
    DEF StoreInv, PoolInv, VarTypes, MapInv, is_terminal, Pc, WrittenPc, UnwrittenPc, SpawnPc,
        WorkerPc, PermitPc, DroppablePc, GonePc
<1>3. disk[id].status \in LiveStatus
    BY <1>2 DEF StoreInv, DiskInv, WrittenPc, WorkerPc, PermitPc
<1>4. push_message(records[id], m).status \in LiveStatus
    BY <1>1, RecordFacts DEF StoreInv, PoolInv, VarTypes
<1>5. disk' = disk \/ disk' = [disk EXCEPT ![id] = push_message(records[id], m)]
    BY DEF StoreInv, PoolInv, VarTypes, SendMessage, Save, SaveFails
<1>6. pc' = pc
    BY DEF SendMessage, taskVars
<1>7. DiskInv'
    BY <1>2, <1>3, <1>4, <1>5, <1>6 DEF StoreInv, PoolInv, VarTypes, DiskInv
<1>8. FrozenStep
    BY <1>1, <1>3, <1>5, StatusDisjoint DEF StoreInv, PoolInv, VarTypes, FrozenStep
<1>9. ScanInv'
    BY <1>1, ScanWhileUp, SaveBudget DEF StoreInv, PoolInv, SendMessage, Save
<1>10. CleanupInv'
    BY <1>8, CleanupKept DEF StoreInv, PoolInv, SendMessage, SupervisorFinds
<1> QED
    BY <1>7, <1>8, <1>9, <1>10 DEF FinalStep, FrozenStep

\* Only a finished record is deleted, and its worker is over or about to be.
LEMMA StoreDelete ==
    ASSUME StoreInv, Delete
    PROVE  DiskInv' /\ ScanInv' /\ CleanupInv' /\ FinalStep
<1>1. sup.id \in Ids /\ is_terminal(disk[sup.id].status) /\ ~booting
    BY CommandsOnlyWhileUp DEF StoreInv, PoolInv, VarTypes, Command, SupIdle, CleanupInv, Delete
<1>2. pc[sup.id] \notin UnwrittenPc \cup WrittenPc
    BY <1>1, StatusDisjoint DEF StoreInv, DiskInv
<1>3. disk' = disk \/ disk' = [disk EXCEPT ![sup.id] = Absent]
    BY DEF Delete, Save, SaveFails
<1>4. DiskInv' /\ FinalStep
    BY <1>1, <1>2, <1>3 DEF StoreInv, PoolInv, VarTypes, DiskInv, Delete, taskVars, FinalStep
<1>5. ScanInv'
    BY <1>1, ScanWhileUp, SaveBudget DEF StoreInv, PoolInv, Delete, Save
<1>6. CleanupInv'
    BY DEF Delete, SupIdle, CleanupInv
<1> QED
    BY <1>4, <1>5, <1>6

\* recover_interrupted rewrites only what is still unfinished.
LEMMA StoreRecoverSave ==
    ASSUME StoreInv, NEW n \in Instances, NEW id \in Ids, RecoverSave(n, id)
    PROVE  DiskInv' /\ ScanInv' /\ CleanupInv' /\ FinalStep
<1>1. n = "self" /\ booting /\ disk[id].status \in LiveStatus
    BY DEF StoreInv, ScanInv, RecoverSave, Instances
<1>2. pc[id] \in {"unborn", "dead"} /\ sup = SupIdle
    BY <1>1 DEF StoreInv, ScanInv
<1>3. pc[id] = "dead"
    BY <1>1, <1>2, StatusDisjoint DEF StoreInv, DiskInv, UnwrittenPc
<1>4. \A i \in Ids : i # id => disk'[i] = disk[i]
    BY DEF StoreInv, PoolInv, VarTypes, RecoverSave, Save, SaveFails
<1>5. pc' = pc /\ sup' = sup /\ booting' = booting
    BY DEF RecoverSave, taskVars
<1>6. DiskInv'
    BY <1>3, <1>4, <1>5 DEF StoreInv, DiskInv, UnwrittenPc, WrittenPc, WorkerPc, PermitPc,
       DroppablePc
<1>7. FrozenStep
    BY <1>1, <1>4, StatusDisjoint DEF FrozenStep
<1>8. ScanInv'
    <2>1. budget'.boots = 0
        BY SaveBudget DEF StoreInv, PoolInv, ScanInv, RecoverSave, Save
    <2>2. \A i \in Ids : scan'["self"][i] = IF i = id THEN Absent ELSE scan["self"][i]
        BY <1>1 DEF StoreInv, PoolInv, VarTypes, RecoverSave, Instances
    <2>3. scan'["other"] = scan["other"]
        BY <1>1 DEF StoreInv, PoolInv, VarTypes, RecoverSave, Instances
    <2> QED
        BY <1>1, <1>4, <1>5, <2>1, <2>2, <2>3, StatusDisjoint DEF StoreInv, ScanInv
<1>9. CleanupInv'
    BY <1>5, <1>7, CleanupKept DEF StoreInv, PoolInv
<1> QED
    BY <1>6, <1>7, <1>8, <1>9 DEF FinalStep, FrozenStep

LEMMA StoreRestart ==
    ASSUME StoreInv, Restart
    PROVE  DiskInv' /\ ScanInv' /\ CleanupInv' /\ FinalStep
<1>1. \A i \in Ids : pc'[i] \in {"unborn", "dead"} /\ (pc'[i] = "unborn" => pc[i] = "unborn")
    BY DEF Restart
<1>2. DiskInv' /\ FrozenStep
    BY <1>1, DiskUnchanged
    DEF StoreInv, Restart, UnwrittenPc, WrittenPc, WorkerPc, PermitPc, DroppablePc
<1>3. ScanInv'
    <2>1. scan'["other"] = scan["other"] /\ scan'["self"] = Unfinished
        BY DEF StoreInv, PoolInv, VarTypes, Restart, Instances
    <2>2. \A i \in Ids : scan'["self"][i].status # "absent" => disk[i].status \in LiveStatus
        BY <2>1, StatusDisjoint DEF Unfinished
    <2>3. budget'.boots = 0 /\ booting' /\ sup' = SupIdle /\ disk' = disk
        BY DEF StoreInv, PoolInv, VarTypes, ScanInv, Restart
    <2> QED
        BY <1>1, <2>1, <2>2, <2>3 DEF StoreInv, ScanInv
<1>4. CleanupInv'
    BY DEF Restart, SupIdle, CleanupInv
<1> QED
    BY <1>2, <1>3, <1>4 DEF FinalStep, FrozenStep

LEMMA StoreBootDone ==
    ASSUME StoreInv, BootDone
    PROVE  DiskInv' /\ ScanInv' /\ CleanupInv' /\ FinalStep
<1>1. DiskInv' /\ FrozenStep
    BY DiskUnchanged DEF StoreInv, BootDone, storeVars, taskVars
<1>2. ScanInv'
    BY StatusDisjoint DEF StoreInv, ScanInv, BootDone, NoScan, storeVars, taskVars
<1>3. CleanupInv'
    BY <1>1, CleanupKept DEF StoreInv, PoolInv, BootDone
<1> QED
    BY <1>1, <1>2, <1>3 DEF FinalStep, FrozenStep

\* The rest of the supervisor's steps write no record.
LEMMA StoreCommand ==
    ASSUME StoreInv, UNCHANGED <<disk, scan, pc, booting, budget>>, ~booting,
           sup'.op = "cleanup" => is_terminal(disk[sup'.id].status)
    PROVE  DiskInv' /\ ScanInv' /\ CleanupInv' /\ FinalStep
<1>1. DiskInv' /\ FrozenStep
    BY DiskUnchanged DEF StoreInv
<1>2. ScanInv'
    BY ScanWhileUp DEF StoreInv
<1>3. CleanupInv'
    BY DEF CleanupInv
<1> QED
    BY <1>1, <1>2, <1>3 DEF FinalStep, FrozenStep

LEMMA StoreStep ==
    ASSUME StoreInv, Next
    PROVE  DiskInv' /\ ScanInv' /\ CleanupInv' /\ FinalStep
<1> DEFINE Goal == DiskInv' /\ ScanInv' /\ CleanupInv' /\ FinalStep
<1> SUFFICES Goal
    OBVIOUS
<1>1. ASSUME NEW id \in Ids, SpawnSteps(id) PROVE Goal
    BY <1>1, StoreWorktreeCreated, StoreWorktreeFails, StoreSpawnPersist, StoreSpawnToken,
       StoreSpawnStart DEF SpawnSteps
<1>2. ASSUME NEW id \in Ids, WorkerSteps(id) PROVE Goal
    BY <1>2, StoreAcquire, StoreUpdateMap, StoreUpdateSave, StoreRelease, StoreTimeout,
       StoreObserveStop, StoreRunFails, StoreRunAsks, StoreRunEnds, StoreTakeAnswer, StoreDrain,
       StoreChildReturns DEF WorkerSteps
<1>3. ASSUME NEW p \in Ids, NEW id \in Ids, NEW req \in Requests, AgentSpawn(p, id, req)
      PROVE  Goal
    BY <1>3, StoreAgentSpawn
<1>4. CASE SupervisorSteps
    <2>1. ASSUME NEW id \in Ids, NEW req \in Requests, SpawnTop(id, req) PROVE Goal
        BY <2>1, StoreSpawnTop
    <2>2. ASSUME NEW id \in Ids, NEW m \in Messages, SendMessage(id, m) PROVE Goal
        BY <2>2, StoreSendMessage
    <2>3. ASSUME NEW id \in Ids, StopCheck(id) PROVE Goal
        BY <2>3, StoreCommand DEF StopCheck, SupervisorFinds, storeVars, taskVars
    <2>4. ASSUME NEW id \in Ids, CleanupWorktree(id) PROVE Goal
        BY <2>4, StoreCommand DEF CleanupWorktree, SupervisorFinds, taskVars
    <2>5. CASE QueueMessage
        BY <2>5, StoreCommand, CommandsOnlyWhileUp
        DEF StoreInv, QueueMessage, SupIdle, storeVars, taskVars
    <2>6. CASE StopCancel
        BY <2>6, StoreCommand, CommandsOnlyWhileUp
        DEF StoreInv, StopCancel, SupIdle, storeVars, taskVars
    <2>7. CASE Delete
        BY <2>7, StoreDelete
    <2>8. ASSUME NEW name \in Names, WorktreeRemove(name) PROVE Goal
        BY <2>8, StoreCommand DEF WorktreeRemove, SupIdle, taskVars
    <2> QED
        BY <1>4, <2>1, <2>2, <2>3, <2>4, <2>5, <2>6, <2>7, <2>8 DEF SupervisorSteps
<1>5. CASE Restart
    BY <1>5, StoreRestart
<1>6. CASE BootDone
    BY <1>6, StoreBootDone
<1>7. CASE ForeignBoot
    BY <1>7 DEF StoreInv, ScanInv, ForeignBoot
<1>8. ASSUME NEW n \in Instances, NEW id \in Ids, RecoverSave(n, id) PROVE Goal
    BY <1>8, StoreRecoverSave
<1> QED
    BY <1>1, <1>2, <1>3, <1>4, <1>5, <1>6, <1>7, <1>8 DEF Next

LEMMA StoreInit == MaxForeignBoots = 0 /\ Init => StoreInv
<1> SUFFICES ASSUME MaxForeignBoots = 0, Init PROVE StoreInv
    OBVIOUS
<1>1. DiskInv /\ CleanupInv
    BY DEF Init, DiskInv, CleanupInv, SupIdle, WrittenPc, WorkerPc, PermitPc, DroppablePc
<1>2. ScanInv
    BY StatusDisjoint DEF Init, ScanInv, Instances, NoScan
<1> QED
    BY <1>1, <1>2, PoolInit DEF StoreInv

LEMMA StoreNext == StoreInv /\ [Next]_vars => StoreInv'
<1> SUFFICES ASSUME StoreInv, [Next]_vars PROVE StoreInv'
    OBVIOUS
<1>1. PoolInv'
    BY PoolNext DEF StoreInv
<1>2. CASE Next
    BY <1>1, <1>2, StoreStep DEF StoreInv
<1>3. CASE UNCHANGED vars
    BY <1>1, <1>3 DEF StoreInv, DiskInv, ScanInv, CleanupInv, vars
<1> QED
    BY <1>2, <1>3

\* As long as no other process boots on the same directory, a final record is
\* never rewritten and a deleted one never returns, whatever workers, messages,
\* cleanups, failed writes and restarts do.
THEOREM FinalRecordsStay ==
    ASSUME MaxForeignBoots = 0
    PROVE  Spec => RecordFinal
<1>1. Init => StoreInv
    BY StoreInit
<1>2. StoreInv /\ [Next]_vars =>
        [\A i \in Ids :
            /\ is_terminal(disk[i].status) => disk'[i] \in {disk[i], Absent}
            /\ disk[i] = Absent /\ pc[i] \in GonePc => disk'[i] = Absent]_vars
    BY StoreStep DEF FinalStep
<1> QED
    BY <1>1, <1>2, StoreNext, PTL DEF Spec, RecordFinal

-----------------------------------------------------------------------------
(* The three copies of a status: disk, map and worker                      *)

\* Inside a turn: the worker waits for Agent::run or for a child it spawned.
TurnPc == {"drive", "spawning", "childwait", "drain"}

\* The status on disk trails the worker by at most the save in progress.
DiskFollows(i) ==
    /\ pc[i] \in {"persisted", "tokened", "queued", "running_map"} =>
          disk[i].status = "Queued"
    /\ pc[i] = "running_save" => disk[i].status \in {"Queued", "Running"}
    /\ pc[i] \in TurnPc \cup {"waiting_map"} => disk[i].status = "Running"
    /\ pc[i] \in {"waiting_save", "resume_save"} =>
          disk[i].status \in {"Running", "WaitingInput"}
    /\ pc[i] \in {"await", "resume_map"} => disk[i].status = "WaitingInput"
    /\ pc[i] \in {"finish_map", "finish_save"} =>
          \/ local[i].status = "Stopped"
          \/ local[i].status \in {"Completed", "Failed"} /\ disk[i].status = "Running"
          \/ local[i].status = "TimedOut" /\ disk[i].status \in {"Running", "WaitingInput"}

\* The status in the map, which a message saves to disk, changes between the
\* worker's decision and its save.
MapFollows(i) ==
    /\ pc[i] \in {"queued", "running_map"} => records[i].status = "Queued"
    /\ pc[i] \in TurnPc \cup {"running_save", "waiting_map", "resume_save"} =>
          records[i].status = "Running"
    /\ pc[i] \in {"waiting_save", "await", "resume_map"} => records[i].status = "WaitingInput"
    /\ pc[i] = "finish_map" => records[i].status = disk[i].status
    /\ pc[i] \in {"running_map", "running_save", "resume_map", "resume_save"} =>
          local[i].status = "Running"
    /\ pc[i] \in {"waiting_map", "waiting_save"} => local[i].status = "WaitingInput"

\* From its last update on, a worker leaves the same record in the map and on
\* disk.
CopiesAgree(i) ==
    /\ pc[i] = "finish_save" => records[i] = local[i]
    /\ pc[i] \in {"finished", "done"} => disk[i] = records[i]

\* Someone will finish the record (NoZombie, for one subagent).
Attended(i) ==
    disk[i].status \in LiveStatus =>
        \/ pc[i] \in SpawnPc \cup WorkerPc \cup {"abandoned"}
        \/ booting /\ scan["self"][i] # Absent

Follows(i) == DiskFollows(i) /\ MapFollows(i) /\ CopiesAgree(i) /\ Attended(i)

\* With writes that succeed, on top of what holds when they fail too.
FollowInv == StoreInv /\ budget.failures = 0 /\ \A i \in Ids : Follows(i)

LEMMA StoreTypes ==
    ASSUME StoreInv
    PROVE  /\ pc \in [Ids -> Pc]
           /\ disk \in [Ids -> Record]
           /\ records \in [Ids -> Record]
           /\ local \in [Ids -> Record]
           /\ scan \in [Instances -> [Ids -> Record]]
           /\ child \in [Ids -> Ids \cup {NoId}]
           /\ sup \in Command
BY DEF StoreInv, PoolInv, VarTypes

\* A subagent whose records a step leaves alone follows as before, wherever
\* its spawn, or its parent's, returns to.
LEMMA StillFollows ==
    ASSUME NEW i \in Ids, Follows(i), UNCHANGED <<booting, scan>>,
           disk'[i] = disk[i], records'[i] = records[i], local'[i] = local[i],
           \/ pc'[i] = pc[i]
           \/ pc[i] \in TurnPc /\ pc'[i] \in TurnPc
           \/ pc[i] = "persisted" /\ pc'[i] = "tokened"
           \/ pc'[i] \in {"claimed", "built", "abandoned"}
           \/ pc'[i] = "failed" /\ disk[i] = Absent
    PROVE  Follows(i)'
<1> USE DEF Follows
<1>1. CASE pc'[i] = pc[i]
    BY <1>1 DEF DiskFollows, MapFollows, CopiesAgree, Attended
<1>2. CASE pc[i] \in TurnPc /\ pc'[i] \in TurnPc
    BY <1>2 DEF DiskFollows, MapFollows, CopiesAgree, Attended, TurnPc, WorkerPc, PermitPc,
       DroppablePc
<1>3. CASE pc[i] = "persisted" /\ pc'[i] = "tokened"
    BY <1>3 DEF DiskFollows, MapFollows, CopiesAgree, Attended, TurnPc, SpawnPc
<1>4. CASE pc'[i] \in {"claimed", "built", "abandoned"}
    BY <1>4 DEF DiskFollows, MapFollows, CopiesAgree, Attended, TurnPc, SpawnPc
<1>5. CASE pc'[i] = "failed" /\ disk[i] = Absent
    BY <1>5, StatusDisjoint DEF DiskFollows, MapFollows, CopiesAgree, Attended, TurnPc
<1> QED
    BY <1>1, <1>2, <1>3, <1>4, <1>5

\* A step that writes no record.
LEMMA NoneMoves ==
    ASSUME FollowInv, UNCHANGED <<disk, records, local, scan, booting>>,
           \A i \in Ids :
              \/ pc'[i] = pc[i]
              \/ pc[i] \in TurnPc /\ pc'[i] \in TurnPc
              \/ pc[i] = "persisted" /\ pc'[i] = "tokened"
              \/ pc'[i] \in {"claimed", "built", "abandoned"}
              \/ pc'[i] = "failed" /\ disk[i] = Absent
    PROVE  \A i \in Ids : Follows(i)'
BY StillFollows DEF FollowInv

\* Writes succeed.
LEMMA NoSaveFails == FollowInv => ~SaveFails
BY DEF FollowInv, SaveFails

\* Where a returning spawn leaves everyone.
LEMMA ReturnMoves ==
    ASSUME StoreInv, NEW id \in Ids, pc[id] \in SpawnPc, NEW at, NEW parentAt,
           SpawnReturns(id, at, parentAt), NEW i \in Ids
    PROVE  /\ i = id => pc'[i] = at
           /\ i # id => \/ pc'[i] = pc[i]
                        \/ pc[i] = "spawning" /\ pc'[i] = parentAt
<1>1. CASE i = meta[id].parent
    <2>1. meta[id].parent # NoId
        BY <1>1, IdsAssumption
    <2>2. pc[i] = "spawning"
        BY <1>1, <2>1 DEF StoreInv, PoolInv, SpawnInv
    <2> QED
        BY <1>1, <2>2 DEF SpawnReturns
<1>2. CASE i # meta[id].parent
    BY <1>2 DEF SpawnReturns
<1> QED
    BY <1>1, <1>2

LEMMA FollowSpawnTop ==
    ASSUME FollowInv, NEW id \in Ids, NEW req \in Requests, SpawnTop(id, req)
    PROVE  \A i \in Ids : Follows(i)'
BY NoneMoves, StoreTypes DEF FollowInv, SpawnTop, BeginSpawn, SpawnEntry, storeVars

LEMMA FollowAgentSpawn ==
    ASSUME FollowInv, NEW p \in Ids, NEW id \in Ids, NEW req \in Requests,
           AgentSpawn(p, id, req)
    PROVE  \A i \in Ids : Follows(i)'
BY NoneMoves, StoreTypes DEF FollowInv, AgentSpawn, BeginSpawn, SpawnEntry, storeVars, TurnPc

LEMMA FollowWorktreeCreated ==
    ASSUME FollowInv, NEW id \in Ids, WorktreeCreated(id)
    PROVE  \A i \in Ids : Follows(i)'
BY NoneMoves, StoreTypes DEF FollowInv, WorktreeCreated, managerVars

LEMMA FollowWorktreeFails ==
    ASSUME FollowInv, NEW id \in Ids, WorktreeFails(id)
    PROVE  \A i \in Ids : Follows(i)'
<1>1. pc[id] \in SpawnPc /\ disk[id] = Absent
    BY DEF FollowInv, StoreInv, DiskInv, WorktreeFails, SpawnPc, UnwrittenPc
<1>2. ASSUME NEW i \in Ids
      PROVE  \/ pc'[i] = pc[i]
             \/ pc[i] \in TurnPc /\ pc'[i] \in TurnPc
             \/ pc'[i] = "failed" /\ disk[i] = Absent
    BY <1>1, ReturnMoves DEF FollowInv, WorktreeFails, TurnPc
<1> QED
    BY <1>2, NoneMoves DEF WorktreeFails, storeVars, managerVars

LEMMA FollowSpawnPersist ==
    ASSUME FollowInv, NEW id \in Ids, SpawnPersist(id)
    PROVE  \A i \in Ids : Follows(i)'
<1>1. disk' = [disk EXCEPT ![id] = NewRecord] /\ pc' = [pc EXCEPT ![id] = "persisted"]
    BY NoSaveFails DEF SpawnPersist, Save
<1>2. UNCHANGED <<records, local, scan, booting>>
    BY DEF SpawnPersist, managerVars
<1>3. ASSUME NEW i \in Ids, i # id
      PROVE  Follows(i)'
    BY <1>1, <1>2, <1>3, StillFollows, StoreTypes DEF FollowInv
<1>4. disk'[id].status = "Queued" /\ pc'[id] = "persisted"
    BY <1>1, StoreTypes, RecordFacts DEF FollowInv
<1>5. Follows(id)'
    BY <1>4 DEF Follows, DiskFollows, MapFollows, CopiesAgree, Attended, TurnPc, SpawnPc
<1> QED
    BY <1>3, <1>5

LEMMA FollowSpawnToken ==
    ASSUME FollowInv, NEW id \in Ids, SpawnToken(id)
    PROVE  \A i \in Ids : Follows(i)'
BY NoneMoves, StoreTypes DEF FollowInv, SpawnToken, storeVars

LEMMA FollowSpawnStart ==
    ASSUME FollowInv, NEW id \in Ids, SpawnStart(id)
    PROVE  \A i \in Ids : Follows(i)'
<1>1. pc[id] = "tokened" /\ pc[id] \in SpawnPc
    BY DEF SpawnStart, SpawnPc
<1>2. UNCHANGED <<disk, scan, booting>>
    BY DEF SpawnStart, storeVars
<1>3. SpawnReturns(id, "queued", "childwait")
    BY DEF SpawnStart
<1>4. ASSUME NEW i \in Ids, i # id
      PROVE  Follows(i)'
    <2>1. records'[i] = records[i] /\ local'[i] = local[i]
        BY <1>4, StoreTypes DEF FollowInv, SpawnStart
    <2>2. pc'[i] = pc[i] \/ (pc[i] = "spawning" /\ pc'[i] = "childwait")
        BY <1>1, <1>4, <1>3, ReturnMoves DEF FollowInv
    <2>3. pc'[i] = pc[i] \/ (pc[i] \in TurnPc /\ pc'[i] \in TurnPc)
        BY <2>2 DEF TurnPc
    <2> QED
        BY <1>2, <2>1, <2>3, StillFollows DEF FollowInv
<1>5. /\ pc'[id] = "queued" /\ disk'[id].status = "Queued"
      /\ records'[id].status = "Queued" /\ local'[id].status = "Queued"
    <2>1. pc'[id] = "queued"
        BY <1>1, <1>3, ReturnMoves DEF FollowInv
    <2>2. records'[id] = NewRecord /\ local'[id] = NewRecord
        BY StoreTypes DEF FollowInv, SpawnStart
    <2>3. disk'[id].status = "Queued"
        BY <1>1, <1>2 DEF FollowInv, Follows, DiskFollows
    <2> QED
        BY <2>1, <2>2, <2>3, RecordFacts
<1>6. Follows(id)'
    BY <1>5 DEF Follows, DiskFollows, MapFollows, CopiesAgree, Attended, TurnPc, WorkerPc
<1> QED
    BY <1>4, <1>6

\* A step of one worker that keeps its records to itself.
LEMMA OthersFollow ==
    ASSUME FollowInv, NEW id \in Ids, UNCHANGED <<booting, scan>>, Follows(id)',
           \A i \in Ids : i # id =>
              /\ disk'[i] = disk[i] /\ records'[i] = records[i] /\ local'[i] = local[i]
              /\ pc'[i] = pc[i] \/ pc'[i] = "abandoned"
    PROVE  \A i \in Ids : Follows(i)'
<1>1. ASSUME NEW i \in Ids, i # id
      PROVE  Follows(i)'
    BY <1>1, StillFollows DEF FollowInv
<1> QED
    BY <1>1

LEMMA FollowAcquire ==
    ASSUME FollowInv, NEW id \in Ids, Acquire(id)
    PROVE  \A i \in Ids : Follows(i)'
<1>1. /\ pc[id] = "queued" /\ disk[id].status = "Queued" /\ records[id].status = "Queued"
      /\ UNCHANGED <<disk, records, scan, booting>>
    BY DEF FollowInv, Follows, DiskFollows, MapFollows, Acquire, storeVars
<1>2. /\ set_status(local[id], "Stopped").status = "Stopped"
      /\ set_status(local[id], "Running").status = "Running"
    BY StoreTypes, RecordFacts, StatusFacts DEF FollowInv
<1>3. \/ pc'[id] = "running_map" /\ local'[id].status = "Running"
      \/ pc'[id] = "finish_map" /\ local'[id].status = "Stopped"
    BY <1>2, StoreTypes DEF FollowInv, Acquire
<1>4. Follows(id)'
    BY <1>1, <1>3
    DEF Follows, DiskFollows, MapFollows, CopiesAgree, Attended, TurnPc, WorkerPc, PermitPc
<1> QED
    BY <1>1, <1>4, OthersFollow, StoreTypes DEF FollowInv, Acquire

LEMMA FollowUpdateMap ==
    ASSUME FollowInv, NEW id \in Ids, UpdateMap(id)
    PROVE  \A i \in Ids : Follows(i)'
<1>1. Follows(id) /\ pc[id] \in MapPc /\ UNCHANGED <<disk, local, scan, booting>>
    BY DEF FollowInv, UpdateMap, storeVars
<1>2. pc'[id] = AfterMap[pc[id]] /\ records'[id] = local[id]
    BY StoreTypes DEF FollowInv, UpdateMap
<1>3. Follows(id)'
    <2>1. CASE pc[id] = "running_map"
        BY <1>1, <1>2, <2>1
        DEF AfterMap, Follows, DiskFollows, MapFollows, CopiesAgree, Attended, TurnPc, WorkerPc,
            PermitPc
    <2>2. CASE pc[id] = "waiting_map"
        BY <1>1, <1>2, <2>2
        DEF AfterMap, Follows, DiskFollows, MapFollows, CopiesAgree, Attended, TurnPc, WorkerPc,
            PermitPc
    <2>3. CASE pc[id] = "resume_map"
        BY <1>1, <1>2, <2>3
        DEF AfterMap, Follows, DiskFollows, MapFollows, CopiesAgree, Attended, TurnPc, WorkerPc,
            PermitPc
    <2>4. CASE pc[id] = "finish_map"
        BY <1>1, <1>2, <2>4
        DEF AfterMap, Follows, DiskFollows, MapFollows, CopiesAgree, Attended, TurnPc, WorkerPc,
            PermitPc
    <2> QED
        BY <1>1, <2>1, <2>2, <2>3, <2>4 DEF MapPc
<1> QED
    BY <1>1, <1>3, OthersFollow, StoreTypes DEF FollowInv, UpdateMap

\* A save that succeeds.
LEMMA UpdateSaved ==
    ASSUME FollowInv, NEW id \in Ids, UpdateSave(id)
    PROVE  /\ disk' = [disk EXCEPT ![id] = local[id]]
           /\ pc' = [pc EXCEPT ![id] = AfterSave[pc[id]]]
           /\ UNCHANGED <<records, local, scan, booting>>
BY NoSaveFails DEF UpdateSave, Save, managerVars

LEMMA FollowUpdateSave ==
    ASSUME FollowInv, NEW id \in Ids, UpdateSave(id)
    PROVE  \A i \in Ids : Follows(i)'
<1>1. Follows(id) /\ pc[id] \in SavePc /\ UNCHANGED <<records, local, scan, booting>>
    BY UpdateSaved DEF FollowInv, UpdateSave
<1>2. pc'[id] = AfterSave[pc[id]] /\ disk'[id] = local[id]
    BY StoreTypes, UpdateSaved DEF FollowInv
<1>3. Follows(id)'
    <2>1. CASE pc[id] \in {"running_save", "resume_save"}
        BY <1>1, <1>2, <2>1
        DEF AfterSave, Follows, DiskFollows, MapFollows, CopiesAgree, Attended, TurnPc, WorkerPc,
            PermitPc, DroppablePc
    <2>2. CASE pc[id] = "waiting_save"
        BY <1>1, <1>2, <2>2
        DEF AfterSave, Follows, DiskFollows, MapFollows, CopiesAgree, Attended, TurnPc, WorkerPc,
            PermitPc, DroppablePc
    <2>3. CASE pc[id] = "finish_save"
        BY <1>1, <1>2, <2>3
        DEF AfterSave, Follows, DiskFollows, MapFollows, CopiesAgree, Attended, TurnPc, WorkerPc,
            PermitPc
    <2> QED
        BY <1>1, <2>1, <2>2, <2>3 DEF SavePc
<1>4. \A i \in Ids : i # id => disk'[i] = disk[i] /\ pc'[i] = pc[i]
    BY StoreTypes, UpdateSaved DEF FollowInv
<1> QED
    BY <1>1, <1>3, <1>4, OthersFollow

LEMMA FollowRelease ==
    ASSUME FollowInv, NEW id \in Ids, Release(id)
    PROVE  \A i \in Ids : Follows(i)'
<1>1. pc[id] = "finished" /\ UNCHANGED <<disk, records, scan, booting>>
    BY DEF Release, storeVars
<1>2. disk[id] = records[id] /\ records[id].status \in TerminalStatus \cup {"absent"}
    BY <1>1 DEF FollowInv, StoreInv, PoolInv, MapInv, Follows, CopiesAgree
<1>3. disk[id].status \notin LiveStatus
    BY <1>2, StatusDisjoint DEF is_terminal
<1>4. pc'[id] = "done"
    BY StoreTypes DEF FollowInv, Release
<1>5. Follows(id)'
    BY <1>1, <1>2, <1>3, <1>4
    DEF Follows, DiskFollows, MapFollows, CopiesAgree, Attended, TurnPc
<1> QED
    BY <1>1, <1>5, OthersFollow, StoreTypes DEF FollowInv, Release

\* A worker's end, by a status its record on disk may move to.
LEMMA FollowFinish ==
    ASSUME FollowInv, NEW id \in Ids, NEW st \in TerminalStatus, NEW x \in Results,
           Finish(id, st, x), UNCHANGED <<disk, records, scan, booting>>,
           pc[id] \in DroppablePc,
           \/ st = "Stopped"
           \/ st \in {"Completed", "Failed"} /\ pc[id] \in TurnPc
           \/ st = "TimedOut"
    PROVE  \A i \in Ids : Follows(i)'
<1>1. Follows(id)
    BY DEF FollowInv
<1>2. local'[id].status = st
    BY StoreTypes, RecordFacts DEF FollowInv, Finish
<1>3. pc'[id] = "finish_map"
    BY DEF Finish
<1>4. /\ disk[id].status \in {"Running", "WaitingInput"}
      /\ pc[id] \in TurnPc => disk[id].status = "Running"
      /\ records[id].status = disk[id].status
    BY <1>1 DEF Follows, DiskFollows, MapFollows, DroppablePc, TurnPc
<1>5. Follows(id)'
    BY <1>2, <1>3, <1>4
    DEF Follows, DiskFollows, MapFollows, CopiesAgree, Attended, TurnPc, WorkerPc, PermitPc
<1> QED
    BY <1>5, OthersFollow, StoreTypes DEF FollowInv, Finish

LEMMA FollowTimeout ==
    ASSUME FollowInv, NEW id \in Ids, Timeout(id)
    PROVE  \A i \in Ids : Follows(i)'
BY FollowFinish, StatusFacts DEF Timeout

LEMMA FollowObserveStop ==
    ASSUME FollowInv, NEW id \in Ids, ObserveStop(id)
    PROVE  \A i \in Ids : Follows(i)'
BY FollowFinish, StatusFacts DEF ObserveStop, managerVars

LEMMA FollowRunFails ==
    ASSUME FollowInv, NEW id \in Ids, RunFails(id)
    PROVE  \A i \in Ids : Follows(i)'
BY FollowFinish, StatusFacts DEF RunFails, managerVars, storeVars, TurnPc, DroppablePc

LEMMA FollowRunAsks ==
    ASSUME FollowInv, NEW id \in Ids, RunAsks(id)
    PROVE  \A i \in Ids : Follows(i)'
<1>1. Follows(id) /\ pc[id] = "drive" /\ UNCHANGED <<disk, records, scan, booting>>
    BY DEF FollowInv, RunAsks, storeVars, managerVars
<1>2. pc'[id] = "waiting_map" /\ local'[id].status = "WaitingInput"
    BY StoreTypes, RecordFacts, StatusFacts DEF FollowInv, RunAsks
<1>3. Follows(id)'
    BY <1>1, <1>2
    DEF Follows, DiskFollows, MapFollows, CopiesAgree, Attended, TurnPc, WorkerPc, PermitPc,
        DroppablePc
<1> QED
    BY <1>1, <1>3, OthersFollow, StoreTypes DEF FollowInv, RunAsks

LEMMA FollowTakeAnswer ==
    ASSUME FollowInv, NEW id \in Ids, TakeAnswer(id)
    PROVE  \A i \in Ids : Follows(i)'
<1>1. Follows(id) /\ pc[id] = "await" /\ UNCHANGED <<disk, records, scan, booting>>
    BY DEF FollowInv, TakeAnswer, storeVars
<1>2. pc'[id] = "resume_map" /\ local'[id].status = "Running"
    BY StoreTypes, RecordFacts, StatusFacts DEF FollowInv, TakeAnswer
<1>3. Follows(id)'
    BY <1>1, <1>2
    DEF Follows, DiskFollows, MapFollows, CopiesAgree, Attended, TurnPc, WorkerPc, PermitPc,
        DroppablePc
<1> QED
    BY <1>1, <1>3, OthersFollow, StoreTypes DEF FollowInv, TakeAnswer

LEMMA FollowRunEnds ==
    ASSUME FollowInv, NEW id \in Ids, RunEnds(id)
    PROVE  \A i \in Ids : Follows(i)'
BY NoneMoves, StoreTypes DEF FollowInv, RunEnds, storeVars, managerVars, TurnPc

LEMMA FollowChildReturns ==
    ASSUME FollowInv, NEW id \in Ids, ChildReturns(id)
    PROVE  \A i \in Ids : Follows(i)'
BY NoneMoves, StoreTypes DEF FollowInv, ChildReturns, storeVars, managerVars, TurnPc

LEMMA FollowDrain ==
    ASSUME FollowInv, NEW id \in Ids, Drain(id)
    PROVE  \A i \in Ids : Follows(i)'
<1>1. CASE pending[id] # {}
    BY <1>1, NoneMoves, StoreTypes DEF FollowInv, Drain, storeVars, TurnPc
<1>2. CASE pending[id] = {}
    BY <1>2, FollowFinish, StatusFacts DEF Drain, storeVars, TurnPc, DroppablePc
<1> QED
    BY <1>1, <1>2

\* Who can still be sent a message is still at work, and the map's status,
\* which goes to disk with the message, is one its worker has reached.
LEMMA SendMessageFacts ==
    ASSUME FollowInv, NEW id \in Ids, NEW m \in Messages, SendMessage(id, m)
    PROVE  /\ disk' = [disk EXCEPT ![id] = push_message(records[id], m)]
           /\ records' = [records EXCEPT ![id] = push_message(records[id], m)]
           /\ push_message(records[id], m).status = records[id].status
           /\ pc[id] \in WorkerPc \ {"finish_save", "finished"}
           /\ UNCHANGED <<pc, local, scan, booting>>
<1>1. records[id].status \in LiveStatus
    BY StoreTypes, RecordFacts DEF FollowInv, SendMessage, Reachable, is_terminal
<1>2. pc[id] \in WorkerPc \ {"finish_save", "finished"}
    BY <1>1, StatusDisjoint, StatusFacts, StoreTypes
    DEF FollowInv, StoreInv, PoolInv, MapInv, is_terminal, Pc, SpawnPc, WorkerPc, PermitPc,
        DroppablePc, GonePc
<1>3. /\ disk' = [disk EXCEPT ![id] = push_message(records[id], m)]
      /\ records' = [records EXCEPT ![id] = push_message(records[id], m)]
    BY NoSaveFails, StoreTypes DEF FollowInv, SendMessage, Save
<1>4. push_message(records[id], m).status = records[id].status
    BY StoreTypes, RecordFacts DEF FollowInv
<1> QED
    BY <1>2, <1>3, <1>4 DEF SendMessage, taskVars

LEMMA FollowSendMessage ==
    ASSUME FollowInv, NEW id \in Ids, NEW m \in Messages, SendMessage(id, m)
    PROVE  \A i \in Ids : Follows(i)'
<1>1. /\ Follows(id) /\ pc[id] \in WorkerPc \ {"finish_save", "finished"}
      /\ UNCHANGED <<pc, local, scan, booting>>
    BY SendMessageFacts DEF FollowInv
<1>2. disk'[id].status = records[id].status /\ records'[id].status = records[id].status
    BY StoreTypes, SendMessageFacts DEF FollowInv
<1>3. Follows(id)'
    BY <1>1, <1>2
    DEF Follows, DiskFollows, MapFollows, CopiesAgree, Attended, TurnPc, WorkerPc, PermitPc,
        DroppablePc
<1>4. \A i \in Ids : i # id => disk'[i] = disk[i] /\ records'[i] = records[i]
    BY StoreTypes, SendMessageFacts DEF FollowInv
<1> QED
    BY <1>1, <1>3, <1>4, OthersFollow

LEMMA FollowCleanup ==
    ASSUME FollowInv, NEW id \in Ids, CleanupWorktree(id)
    PROVE  \A i \in Ids : Follows(i)'
BY NoneMoves DEF CleanupWorktree, managerVars, taskVars

\* A finished record's worker has nothing left to write.
LEMMA FollowDelete ==
    ASSUME FollowInv, Delete
    PROVE  \A i \in Ids : Follows(i)'
<1>1. PICK id \in Ids : id = sup.id /\ is_terminal(disk[id].status)
    BY DEF FollowInv, StoreInv, PoolInv, VarTypes, Command, SupIdle, CleanupInv, Delete
<1>2. pc[id] \notin UnwrittenPc \cup WrittenPc
    BY <1>1, StatusDisjoint DEF FollowInv, StoreInv, DiskInv
<1>3. UNCHANGED <<pc, local, scan, booting>>
    BY DEF Delete, taskVars
<1>4. disk'[id] = Absent /\ records'[id] = Absent
    BY <1>1, NoSaveFails, StoreTypes DEF FollowInv, Delete, Save
<1>5. Follows(id)'
    BY <1>2, <1>3, <1>4, StatusDisjoint
    DEF Follows, DiskFollows, MapFollows, CopiesAgree, Attended, TurnPc, WrittenPc, WorkerPc,
        PermitPc, DroppablePc
<1>6. \A i \in Ids : i # id => disk'[i] = disk[i] /\ records'[i] = records[i]
    BY <1>1, NoSaveFails, StoreTypes DEF FollowInv, Delete, Save
<1> QED
    BY <1>3, <1>5, <1>6, OthersFollow

\* The next boot lists every unfinished record before anything else happens.
LEMMA FollowRestart ==
    ASSUME FollowInv, Restart
    PROVE  \A i \in Ids : Follows(i)'
<1>1. ASSUME NEW i \in Ids
      PROVE  Follows(i)'
    <2>1. pc'[i] \in {"unborn", "dead"} /\ booting' /\ disk' = disk
        BY DEF Restart
    <2>2. scan'["self"][i] = IF disk[i].status \in LiveStatus THEN disk[i] ELSE Absent
        BY StoreTypes DEF FollowInv, Restart, Instances, Unfinished
    <2>3. Attended(i)'
        BY <2>1, <2>2, StatusDisjoint DEF Attended
    <2> QED
        BY <2>1, <2>3
        DEF Follows, DiskFollows, MapFollows, CopiesAgree, TurnPc
<1> QED
    BY <1>1

\* A pass that is still to save a record runs at boot, for a dead worker.
LEMMA RecoverFacts ==
    ASSUME FollowInv, NEW n \in Instances, NEW id \in Ids, RecoverSave(n, id)
    PROVE  /\ n = "self" /\ booting /\ pc[id] \in {"unborn", "dead"}
           /\ disk[id].status \in LiveStatus
           /\ disk' = [disk EXCEPT ![id] = set_status(scan[n][id], "Interrupted")]
           /\ set_status(scan[n][id], "Interrupted").status = "Interrupted"
           /\ UNCHANGED <<pc, records, local, booting>>
<1>1. n = "self" /\ booting /\ pc[id] \in {"unborn", "dead"} /\ disk[id].status \in LiveStatus
    BY DEF FollowInv, StoreInv, ScanInv, RecoverSave, Instances
<1>2. set_status(scan[n][id], "Interrupted").status = "Interrupted"
    BY StoreTypes, RecordFacts, StatusFacts DEF FollowInv
<1> QED
    BY <1>1, <1>2, NoSaveFails DEF RecoverSave, Save, managerVars, taskVars

LEMMA FollowRecoverSave ==
    ASSUME FollowInv, NEW n \in Instances, NEW id \in Ids, RecoverSave(n, id)
    PROVE  \A i \in Ids : Follows(i)'
<1>1. disk'[id].status = "Interrupted"
    BY RecoverFacts, StoreTypes DEF FollowInv
<1>2. Follows(id)'
    BY <1>1, RecoverFacts
    DEF Follows, DiskFollows, MapFollows, CopiesAgree, Attended, TurnPc, LiveStatus
<1>3. ASSUME NEW i \in Ids, i # id
      PROVE  Follows(i)'
    <2>1. disk'[i] = disk[i]
        BY <1>3, RecoverFacts, StoreTypes DEF FollowInv
    <2>2. scan'["self"][i] = scan["self"][i]
        BY <1>3, RecoverFacts, StoreTypes DEF FollowInv, RecoverSave
    <2>3. Follows(i)
        BY DEF FollowInv
    <2>4. Attended(i)'
        BY <2>1, <2>2, <2>3, RecoverFacts DEF Follows, Attended
    <2>5. DiskFollows(i)' /\ MapFollows(i)' /\ CopiesAgree(i)'
        BY <2>1, <2>3, RecoverFacts DEF Follows, DiskFollows, MapFollows, CopiesAgree
    <2> QED
        BY <2>4, <2>5 DEF Follows
<1> QED
    BY <1>2, <1>3

LEMMA FollowBootDone ==
    ASSUME FollowInv, BootDone
    PROVE  \A i \in Ids : Follows(i)'
<1>1. ASSUME NEW i \in Ids
      PROVE  Follows(i)'
    <2>1. Follows(i) /\ UNCHANGED <<disk, records, local, pc, scan>>
        BY DEF FollowInv, BootDone, storeVars, managerVars, taskVars
    <2>2. scan["self"][i] = Absent
        BY DEF BootDone, NoScan
    <2>3. Attended(i)'
        BY <2>1, <2>2 DEF Follows, Attended
    <2> QED
        BY <2>1, <2>3 DEF Follows, DiskFollows, MapFollows, CopiesAgree
<1> QED
    BY <1>1

LEMMA FollowNext ==
    ASSUME FollowInv, Next
    PROVE  \A i \in Ids : Follows(i)'
<1> DEFINE Goal == \A i \in Ids : Follows(i)'
<1> SUFFICES Goal
    OBVIOUS
<1>1. ASSUME NEW id \in Ids, SpawnSteps(id) PROVE Goal
    BY <1>1, FollowWorktreeCreated, FollowWorktreeFails, FollowSpawnPersist, FollowSpawnToken,
       FollowSpawnStart DEF SpawnSteps
<1>2. ASSUME NEW id \in Ids, WorkerSteps(id) PROVE Goal
    BY <1>2, FollowAcquire, FollowUpdateMap, FollowUpdateSave, FollowRelease, FollowTimeout,
       FollowObserveStop, FollowRunFails, FollowRunAsks, FollowRunEnds, FollowTakeAnswer,
       FollowDrain, FollowChildReturns DEF WorkerSteps
<1>3. ASSUME NEW p \in Ids, NEW id \in Ids, NEW req \in Requests, AgentSpawn(p, id, req)
      PROVE  Goal
    BY <1>3, FollowAgentSpawn
<1>4. CASE SupervisorSteps
    <2>1. ASSUME NEW id \in Ids, NEW req \in Requests, SpawnTop(id, req) PROVE Goal
        BY <2>1, FollowSpawnTop
    <2>2. ASSUME NEW id \in Ids, NEW m \in Messages, SendMessage(id, m) PROVE Goal
        BY <2>2, FollowSendMessage
    <2>3. ASSUME NEW id \in Ids, StopCheck(id) PROVE Goal
        BY <2>3, NoneMoves DEF StopCheck, storeVars, managerVars, taskVars
    <2>4. ASSUME NEW id \in Ids, CleanupWorktree(id) PROVE Goal
        BY <2>4, FollowCleanup
    <2>5. CASE QueueMessage
        BY <2>5, NoneMoves DEF QueueMessage, storeVars, taskVars
    <2>6. CASE StopCancel
        BY <2>6, NoneMoves DEF StopCancel, storeVars, taskVars
    <2>7. CASE Delete
        BY <2>7, FollowDelete
    <2>8. ASSUME NEW name \in Names, WorktreeRemove(name) PROVE Goal
        BY <2>8, NoneMoves DEF WorktreeRemove, managerVars, taskVars
    <2> QED
        BY <1>4, <2>1, <2>2, <2>3, <2>4, <2>5, <2>6, <2>7, <2>8 DEF SupervisorSteps
<1>5. CASE Restart
    BY <1>5, FollowRestart
<1>6. CASE BootDone
    BY <1>6, FollowBootDone
<1>7. CASE ForeignBoot
    BY <1>7 DEF FollowInv, StoreInv, ScanInv, ForeignBoot
<1>8. ASSUME NEW n \in Instances, NEW id \in Ids, RecoverSave(n, id) PROVE Goal
    BY <1>8, FollowRecoverSave
<1> QED
    BY <1>1, <1>2, <1>3, <1>4, <1>5, <1>6, <1>7, <1>8 DEF Next

\* A bound that is spent stays so.
LEMMA BoundsSpent ==
    ASSUME VarTypes, Next
    PROVE  /\ budget.failures = 0 => budget'.failures = 0
           /\ budget.crashes = 0 => budget'.crashes = 0
<1> DEFINE Goal == /\ budget.failures = 0 => budget'.failures = 0
                   /\ budget.crashes = 0 => budget'.crashes = 0
<1> SUFFICES Goal
    OBVIOUS
<1>1. ASSUME UNCHANGED budget \/ SaveFails PROVE Goal
    BY <1>1 DEF VarTypes, SaveFails
<1>2. ASSUME NEW id \in Ids, SpawnSteps(id) PROVE Goal
    BY <1>1, <1>2
    DEF SpawnSteps, WorktreeCreated, WorktreeFails, SpawnPersist, Save, SpawnToken, SpawnStart
<1>3. ASSUME NEW id \in Ids, WorkerSteps(id) PROVE Goal
    BY <1>1, <1>3
    DEF WorkerSteps, Acquire, UpdateMap, UpdateSave, Save, Release, Timeout, ObserveStop,
        RunFails, RunAsks, RunEnds, TakeAnswer, Drain, ChildReturns
<1>4. ASSUME NEW p \in Ids, NEW id \in Ids, NEW req \in Requests, AgentSpawn(p, id, req)
      PROVE  Goal
    BY <1>1, <1>4 DEF AgentSpawn
<1>5. CASE SupervisorSteps
    BY <1>1, <1>5
    DEF SupervisorSteps, SpawnTop, SendMessage, Save, StopCheck, CleanupWorktree, QueueMessage,
        StopCancel, Delete, WorktreeRemove
<1>6. CASE Restart \/ BootDone \/ ForeignBoot
    BY <1>6 DEF VarTypes, Restart, BootDone, ForeignBoot
<1>7. ASSUME NEW n \in Instances, NEW id \in Ids, RecoverSave(n, id) PROVE Goal
    BY <1>1, <1>7 DEF RecoverSave, Save
<1> QED
    BY <1>2, <1>3, <1>4, <1>5, <1>6, <1>7 DEF Next

LEMMA FollowInit == MaxForeignBoots = 0 /\ MaxSaveFailures = 0 /\ Init => FollowInv
<1> SUFFICES ASSUME MaxForeignBoots = 0, MaxSaveFailures = 0, Init PROVE FollowInv
    OBVIOUS
<1>1. ASSUME NEW i \in Ids
      PROVE  Follows(i)
    BY StatusDisjoint
    DEF Init, Follows, DiskFollows, MapFollows, CopiesAgree, Attended, TurnPc
<1>2. budget.failures = 0
    BY DEF Init
<1> QED
    BY <1>1, <1>2, StoreInit DEF FollowInv

LEMMA FollowStep == FollowInv /\ [Next]_vars => FollowInv'
<1> SUFFICES ASSUME FollowInv, [Next]_vars PROVE FollowInv'
    OBVIOUS
<1>1. StoreInv'
    BY StoreNext DEF FollowInv
<1>2. CASE Next
    BY <1>1, <1>2, FollowNext, BoundsSpent DEF FollowInv, StoreInv, PoolInv
<1>3. CASE UNCHANGED vars
    <2>1. \A i \in Ids : Follows(i)'
        BY <1>3, NoneMoves DEF vars
    <2> QED
        BY <1>1, <1>3, <2>1 DEF FollowInv, vars
<1> QED
    BY <1>2, <1>3

\* As long as no write fails and no other process boots on the directory: a
\* worker that is over left on disk the record the manager holds in memory.
THEOREM CopiesAgreeAtTheEnd ==
    ASSUME MaxForeignBoots = 0, MaxSaveFailures = 0
    PROVE  Spec => []DiskAgrees
<1>1. Init => FollowInv
    BY FollowInit
<1>2. FollowInv => DiskAgrees
    BY DEF FollowInv, Follows, CopiesAgree, DiskAgrees
<1> QED
    BY <1>1, <1>2, FollowStep, PTL DEF Spec

\* Under the same conditions a record that looks unfinished always has a task
\* that will finish it or a boot about to mark it, across any number of
\* restarts.
THEOREM NoneForgotten ==
    ASSUME MaxForeignBoots = 0, MaxSaveFailures = 0
    PROVE  Spec => []NoZombie
<1>1. Init => FollowInv
    BY FollowInit
<1>2. FollowInv => NoZombie
    BY DEF FollowInv, Follows, Attended, NoZombie
<1> QED
    BY <1>1, <1>2, FollowStep, PTL DEF Spec

-----------------------------------------------------------------------------
(* The refinement: a step writes at most one status, along the diagram     *)

\* One record written.
LEMMA StatusWritten ==
    ASSUME StoreInv, NEW id \in Ids, NEW rec, disk' = [disk EXCEPT ![id] = rec]
    PROVE  StatusOnDisk' = [StatusOnDisk EXCEPT ![id] = rec.status]
<1> DEFINE written == [i \in Ids |-> IF i = id THEN rec.status ELSE disk[i].status]
<1>1. StatusOnDisk' = written
    <2>1. \A i \in Ids : disk'[i].status = written[i]
        BY StoreTypes
    <2> QED
        BY <2>1 DEF StatusOnDisk
<1>2. [StatusOnDisk EXCEPT ![id] = rec.status] = written
    BY DEF StatusOnDisk
<1> QED
    BY <1>1, <1>2

\* A write that leaves the status as it is.
LEMMA StatusKept ==
    ASSUME StoreInv, NEW id \in Ids, NEW rec, disk' = [disk EXCEPT ![id] = rec],
           rec.status = disk[id].status
    PROVE  UNCHANGED StatusOnDisk
<1>1. \A i \in Ids : disk'[i].status = disk[i].status
    BY StoreTypes
<1> QED
    BY <1>1 DEF StatusOnDisk

\* A write along an edge of the diagram.
LEMMA StatusMoves ==
    ASSUME StoreInv, NEW id \in Ids, NEW rec, disk' = [disk EXCEPT ![id] = rec],
           NEW from, disk[id].status \in from, NEW to, rec.status \in to
    PROVE  L!Move(id, from, to)
<1>1. StatusOnDisk[id] \in from
    BY DEF StatusOnDisk
<1>2. StatusOnDisk' = [StatusOnDisk EXCEPT ![id] = rec.status]
    BY StatusWritten
<1> QED
    BY <1>1, <1>2 DEF L!Move

LEMMA LifecyclePersist ==
    ASSUME FollowInv, NEW id \in Ids, SpawnPersist(id)
    PROVE  L!Next
<1>1. disk' = [disk EXCEPT ![id] = NewRecord]
    BY NoSaveFails DEF SpawnPersist, Save
<1>2. disk[id].status = "absent"
    BY StatusDisjoint DEF FollowInv, StoreInv, DiskInv, SpawnPersist, UnwrittenPc
<1>3. L!Move(id, {"absent"}, {"Queued"})
    BY <1>1, <1>2, RecordFacts, StatusMoves DEF FollowInv
<1> QED
    BY <1>3 DEF L!Next, L!Spawn

LEMMA LifecycleUpdate ==
    ASSUME FollowInv, NEW id \in Ids, UpdateSave(id)
    PROVE  L!Next \/ UNCHANGED StatusOnDisk
<1>1. Follows(id) /\ pc[id] \in SavePc /\ StoreInv
    BY DEF FollowInv, UpdateSave
<1>2. disk' = [disk EXCEPT ![id] = local[id]]
    BY UpdateSaved
<1>3. CASE local[id].status = disk[id].status
    BY <1>1, <1>2, <1>3, StatusKept
<1>4. CASE local[id].status # disk[id].status
    <2>1. CASE pc[id] = "running_save"
        <3>1. L!Move(id, {"Queued"}, {"Running"})
            BY <1>1, <1>2, <1>4, <2>1, StatusMoves DEF Follows, DiskFollows, MapFollows
        <3> QED
            BY <3>1 DEF L!Next, L!Start
    <2>2. CASE pc[id] = "waiting_save"
        <3>1. L!Move(id, {"Running"}, {"WaitingInput"})
            BY <1>1, <1>2, <1>4, <2>2, StatusMoves DEF Follows, DiskFollows, MapFollows
        <3> QED
            BY <3>1 DEF L!Next, L!Ask
    <2>3. CASE pc[id] = "resume_save"
        <3>1. L!Move(id, {"WaitingInput"}, {"Running"})
            BY <1>1, <1>2, <1>4, <2>3, StatusMoves DEF Follows, DiskFollows, MapFollows
        <3> QED
            BY <3>1 DEF L!Next, L!Answer
    <2>4. CASE pc[id] = "finish_save"
        <3>1. disk[id].status \in LiveStatus
            BY <2>4 DEF FollowInv, StoreInv, DiskInv, WrittenPc, WorkerPc, PermitPc
        <3>2. CASE local[id].status = "Stopped"
            <4>1. L!Move(id, L!Live, {"Stopped"})
                BY <1>1, <1>2, <3>1, <3>2, StatusMoves, StatusFacts DEF L!Live
            <4> QED
                BY <4>1 DEF L!Next, L!CutOff
        <3>3. CASE local[id].status \in {"Completed", "Failed"} /\ disk[id].status = "Running"
            <4>1. L!Move(id, {"Running"}, {"Completed", "Failed"})
                BY <1>1, <1>2, <3>3, StatusMoves
            <4> QED
                BY <4>1 DEF L!Next, L!End
        <3>4. CASE /\ local[id].status = "TimedOut"
                   /\ disk[id].status \in {"Running", "WaitingInput"}
            <4>1. L!Move(id, {"Running", "WaitingInput"}, {"TimedOut"})
                BY <1>1, <1>2, <3>4, StatusMoves
            <4> QED
                BY <4>1 DEF L!Next, L!CutOff
        <3> QED
            BY <1>1, <2>4, <3>2, <3>3, <3>4 DEF Follows, DiskFollows
    <2> QED
        BY <1>1, <2>1, <2>2, <2>3, <2>4 DEF SavePc
<1> QED
    BY <1>3, <1>4

\* A message saves the map's record: the step its worker is about to save.
LEMMA LifecycleMessage ==
    ASSUME FollowInv, NEW id \in Ids, NEW m \in Messages, SendMessage(id, m)
    PROVE  L!Next \/ UNCHANGED StatusOnDisk
<1> DEFINE rec == push_message(records[id], m)
<1>1. Follows(id) /\ StoreInv
    BY DEF FollowInv
<1>2. /\ disk' = [disk EXCEPT ![id] = rec] /\ rec.status = records[id].status
      /\ pc[id] \in WorkerPc \ {"finish_save", "finished"}
    BY SendMessageFacts
<1> HIDE DEF rec
<1>3. CASE rec.status = disk[id].status
    BY <1>1, <1>2, <1>3, StatusKept
<1>4. CASE rec.status # disk[id].status
    <2>1. CASE pc[id] = "running_save"
        <3>1. L!Move(id, {"Queued"}, {"Running"})
            BY <1>1, <1>2, <1>4, <2>1, StatusMoves DEF Follows, DiskFollows, MapFollows
        <3> QED
            BY <3>1 DEF L!Next, L!Start
    <2>2. CASE pc[id] = "waiting_save"
        <3>1. L!Move(id, {"Running"}, {"WaitingInput"})
            BY <1>1, <1>2, <1>4, <2>2, StatusMoves DEF Follows, DiskFollows, MapFollows
        <3> QED
            BY <3>1 DEF L!Next, L!Ask
    <2>3. CASE pc[id] = "resume_save"
        <3>1. L!Move(id, {"WaitingInput"}, {"Running"})
            BY <1>1, <1>2, <1>4, <2>3, StatusMoves DEF Follows, DiskFollows, MapFollows
        <3> QED
            BY <3>1 DEF L!Next, L!Answer
    <2>4. CASE pc[id] \notin {"running_save", "waiting_save", "resume_save"}
        <3>1. records[id].status = disk[id].status
            BY <1>1, <1>2, <2>4
            DEF Follows, DiskFollows, MapFollows, WorkerPc, PermitPc, DroppablePc, TurnPc
        <3> QED
            BY <1>2, <1>4, <3>1
    <2> QED
        BY <2>1, <2>2, <2>3, <2>4
<1> QED
    BY <1>3, <1>4

LEMMA LifecycleDelete ==
    ASSUME FollowInv, Delete
    PROVE  L!Next
<1>1. sup.id \in Ids /\ disk[sup.id].status \in L!Final
    BY StatusFacts DEF FollowInv, StoreInv, PoolInv, VarTypes, Command, SupIdle, CleanupInv,
       Delete, is_terminal, L!Final
<1>2. L!Move(sup.id, L!Final, {"absent"})
    BY <1>1, NoSaveFails, StatusMoves, StatusDisjoint DEF FollowInv, Delete, Save
<1> QED
    BY <1>1, <1>2 DEF L!Next, L!Remove

LEMMA LifecycleRecover ==
    ASSUME FollowInv, NEW n \in Instances, NEW id \in Ids, RecoverSave(n, id)
    PROVE  L!Next
<1>1. disk[id].status \in L!Live
    BY RecoverFacts, StatusFacts DEF L!Live
<1>2. L!Move(id, L!Live, {"Interrupted"})
    BY <1>1, RecoverFacts, StatusMoves DEF FollowInv
<1> QED
    BY <1>2 DEF L!Next, L!Interrupt

LEMMA LifecycleStep ==
    ASSUME FollowInv, [Next]_vars
    PROVE  L!Next \/ UNCHANGED StatusOnDisk
<1> DEFINE Goal == L!Next \/ UNCHANGED StatusOnDisk
<1> SUFFICES Goal
    OBVIOUS
<1>1. ASSUME UNCHANGED disk PROVE Goal
    BY <1>1 DEF StatusOnDisk
<1>2. ASSUME NEW id \in Ids, SpawnSteps(id) PROVE Goal
    BY <1>1, <1>2, LifecyclePersist
    DEF SpawnSteps, WorktreeCreated, WorktreeFails, SpawnToken, SpawnStart, storeVars
<1>3. ASSUME NEW id \in Ids, WorkerSteps(id) PROVE Goal
    BY <1>1, <1>3, LifecycleUpdate
    DEF WorkerSteps, Acquire, UpdateMap, Release, Timeout, ObserveStop, RunFails, RunAsks,
        RunEnds, TakeAnswer, Drain, ChildReturns, storeVars
<1>4. ASSUME NEW p \in Ids, NEW id \in Ids, NEW req \in Requests, AgentSpawn(p, id, req)
      PROVE  Goal
    BY <1>1, <1>4 DEF AgentSpawn, storeVars
<1>5. CASE SupervisorSteps
    BY <1>1, <1>5, LifecycleMessage, LifecycleDelete
    DEF SupervisorSteps, SpawnTop, StopCheck, CleanupWorktree, WorktreeRemove, QueueMessage,
        StopCancel, storeVars
<1>6. CASE Restart \/ BootDone \/ ForeignBoot
    BY <1>1, <1>6 DEF Restart, BootDone, ForeignBoot, storeVars
<1>7. ASSUME NEW n \in Instances, NEW id \in Ids, RecoverSave(n, id) PROVE Goal
    BY <1>7, LifecycleRecover
<1>8. CASE UNCHANGED vars
    BY <1>1, <1>8 DEF vars
<1> QED
    BY <1>2, <1>3, <1>4, <1>5, <1>6, <1>7, <1>8 DEF Next

\* The engine implements the documented life cycle: whatever workers,
\* messages, stops, timeouts, cleanups and restarts do to each other, every
\* write takes one record along one edge of the state diagram.
THEOREM ImplementsLifecycle ==
    ASSUME MaxForeignBoots = 0, MaxSaveFailures = 0
    PROVE  Spec => FollowsLifecycle
<1>1. Init => FollowInv
    BY FollowInit
<1>2. Init => L!Init
    BY StatusDisjoint DEF Init, L!Init, StatusOnDisk
<1>3. FollowInv /\ [Next]_vars => [L!Next]_StatusOnDisk
    BY LifecycleStep
<1> QED
    BY <1>1, <1>2, <1>3, FollowStep, PTL DEF Spec, FollowsLifecycle, L!Spec

-----------------------------------------------------------------------------
(* Stop: whoever is at work has a token                                    *)

\* From the token's insertion to the final save.
TokenPc == {"tokened"} \cup (WorkerPc \ {"finished"})

\* The supervisor awaits its own spawn, a worker has a token until it is over,
\* and a stop in progress will find the one it is after.
StopInv ==
    /\ \A i \in Ids : pc[i] \in SpawnPc /\ meta[i].parent = NoId =>
          sup.op = "spawn" /\ sup.id = i
    /\ \A i \in Ids : pc[i] \in TokenPc => i \in tokens
    /\ sup.op = "stop" /\ pc[sup.id] \in WorkerPc => sup.id \in tokens

\* What StopReachesToken says of one step.
StopStep ==
    \A i \in Ids :
        sup.op = "stop" /\ sup.id = i /\ sup'.op = "idle" /\ pc'[i] \in WorkerPc =>
            i \in cancelled'

\* A step of spawns and workers that leaves the supervisor alone.
LEMMA TokensKept ==
    ASSUME StopInv, UNCHANGED <<sup, meta>>, tokens \subseteq tokens', sup \in Command,
           \A i \in Ids :
              \/ pc'[i] = pc[i]
              \/ pc'[i] \notin SpawnPc \cup WorkerPc
              \/ pc'[i] \in WorkerPc /\ pc[i] \in TokenPc
              \/ pc'[i] \in SpawnPc \ {"tokened"} /\ pc[i] \in SpawnPc
              \/ pc'[i] = "tokened" /\ pc[i] \in SpawnPc /\ i \in tokens'
    PROVE  StopInv' /\ StopStep
<1>1. \A i \in Ids : pc'[i] \in SpawnPc => pc[i] \in SpawnPc
    BY DEF SpawnPc, TokenPc, WorkerPc, PermitPc, DroppablePc
<1>2. \A i \in Ids : pc'[i] \in TokenPc => i \in tokens'
    BY DEF StopInv, TokenPc, SpawnPc, WorkerPc, PermitPc, DroppablePc
<1>3. \A i \in Ids : pc'[i] \in WorkerPc => pc[i] \in WorkerPc \/ i \in tokens'
    BY DEF StopInv, TokenPc, SpawnPc, WorkerPc, PermitPc, DroppablePc
<1>4. sup.op = "stop" => sup.id \in Ids
    BY DEF Command, SupIdle
<1> QED
    BY <1>1, <1>2, <1>3, <1>4 DEF StopInv, StopStep

\* A command of the supervisor that is not a spawn or a stop.
LEMMA TokensWhileCommanding ==
    ASSUME StopInv, UNCHANGED <<pc, meta, tokens>>, sup.op \notin {"spawn", "stop"},
           sup'.op # "stop"
    PROVE  StopInv' /\ StopStep
BY DEF StopInv, StopStep

\* A spawn that returns, in error or to its new worker.
LEMMA TokensAtReturn ==
    ASSUME StoreInv, StopInv, NEW id \in Ids, pc[id] \in SpawnPc, UNCHANGED <<meta, tokens>>,
           NEW at, at \in {"failed", "queued"}, at = "queued" => pc[id] = "tokened",
           NEW parentAt, parentAt \in {"drive", "childwait"}, SpawnReturns(id, at, parentAt)
    PROVE  StopInv' /\ StopStep
<1>1. /\ pc'[id] = at
      /\ \A i \in Ids : i # id => \/ pc'[i] = pc[i]
                                  \/ pc[i] = "spawning" /\ pc'[i] = parentAt
    BY ReturnMoves
<1>2. \A i \in Ids : \/ pc'[i] = pc[i]
                     \/ pc'[i] \notin SpawnPc \cup WorkerPc
                     \/ pc'[i] \in WorkerPc /\ pc[i] \in TokenPc
    BY <1>1 DEF TokenPc, SpawnPc, WorkerPc, PermitPc, DroppablePc
<1>3. CASE meta[id].parent # NoId
    <2>1. sup' = sup
        BY <1>3 DEF SpawnReturns
    <2> QED
        BY <1>2, <2>1, TokensKept, StoreTypes
<1>4. CASE meta[id].parent = NoId
    <2>1. sup.op = "spawn" /\ sup.id = id /\ sup'.op = "idle"
        BY <1>4 DEF StopInv, SpawnReturns, SupIdle
    <2>2. \A i \in Ids : pc'[i] \in SpawnPc => meta'[i].parent # NoId
        BY <1>1, <2>1 DEF StopInv, SpawnPc
    <2>3. \A i \in Ids : pc'[i] \in TokenPc => i \in tokens'
        BY <1>2 DEF StopInv, TokenPc, SpawnPc, WorkerPc, PermitPc, DroppablePc
    <2> QED
        BY <2>1, <2>2, <2>3 DEF StopInv, StopStep
<1> QED
    BY <1>3, <1>4

LEMMA StopSpawnTop ==
    ASSUME StoreInv, StopInv, NEW id \in Ids, NEW req \in Requests, SpawnTop(id, req)
    PROVE  StopInv' /\ StopStep
<1>1. sup.op = "idle" /\ sup'.op = "spawn" /\ sup'.id = id /\ tokens' = tokens
    BY DEF SpawnTop, SupIdle
<1>2. pc'[id] \in {"claimed", "built"} /\ \A i \in Ids : i # id => pc'[i] = pc[i]
    BY StoreTypes DEF SpawnTop, SpawnEntry
<1>3. \A i \in Ids : i # id => meta'[i] = meta[i]
    BY DEF StoreInv, PoolInv, VarTypes, SpawnTop, BeginSpawn
<1> QED
    BY <1>1, <1>2, <1>3
    DEF StopInv, StopStep, TokenPc, SpawnPc, WorkerPc, PermitPc, DroppablePc

LEMMA StopAgentSpawn ==
    ASSUME StoreInv, StopInv, NEW p \in Ids, NEW id \in Ids, NEW req \in Requests,
           AgentSpawn(p, id, req)
    PROVE  StopInv' /\ StopStep
<1>1. UNCHANGED <<sup, tokens>> /\ pc[p] = "drive" /\ pc[id] = "unborn"
    BY DEF AgentSpawn, BeginSpawn
<1>2. /\ pc'[id] \in {"claimed", "built"} /\ pc'[p] = "spawning"
      /\ \A i \in Ids : i \notin {id, p} => pc'[i] = pc[i]
    BY <1>1, StoreTypes DEF AgentSpawn, SpawnEntry
<1>3. meta'[id].parent = p /\ \A i \in Ids : i # id => meta'[i] = meta[i]
    BY DEF StoreInv, PoolInv, VarTypes, AgentSpawn, BeginSpawn
<1>4. \A i \in Ids : pc'[i] \in SpawnPc /\ meta'[i].parent = NoId =>
          pc[i] \in SpawnPc /\ meta[i].parent = NoId
    BY <1>1, <1>2, <1>3, IdsAssumption DEF SpawnPc
<1>5. \A i \in Ids : pc'[i] \in WorkerPc => pc[i] \in WorkerPc
    BY <1>1, <1>2 DEF WorkerPc, PermitPc, DroppablePc
<1>6. \A i \in Ids : pc'[i] \in TokenPc => pc[i] \in TokenPc
    BY <1>1, <1>2 DEF TokenPc, WorkerPc, PermitPc, DroppablePc
<1>7. sup.op = "stop" => sup.id \in Ids
    BY StoreTypes DEF Command, SupIdle
<1> QED
    BY <1>1, <1>4, <1>5, <1>6, <1>7 DEF StopInv, StopStep

LEMMA StopSpawnSteps ==
    ASSUME StoreInv, StopInv, NEW id \in Ids, SpawnSteps(id)
    PROVE  StopInv' /\ StopStep
<1>1. CASE WorktreeCreated(id)
    <2>1. ASSUME NEW i \in Ids PROVE meta'[i].parent = meta[i].parent
        BY <1>1 DEF StoreInv, PoolInv, VarTypes, WorktreeCreated, Meta
    <2>2. UNCHANGED <<sup, tokens>> /\ pc[id] = "claimed" /\ pc' = [pc EXCEPT ![id] = "built"]
        BY <1>1 DEF WorktreeCreated, managerVars
    <2>3. \A i \in Ids : /\ pc'[i] \in SpawnPc <=> pc[i] \in SpawnPc
                         /\ pc'[i] \in TokenPc <=> pc[i] \in TokenPc
                         /\ pc'[i] \in WorkerPc <=> pc[i] \in WorkerPc
        BY <2>2, StoreTypes DEF SpawnPc, TokenPc, WorkerPc, PermitPc, DroppablePc
    <2>4. sup.op = "stop" => sup.id \in Ids
        BY StoreTypes DEF Command, SupIdle
    <2> QED
        BY <2>1, <2>2, <2>3, <2>4 DEF StopInv, StopStep
<1>2. CASE WorktreeFails(id)
    <2>1. pc[id] \in SpawnPc /\ UNCHANGED <<meta, tokens>> /\ SpawnReturns(id, "failed", "drive")
        BY <1>2 DEF WorktreeFails, managerVars, SpawnPc
    <2> QED
        BY <2>1, TokensAtReturn
<1>3. CASE SpawnPersist(id)
    <2>1. pc[id] = "built" /\ UNCHANGED <<meta, tokens>>
        BY <1>3 DEF SpawnPersist, managerVars
    <2>2. CASE SpawnReturns(id, "failed", "drive")
        BY <2>1, <2>2, TokensAtReturn DEF SpawnPc
    <2>3. CASE pc' = [pc EXCEPT ![id] = "persisted"] /\ UNCHANGED sup
        BY <2>1, <2>3, TokensKept, StoreTypes DEF SpawnPc
    <2> QED
        BY <1>3, <2>2, <2>3 DEF SpawnPersist
<1>4. CASE SpawnToken(id)
    BY <1>4, TokensKept, StoreTypes DEF SpawnToken, SpawnPc
<1>5. CASE SpawnStart(id)
    <2>1. pc[id] = "tokened" /\ UNCHANGED <<meta, tokens>> /\ SpawnReturns(id, "queued", "childwait")
        BY <1>5 DEF SpawnStart
    <2> QED
        BY <2>1, TokensAtReturn DEF SpawnPc
<1> QED
    BY <1>1, <1>2, <1>3, <1>4, <1>5 DEF SpawnSteps

\* What a step of a worker does to the positions.
LEMMA WorkerMoves ==
    ASSUME StoreInv, NEW id \in Ids, WorkerSteps(id)
    PROVE  /\ UNCHANGED <<meta, sup, tokens, claimed>>
           /\ \A i \in Ids : \/ pc'[i] = pc[i]
                             \/ pc'[i] \in {"done", "abandoned"} /\ pc[i] # "unborn"
                             \/ pc'[i] \in WorkerPc /\ pc[i] \in WorkerPc \ {"finished"}
<1> USE StoreTypes DEF managerVars
<1> SUFFICES /\ UNCHANGED <<meta, sup, tokens, claimed>>
             /\ \A i \in Ids : \/ pc'[i] = pc[i]
                               \/ pc'[i] = "done" /\ pc[i] = "finished"
                               \/ pc'[i] = "abandoned" /\ pc[id] = "spawning" /\ i = child[id]
                               \/ pc'[i] \in WorkerPc /\ pc[i] \in WorkerPc \ {"finished"}
    BY DEF StoreInv, PoolInv, SpawnInv, SpawnPc
<1>1. CASE Acquire(id)
    BY <1>1 DEF Acquire, WorkerPc, PermitPc
<1>2. CASE UpdateMap(id)
    BY <1>2 DEF UpdateMap, MapPc, AfterMap, WorkerPc, PermitPc, DroppablePc
<1>3. CASE UpdateSave(id)
    BY <1>3 DEF UpdateSave, SavePc, AfterSave, WorkerPc, PermitPc, DroppablePc
<1>4. CASE Release(id)
    BY <1>4 DEF Release
<1>5. CASE Timeout(id)
    BY <1>5 DEF Timeout, Finish, WorkerPc, PermitPc, DroppablePc
<1>6. CASE ObserveStop(id)
    BY <1>6 DEF ObserveStop, Finish, WorkerPc, PermitPc, DroppablePc
<1>7. CASE RunFails(id)
    BY <1>7 DEF RunFails, Finish, WorkerPc, PermitPc, DroppablePc
<1>8. CASE RunAsks(id)
    BY <1>8 DEF RunAsks, WorkerPc, PermitPc, DroppablePc
<1>9. CASE RunEnds(id)
    BY <1>9 DEF RunEnds, WorkerPc, PermitPc, DroppablePc
<1>10. CASE TakeAnswer(id)
    BY <1>10 DEF TakeAnswer, WorkerPc, PermitPc, DroppablePc
<1>11. CASE Drain(id)
    BY <1>11 DEF Drain, Finish, WorkerPc, PermitPc, DroppablePc
<1>12. CASE ChildReturns(id)
    BY <1>12 DEF ChildReturns, WorkerPc, PermitPc, DroppablePc
<1> QED
    BY <1>1, <1>2, <1>3, <1>4, <1>5, <1>6, <1>7, <1>8, <1>9, <1>10, <1>11, <1>12
    DEF WorkerSteps

LEMMA StopWorkerSteps ==
    ASSUME StoreInv, StopInv, NEW id \in Ids, WorkerSteps(id)
    PROVE  StopInv' /\ StopStep
<1>1. \A i \in Ids : \/ pc'[i] = pc[i]
                     \/ pc'[i] \notin SpawnPc \cup WorkerPc
                     \/ pc'[i] \in WorkerPc /\ pc[i] \in TokenPc
    BY WorkerMoves DEF TokenPc, SpawnPc, WorkerPc, PermitPc, DroppablePc
<1> QED
    BY <1>1, WorkerMoves, TokensKept, StoreTypes

\* Who can still be stopped is still at work.
LEMMA StopStopCheck ==
    ASSUME StoreInv, StopInv, NEW id \in Ids, StopCheck(id)
    PROVE  StopInv' /\ StopStep
<1>1. records[id].status \in LiveStatus
    BY StoreTypes, RecordFacts DEF StopCheck, Reachable, is_terminal
<1>2. pc[id] \in TokenPc
    BY <1>1, StatusDisjoint, StatusFacts, StoreTypes
    DEF StoreInv, PoolInv, MapInv, is_terminal, Pc, SpawnPc, TokenPc, WorkerPc, PermitPc,
        DroppablePc, GonePc
<1>3. UNCHANGED <<pc, meta, tokens>> /\ sup.op = "idle" /\ sup'.op = "stop" /\ sup'.id = id
    BY DEF StopCheck, SupervisorFinds, SupIdle, managerVars, taskVars
<1> QED
    BY <1>2, <1>3 DEF StopInv, StopStep

LEMMA StopStopCancel ==
    ASSUME StoreInv, StopInv, StopCancel
    PROVE  StopInv' /\ StopStep
<1>1. UNCHANGED <<pc, meta, tokens>> /\ sup.op = "stop" /\ sup'.op = "idle"
    BY DEF StopCancel, SupIdle, taskVars
<1>2. sup.id \in tokens => sup.id \in cancelled'
    BY DEF StopCancel
<1> QED
    BY <1>1, <1>2 DEF StopInv, StopStep

\* A cleanup takes the token of a finished subagent only.
LEMMA StopDelete ==
    ASSUME StoreInv, StopInv, Delete
    PROVE  StopInv' /\ StopStep
<1>1. pc[sup.id] \notin WrittenPc
    BY StatusDisjoint
    DEF StoreInv, PoolInv, VarTypes, Command, SupIdle, CleanupInv, DiskInv, Delete
<1>2. UNCHANGED <<pc, meta>> /\ sup.op = "cleanup" /\ sup'.op = "idle" /\ tokens' = tokens \ {sup.id}
    BY DEF Delete, SupIdle, taskVars
<1>3. \A i \in Ids : pc[i] \in TokenPc => i # sup.id
    BY <1>1 DEF TokenPc, WrittenPc
<1> QED
    BY <1>2, <1>3 DEF StopInv, StopStep

LEMMA StopNext ==
    ASSUME StoreInv, StopInv, [Next]_vars
    PROVE  StopInv' /\ (Next => StopStep)
<1> DEFINE Goal == StopInv' /\ StopStep
<1>1. ASSUME NEW id \in Ids, SpawnSteps(id) PROVE Goal
    BY <1>1, StopSpawnSteps
<1>2. ASSUME NEW id \in Ids, WorkerSteps(id) PROVE Goal
    BY <1>2, StopWorkerSteps
<1>3. ASSUME NEW p \in Ids, NEW id \in Ids, NEW req \in Requests, AgentSpawn(p, id, req)
      PROVE  Goal
    BY <1>3, StopAgentSpawn
<1>4. CASE SupervisorSteps
    <2>1. ASSUME NEW id \in Ids, NEW req \in Requests, SpawnTop(id, req) PROVE Goal
        BY <2>1, StopSpawnTop
    <2>2. ASSUME NEW id \in Ids, NEW m \in Messages, SendMessage(id, m) PROVE Goal
        BY <2>2, TokensWhileCommanding DEF SendMessage, SupervisorFinds, SupIdle, taskVars
    <2>3. ASSUME NEW id \in Ids, StopCheck(id) PROVE Goal
        BY <2>3, StopStopCheck
    <2>4. ASSUME NEW id \in Ids, CleanupWorktree(id) PROVE Goal
        BY <2>4, TokensWhileCommanding
        DEF CleanupWorktree, SupervisorFinds, SupIdle, managerVars, taskVars
    <2>5. CASE QueueMessage
        BY <2>5, TokensWhileCommanding DEF QueueMessage, SupIdle, taskVars
    <2>6. CASE StopCancel
        BY <2>6, StopStopCancel
    <2>7. CASE Delete
        BY <2>7, StopDelete
    <2>8. ASSUME NEW name \in Names, WorktreeRemove(name) PROVE Goal
        BY <2>8, TokensWhileCommanding DEF WorktreeRemove, SupIdle, managerVars, taskVars
    <2> QED
        BY <1>4, <2>1, <2>2, <2>3, <2>4, <2>5, <2>6, <2>7, <2>8 DEF SupervisorSteps
<1>5. CASE Restart
    BY <1>5 DEF Restart, StopInv, StopStep, SupIdle, TokenPc, SpawnPc, WorkerPc, PermitPc,
       DroppablePc
<1>6. CASE UNCHANGED <<pc, meta, tokens, sup>>
    BY <1>6, TokensKept, StoreTypes
<1>7. CASE BootDone \/ ForeignBoot \/ \E n \in Instances, id \in Ids : RecoverSave(n, id)
    BY <1>6, <1>7 DEF BootDone, ForeignBoot, RecoverSave, managerVars, taskVars
<1>8. CASE UNCHANGED vars
    BY <1>6, <1>8 DEF vars
<1> QED
    BY <1>1, <1>2, <1>3, <1>4, <1>5, <1>7, <1>8 DEF Next

LEMMA StopInit == Init => StopInv
BY DEF Init, StopInv, SupIdle, TokenPc, SpawnPc, WorkerPc, PermitPc, DroppablePc

\* As long as no other process boots on the directory, a stop that returns Ok
\* has cancelled the token of its subagent, unless the worker is over by then.
THEOREM StopFindsTheToken ==
    ASSUME MaxForeignBoots = 0
    PROVE  Spec => StopReachesToken
<1>1. Init => StoreInv /\ StopInv
    BY StoreInit, StopInit
<1>2. StoreInv /\ StopInv /\ [Next]_vars => StoreInv' /\ StopInv'
    BY StoreNext, StopNext
<1>3. StoreInv /\ StopInv /\ [Next]_vars =>
        [\A i \in Ids :
            sup.op = "stop" /\ sup.id = i /\ sup'.op = "idle" /\ pc'[i] \in WorkerPc =>
                i \in cancelled']_vars
    BY StopNext DEF StopStep
<1> QED
    BY <1>1, <1>2, <1>3, PTL DEF Spec, StopReachesToken

-----------------------------------------------------------------------------
(* Worktrees: each belongs to one implementer                              *)

\* The ids' first eight characters differ.
DistinctNames == \A i, j \in Ids : ShortName[i] = ShortName[j] => i = j

\* A subagent that may have a worktree.
Writer(i) == pc[i] # "unborn" /\ allows_writes(meta[i].mode)

\* From the worktree's creation to the final save.
TreePc == {"built", "persisted", "tokened"} \cup (WorkerPc \ {"finished"})

\* Two writers never share a name: the names differ, or the claims, which
\* only a restart forgets, keep them apart.
ClaimInv ==
    /\ \A i, j \in Ids : Writer(i) /\ Writer(j) /\ ShortName[i] = ShortName[j] => i = j
    /\ \/ DistinctNames
       \/ budget.crashes = 0 /\ \A i \in Ids : Writer(i) => ShortName[i] \in claimed

\* A writer at work has its worktree unless the user removed it, and a cleanup that is past
\* `git worktree remove` has none left to name.
TreeInv ==
    /\ \A i \in Ids : pc[i] = "claimed" => allows_writes(meta[i].mode)
    /\ \A i \in Ids : meta[i].worktree => Writer(i) /\ pc[i] # "claimed"
    /\ \A i \in Ids : pc[i] \in TreePc /\ allows_writes(meta[i].mode) =>
          meta[i].worktree /\ ShortName[i] \in worktrees \cup removed
    /\ sup.op = "cleanup" /\ meta[sup.id].worktree => ShortName[sup.id] \notin worktrees

WorktreeInv == StoreInv /\ ClaimInv /\ TreeInv

\* A step that creates no subagent and no worktree, and forgets no claim.
LEMMA TreesKept ==
    ASSUME ClaimInv, TreeInv, UNCHANGED <<meta, claimed, worktrees, removed>>,
           budget.crashes = 0 => budget'.crashes = 0,
           sup'.op = "cleanup" => sup' = sup,
           \A i \in Ids : /\ pc'[i] = "unborn" <=> pc[i] = "unborn"
                          /\ pc'[i] = "claimed" => pc[i] = "claimed"
                          /\ pc'[i] \in TreePc => pc[i] \in TreePc
    PROVE  ClaimInv' /\ TreeInv'
<1>1. \A i \in Ids : Writer(i)' <=> Writer(i)
    BY DEF Writer
<1>2. ClaimInv'
    BY <1>1 DEF ClaimInv, DistinctNames
<1>3. TreeInv'
    BY <1>1 DEF TreeInv
<1> QED
    BY <1>2, <1>3

\* A new subagent: no writer, or one whose name no writer has.
LEMMA TreesAtBegin ==
    ASSUME WorktreeInv, NEW id \in Ids, NEW parent \in Ids \cup {NoId}, NEW req \in Requests,
           NEW depth, BeginSpawn(id, parent, req, depth),
           UNCHANGED <<worktrees, removed, budget>>, sup'.op # "cleanup" \/ sup' = sup,
           pc'[id] = SpawnEntry(meta'[id].mode),
           \A i \in Ids : i # id => \/ pc'[i] = pc[i]
                                    \/ pc[i] = "drive" /\ pc'[i] = "spawning"
    PROVE  ClaimInv' /\ TreeInv'
<1> DEFINE mode == effective_subagent_mode(req.mode, req.perm)
<1>1. /\ pc[id] = "unborn" /\ ~meta'[id].worktree
      /\ \A i \in Ids : i # id => meta'[i] = meta[i]
    BY DEF WorktreeInv, StoreInv, PoolInv, VarTypes, BeginSpawn
<1>2. pc'[id] \in {"claimed", "built"} /\ (pc'[id] = "claimed" <=> allows_writes(meta'[id].mode))
    BY DEF SpawnEntry
<1>3. ~Writer(id) /\ \A i \in Ids : i # id => (Writer(i)' <=> Writer(i))
    BY <1>1 DEF Writer
<1>4. /\ claimed \subseteq claimed'
      /\ Writer(id)' => ShortName[id] \notin claimed /\ ShortName[id] \in claimed'
    BY DEF WorktreeInv, StoreInv, PoolInv, VarTypes, BeginSpawn, Writer
<1>5. ClaimInv'
    BY <1>3, <1>4 DEF WorktreeInv, ClaimInv, DistinctNames
<1>6. \A i \in Ids : i # id => /\ pc'[i] = "claimed" <=> pc[i] = "claimed"
                               /\ pc'[i] \in TreePc <=> pc[i] \in TreePc
    BY DEF TreePc, WorkerPc, PermitPc, DroppablePc
<1>7. sup.op = "cleanup" => sup.id \in Ids
    BY StoreTypes DEF WorktreeInv, Command, SupIdle
<1>8. \A i \in Ids : /\ pc'[i] = "claimed" => allows_writes(meta'[i].mode)
                     /\ meta'[i].worktree => Writer(i)' /\ pc'[i] # "claimed"
    BY <1>1, <1>2, <1>3, <1>6 DEF WorktreeInv, TreeInv
<1>9. ASSUME NEW i \in Ids, pc'[i] \in TreePc, allows_writes(meta'[i].mode)
      PROVE  meta'[i].worktree /\ ShortName[i] \in worktrees' \cup removed'
    <2>1. i # id
        BY <1>2, <1>9 DEF TreePc, WorkerPc, PermitPc, DroppablePc
    <2> QED
        BY <1>1, <1>6, <1>9, <2>1 DEF WorktreeInv, TreeInv
<1>10. ASSUME sup'.op = "cleanup", meta'[sup'.id].worktree
       PROVE  ShortName[sup'.id] \notin worktrees'
    BY <1>1, <1>7, <1>10 DEF WorktreeInv, TreeInv
<1>11. TreeInv'
    BY <1>8, <1>9, <1>10 DEF TreeInv
<1> QED
    BY <1>5, <1>11

LEMMA TreeSpawnTop ==
    ASSUME WorktreeInv, NEW id \in Ids, NEW req \in Requests, SpawnTop(id, req)
    PROVE  ClaimInv' /\ TreeInv'
<1>1. /\ BeginSpawn(id, NoId, req, 1) /\ UNCHANGED <<worktrees, removed, budget>>
      /\ sup'.op # "cleanup" /\ pc' = [pc EXCEPT ![id] = SpawnEntry(meta'[id].mode)]
    BY DEF SpawnTop, storeVars
<1>2. pc \in [Ids -> Pc]
    BY StoreTypes DEF WorktreeInv
<1> QED
    BY <1>1, <1>2, TreesAtBegin

LEMMA TreeAgentSpawn ==
    ASSUME WorktreeInv, NEW p \in Ids, NEW id \in Ids, NEW req \in Requests,
           AgentSpawn(p, id, req)
    PROVE  ClaimInv' /\ TreeInv'
<1>1. /\ BeginSpawn(id, p, req, meta[p].depth + 1) /\ UNCHANGED <<worktrees, removed, budget, sup>>
      /\ pc[p] = "drive" /\ pc[id] = "unborn"
      /\ pc' = [pc EXCEPT ![p] = "spawning", ![id] = SpawnEntry(meta'[id].mode)]
    BY DEF AgentSpawn, BeginSpawn, storeVars
<1>2. pc \in [Ids -> Pc]
    BY StoreTypes DEF WorktreeInv
<1>3. /\ pc'[id] = SpawnEntry(meta'[id].mode)
      /\ \A i \in Ids : i # id => \/ pc'[i] = pc[i]
                                  \/ pc[i] = "drive" /\ pc'[i] = "spawning"
    BY <1>1, <1>2
<1> QED
    BY <1>1, <1>3, TreesAtBegin

LEMMA TreeWorktreeCreated ==
    ASSUME WorktreeInv, NEW id \in Ids, WorktreeCreated(id)
    PROVE  ClaimInv' /\ TreeInv'
<1>1. /\ pc[id] = "claimed" /\ pc'[id] = "built" /\ UNCHANGED <<claimed, budget, sup>>
      /\ worktrees' = worktrees \cup {ShortName[id]} /\ removed' = removed \ {ShortName[id]}
      /\ \A i \in Ids : i # id => pc'[i] = pc[i]
    BY StoreTypes DEF WorktreeInv, WorktreeCreated, managerVars
<1>2. /\ meta'[id].worktree /\ meta'[id].mode = meta[id].mode
      /\ \A i \in Ids : i # id => meta'[i] = meta[i]
    BY DEF WorktreeInv, StoreInv, PoolInv, VarTypes, Meta, WorktreeCreated
<1>3. \A i \in Ids : Writer(i)' <=> Writer(i)
    BY <1>1, <1>2 DEF Writer
<1>4. Writer(id)
    BY <1>1 DEF WorktreeInv, TreeInv, Writer
<1>5. ClaimInv'
    BY <1>1, <1>3 DEF WorktreeInv, ClaimInv, DistinctNames
<1>6. ASSUME sup.op = "cleanup", meta'[sup.id].worktree
      PROVE  ShortName[sup.id] \notin worktrees'
    <2>1. sup.id \in Ids /\ is_terminal(disk[sup.id].status)
        BY <1>6, StoreTypes DEF WorktreeInv, StoreInv, CleanupInv, Command, SupIdle
    <2>2. sup.id # id
        BY <1>1, <2>1, StatusDisjoint DEF WorktreeInv, StoreInv, DiskInv, UnwrittenPc
    <2>3. meta[sup.id].worktree /\ Writer(sup.id)
        BY <1>2, <1>6, <2>1, <2>2 DEF WorktreeInv, TreeInv
    <2>4. ShortName[sup.id] # ShortName[id]
        BY <1>4, <2>1, <2>2, <2>3 DEF WorktreeInv, ClaimInv
    <2> QED
        BY <1>1, <1>6, <2>3, <2>4 DEF WorktreeInv, TreeInv
<1>7. TreeInv'
    BY <1>1, <1>2, <1>3, <1>4, <1>6 DEF WorktreeInv, TreeInv
<1> QED
    BY <1>5, <1>7

\* The other steps of a spawn take no name and make no worktree.
LEMMA TreeSpawnSteps ==
    ASSUME WorktreeInv, NEW id \in Ids, SpawnSteps(id)
    PROVE  ClaimInv' /\ TreeInv'
<1>1. CASE WorktreeCreated(id)
    BY <1>1, TreeWorktreeCreated
<1>2. ASSUME NEW at, at \in {"failed", "queued"}, at = "queued" => pc[id] = "tokened",
             NEW parentAt, parentAt \in {"drive", "childwait"}, SpawnReturns(id, at, parentAt),
             pc[id] \in SpawnPc, UNCHANGED <<meta, claimed, worktrees, removed>>,
             budget.crashes = 0 => budget'.crashes = 0
      PROVE  ClaimInv' /\ TreeInv'
    <2>1. /\ pc'[id] = at
          /\ \A i \in Ids : i # id => \/ pc'[i] = pc[i]
                                      \/ pc[i] = "spawning" /\ pc'[i] = parentAt
        BY <1>2, ReturnMoves DEF WorktreeInv
    <2>2. \A i \in Ids : /\ pc'[i] = "unborn" <=> pc[i] = "unborn"
                         /\ pc'[i] = "claimed" => pc[i] = "claimed"
                         /\ pc'[i] \in TreePc => pc[i] \in TreePc
        BY <1>2, <2>1 DEF TreePc, SpawnPc, WorkerPc, PermitPc, DroppablePc
    <2>3. sup'.op = "cleanup" => sup' = sup
        BY <1>2 DEF SpawnReturns, SupIdle
    <2> QED
        BY <1>2, <2>2, <2>3, TreesKept DEF WorktreeInv
<1>3. ASSUME NEW at, at \in {"persisted", "tokened"}, pc[id] \in {"built", "persisted"},
             pc' = [pc EXCEPT ![id] = at], UNCHANGED <<meta, claimed, worktrees, removed, sup>>,
             budget.crashes = 0 => budget'.crashes = 0
      PROVE  ClaimInv' /\ TreeInv'
    <2>1. \A i \in Ids : /\ pc'[i] = "unborn" <=> pc[i] = "unborn"
                         /\ pc'[i] = "claimed" => pc[i] = "claimed"
                         /\ pc'[i] \in TreePc => pc[i] \in TreePc
        BY <1>3, StoreTypes DEF WorktreeInv, TreePc
    <2> QED
        BY <1>3, <2>1, TreesKept DEF WorktreeInv
<1>4. CASE WorktreeFails(id)
    BY <1>2, <1>4 DEF WorktreeFails, managerVars, storeVars, SpawnPc
<1>5. CASE SpawnPersist(id)
    <2>1. budget.crashes = 0 => budget'.crashes = 0
        BY <1>5 DEF WorktreeInv, StoreInv, PoolInv, VarTypes, SpawnPersist, Save, SaveFails
    <2>2. pc[id] = "built" /\ pc[id] \in SpawnPc /\ UNCHANGED <<meta, claimed, worktrees, removed>>
        BY <1>5 DEF SpawnPersist, managerVars, SpawnPc
    <2>3. CASE SpawnReturns(id, "failed", "drive")
        BY <1>2, <2>1, <2>2, <2>3
    <2>4. CASE pc' = [pc EXCEPT ![id] = "persisted"] /\ UNCHANGED sup
        BY <1>3, <2>1, <2>2, <2>4
    <2> QED
        BY <1>5, <2>3, <2>4 DEF SpawnPersist
<1>6. CASE SpawnToken(id)
    BY <1>3, <1>6 DEF SpawnToken, storeVars
<1>7. CASE SpawnStart(id)
    BY <1>2, <1>7 DEF SpawnStart, storeVars, SpawnPc
<1> QED
    BY <1>1, <1>4, <1>5, <1>6, <1>7 DEF SpawnSteps

\* A worker's step removes no worktree; a dropped spawn may leave one behind.
LEMMA TreeWorkerSteps ==
    ASSUME WorktreeInv, NEW id \in Ids, WorkerSteps(id)
    PROVE  ClaimInv' /\ TreeInv'
<1>1. UNCHANGED <<meta, sup, claimed>>
    BY WorkerMoves DEF WorktreeInv
<1>2. \A i \in Ids : /\ pc'[i] = "unborn" <=> pc[i] = "unborn"
                     /\ pc'[i] = "claimed" => pc[i] = "claimed"
                     /\ pc'[i] \in TreePc => pc[i] \in TreePc
    BY WorkerMoves DEF WorktreeInv, TreePc, WorkerPc, PermitPc, DroppablePc
<1>3. \A i \in Ids : Writer(i)' <=> Writer(i)
    BY <1>1, <1>2 DEF Writer
<1>4. budget.crashes = 0 => budget'.crashes = 0
    BY BoundsSpent DEF WorktreeInv, StoreInv, PoolInv, Next
<1>5. ClaimInv'
    BY <1>1, <1>3, <1>4 DEF WorktreeInv, ClaimInv, DistinctNames
<1>6. /\ worktrees \subseteq worktrees' /\ removed' = removed
      /\ \A x \in worktrees' : \/ x \in worktrees
                               \/ \E c \in Ids : pc[c] = "claimed" /\ x = ShortName[c]
    <2>1. worktrees' = worktrees \/ DroppedWorktree(id)
        BY DEF WorkerSteps, Acquire, UpdateMap, UpdateSave, Release, Timeout, ObserveStop,
           RunFails, RunAsks, RunEnds, TakeAnswer, Drain, ChildReturns, storeVars
    <2>2. removed' = removed
        BY DEF WorkerSteps, Acquire, UpdateMap, UpdateSave, Release, Timeout, ObserveStop,
           RunFails, RunAsks, RunEnds, TakeAnswer, Drain, ChildReturns
    <2> QED
        BY <2>1, <2>2 DEF DroppedWorktree
<1>7. ASSUME sup.op = "cleanup", meta[sup.id].worktree
      PROVE  ShortName[sup.id] \notin worktrees'
    <2>1. sup.id \in Ids
        BY <1>7, StoreTypes DEF WorktreeInv, Command, SupIdle
    <2>2. Writer(sup.id) /\ pc[sup.id] # "claimed" /\ ShortName[sup.id] \notin worktrees
        BY <1>7, <2>1 DEF WorktreeInv, TreeInv
    <2>3. \A c \in Ids : pc[c] = "claimed" => Writer(c) /\ c # sup.id
        BY <2>2 DEF WorktreeInv, TreeInv, Writer
    <2> QED
        BY <1>6, <2>1, <2>2, <2>3 DEF WorktreeInv, ClaimInv
<1>8. TreeInv'
    BY <1>1, <1>2, <1>3, <1>6, <1>7 DEF WorktreeInv, TreeInv
<1> QED
    BY <1>5, <1>8

\* Cleanup takes the worktree of a subagent whose worker is over.
LEMMA TreeCleanup ==
    ASSUME WorktreeInv, NEW id \in Ids, CleanupWorktree(id)
    PROVE  ClaimInv' /\ TreeInv'
<1>1. /\ UNCHANGED <<pc, meta, claimed, removed, budget>>
      /\ sup'.op = "cleanup" /\ sup'.id = id
      /\ worktrees' = IF meta[id].worktree THEN worktrees \ {ShortName[id]} ELSE worktrees
      /\ is_terminal(disk[id].status)
    BY DEF CleanupWorktree, managerVars, taskVars
<1>2. pc[id] \notin TreePc
    BY <1>1, StatusDisjoint
    DEF WorktreeInv, StoreInv, DiskInv, TreePc, WrittenPc, UnwrittenPc
<1>3. \A i \in Ids : Writer(i)' <=> Writer(i)
    BY <1>1 DEF Writer
<1>4. ClaimInv'
    BY <1>1, <1>3 DEF WorktreeInv, ClaimInv, DistinctNames
<1>5. ASSUME NEW i \in Ids, pc[i] \in TreePc, allows_writes(meta[i].mode)
      PROVE  meta[i].worktree /\ ShortName[i] \in worktrees' \cup removed'
    <2>1. meta[i].worktree /\ ShortName[i] \in worktrees \cup removed /\ Writer(i) /\ i # id
        BY <1>2, <1>5 DEF WorktreeInv, TreeInv
    <2>2. meta[id].worktree => ShortName[i] # ShortName[id]
        BY <2>1 DEF WorktreeInv, TreeInv, ClaimInv
    <2> QED
        BY <1>1, <2>1, <2>2
<1>6. TreeInv'
    BY <1>1, <1>3, <1>5 DEF WorktreeInv, TreeInv
<1> QED
    BY <1>4, <1>6

\* /worktree remove takes a worktree that is from then on the user's loss.
LEMMA TreeRemove ==
    ASSUME WorktreeInv, NEW name \in Names, WorktreeRemove(name)
    PROVE  ClaimInv' /\ TreeInv'
<1>1. /\ UNCHANGED <<pc, meta, claimed, budget>> /\ sup'.op # "cleanup"
      /\ worktrees \cup removed \subseteq worktrees' \cup removed'
    BY DEF WorktreeRemove, SupIdle, managerVars, taskVars
<1>2. \A i \in Ids : Writer(i)' <=> Writer(i)
    BY <1>1 DEF Writer
<1>3. ClaimInv'
    BY <1>1, <1>2 DEF WorktreeInv, ClaimInv, DistinctNames
<1>4. TreeInv'
    BY <1>1, <1>2 DEF WorktreeInv, TreeInv
<1> QED
    BY <1>3, <1>4

\* The claims go with the process, so names must differ by themselves then.
LEMMA TreeRestart ==
    ASSUME WorktreeInv, Restart
    PROVE  ClaimInv' /\ TreeInv'
<1>1. /\ UNCHANGED <<meta, worktrees>> /\ sup'.op = "idle"
      /\ \A i \in Ids : pc'[i] \in {"unborn", "dead"} /\ (pc'[i] = "unborn" <=> pc[i] = "unborn")
    BY DEF Restart, SupIdle
<1>2. DistinctNames
    BY DEF WorktreeInv, StoreInv, PoolInv, VarTypes, ClaimInv, Restart
<1>3. \A i \in Ids : Writer(i)' <=> Writer(i)
    BY <1>1 DEF Writer
<1>4. ClaimInv'
    BY <1>2 DEF ClaimInv, DistinctNames
<1>5. TreeInv'
    BY <1>1, <1>3 DEF WorktreeInv, TreeInv, TreePc, WorkerPc, PermitPc, DroppablePc
<1> QED
    BY <1>4, <1>5

LEMMA TreeNext ==
    ASSUME WorktreeInv, [Next]_vars
    PROVE  ClaimInv' /\ TreeInv'
<1> DEFINE Goal == ClaimInv' /\ TreeInv'
<1> SUFFICES Goal
    OBVIOUS
<1>1. ASSUME UNCHANGED <<pc, meta, claimed, worktrees, removed>>, sup'.op = "cleanup" => sup' = sup,
             Next \/ UNCHANGED budget
      PROVE  Goal
    <2>1. budget.crashes = 0 => budget'.crashes = 0
        BY <1>1, BoundsSpent DEF WorktreeInv, StoreInv, PoolInv
    <2> QED
        BY <1>1, <2>1, TreesKept DEF WorktreeInv
<1>2. ASSUME NEW id \in Ids, SpawnSteps(id) PROVE Goal
    BY <1>2, TreeSpawnSteps
<1>3. ASSUME NEW id \in Ids, WorkerSteps(id) PROVE Goal
    BY <1>3, TreeWorkerSteps
<1>4. ASSUME NEW p \in Ids, NEW id \in Ids, NEW req \in Requests, AgentSpawn(p, id, req)
      PROVE  Goal
    BY <1>4, TreeAgentSpawn
<1>5. CASE SupervisorSteps
    <2>1. ASSUME NEW id \in Ids, NEW req \in Requests, SpawnTop(id, req) PROVE Goal
        BY <2>1, TreeSpawnTop
    <2>2. ASSUME NEW id \in Ids, NEW m \in Messages, SendMessage(id, m) PROVE Goal
        <3>1. Next
            BY <2>2 DEF Next, SupervisorSteps
        <3> QED
            BY <1>1, <2>2, <3>1 DEF SendMessage, taskVars
    <2>3. ASSUME NEW id \in Ids, StopCheck(id) PROVE Goal
        BY <1>1, <2>3 DEF StopCheck, storeVars, managerVars, taskVars
    <2>4. ASSUME NEW id \in Ids, CleanupWorktree(id) PROVE Goal
        BY <2>4, TreeCleanup
    <2>5. CASE QueueMessage
        BY <1>1, <2>5 DEF QueueMessage, SupIdle, storeVars, taskVars
    <2>6. CASE StopCancel
        BY <1>1, <2>6 DEF StopCancel, SupIdle, storeVars, taskVars
    <2>7. CASE Delete
        <3>1. Next
            BY <2>7 DEF Next, SupervisorSteps
        <3> QED
            BY <1>1, <2>7, <3>1 DEF Delete, SupIdle, taskVars
    <2>8. ASSUME NEW name \in Names, WorktreeRemove(name) PROVE Goal
        BY <2>8, TreeRemove
    <2> QED
        BY <1>5, <2>1, <2>2, <2>3, <2>4, <2>5, <2>6, <2>7, <2>8 DEF SupervisorSteps
<1>6. CASE Restart
    BY <1>6, TreeRestart
<1>7. CASE BootDone \/ ForeignBoot \/ \E n \in Instances, id \in Ids : RecoverSave(n, id)
    <2>1. Next
        BY <1>7 DEF Next
    <2> QED
        BY <1>1, <1>7, <2>1 DEF BootDone, ForeignBoot, RecoverSave, storeVars, managerVars, taskVars
<1>8. CASE UNCHANGED vars
    BY <1>1, <1>8 DEF vars
<1> QED
    BY <1>2, <1>3, <1>4, <1>5, <1>6, <1>7, <1>8 DEF Next

LEMMA WorktreeInit ==
    ASSUME MaxForeignBoots = 0, MaxCrashes = 0 \/ DistinctNames, Init
    PROVE  WorktreeInv
<1>1. ClaimInv
    BY DEF Init, ClaimInv, Writer
<1>2. TreeInv
    BY DEF Init, TreeInv, NoMeta, SupIdle, TreePc, WorkerPc, PermitPc, DroppablePc
<1> QED
    BY <1>1, <1>2, StoreInit DEF WorktreeInv

LEMMA WorktreeStep == WorktreeInv /\ [Next]_vars => WorktreeInv'
BY StoreNext, TreeNext DEF WorktreeInv

\* As long as no other process boots on the directory, and no two ids share a
\* short name unless the process never restarts: a writer's worktree exists
\* from its creation until its final status is saved, whatever is cleaned up,
\* unless /worktree remove was told to take it (main.rs 2454).
THEOREM WorktreeStays ==
    ASSUME MaxForeignBoots = 0, MaxCrashes = 0 \/ DistinctNames
    PROVE  Spec => []WorktreeKept
<1>1. Init => WorktreeInv
    BY WorktreeInit
<1>2. WorktreeInv => WorktreeKept
    BY DEF WorktreeInv, TreeInv, TreePc, Writing, WorktreeKept
<1> QED
    BY <1>1, <1>2, WorktreeStep, PTL DEF Spec

\* Nothing but delete erases a record.
LEMMA ErasedByDelete ==
    ASSUME StoreInv, Next, NEW i \in Ids, disk[i] # Absent, disk'[i] = Absent
    PROVE  Delete /\ sup.id = i
<1>1. ASSUME NEW id \in Ids, NEW rec, rec.status # "absent",
             disk' = disk \/ disk' = [disk EXCEPT ![id] = rec]
      PROVE  FALSE
    BY <1>1, StoreTypes, StatusDisjoint
<1>2. ASSUME NEW id \in Ids, SpawnSteps(id) PROVE FALSE
    <2>1. disk' = disk \/ disk' = [disk EXCEPT ![id] = NewRecord]
        BY <1>2 DEF SpawnSteps, WorktreeCreated, WorktreeFails, SpawnPersist, Save, SaveFails,
           SpawnToken, SpawnStart, storeVars
    <2> QED
        BY <1>1, <2>1, RecordFacts
<1>3. ASSUME NEW id \in Ids, WorkerSteps(id) PROVE FALSE
    <2>1. CASE UpdateSave(id)
        <3>1. local[id].status # "absent"
            BY <2>1, StatusFacts
            DEF StoreInv, PoolInv, LocalInv, UpdateSave, SavePc, WorkerPc, PermitPc
        <3> QED
            BY <1>1, <2>1, <3>1 DEF UpdateSave, Save, SaveFails
    <2>2. CASE UNCHANGED disk
        BY <2>2
    <2> QED
        BY <1>3, <2>1, <2>2
        DEF WorkerSteps, Acquire, UpdateMap, Release, Timeout, ObserveStop, RunFails, RunAsks,
            RunEnds, TakeAnswer, Drain, ChildReturns, storeVars
<1>4. ASSUME NEW p \in Ids, NEW id \in Ids, NEW req \in Requests, AgentSpawn(p, id, req)
      PROVE  FALSE
    BY <1>4 DEF AgentSpawn, storeVars
<1>5. ASSUME NEW id \in Ids, NEW m \in Messages, SendMessage(id, m) PROVE FALSE
    <2>1. push_message(records[id], m).status # "absent"
        BY <1>5, StoreTypes, RecordFacts DEF SendMessage, Reachable
    <2>2. disk' = disk \/ disk' = [disk EXCEPT ![id] = push_message(records[id], m)]
        BY <1>5, StoreTypes DEF SendMessage, Save, SaveFails
    <2> QED
        BY <1>1, <2>1, <2>2
<1>6. CASE SupervisorSteps
    <2>1. CASE Delete
        BY <2>1, StoreTypes DEF Delete, Save, SaveFails
    <2>2. CASE UNCHANGED disk
        BY <2>2
    <2> QED
        BY <1>5, <1>6, <2>1, <2>2
        DEF SupervisorSteps, SpawnTop, StopCheck, CleanupWorktree, WorktreeRemove, QueueMessage,
            StopCancel, storeVars
<1>7. CASE Restart \/ BootDone \/ ForeignBoot
    BY <1>7 DEF Restart, BootDone, ForeignBoot, storeVars
<1>8. ASSUME NEW n \in Instances, NEW id \in Ids, RecoverSave(n, id) PROVE FALSE
    <2>1. set_status(scan[n][id], "Interrupted").status # "absent"
        BY StoreTypes, RecordFacts, StatusFacts
    <2> QED
        BY <1>1, <1>8, <2>1 DEF RecoverSave, Save, SaveFails
<1> QED
    BY <1>2, <1>3, <1>4, <1>6, <1>7, <1>8 DEF Next

\* Under the same conditions a record is deleted only once its worktree is
\* gone.
THEOREM WorktreeGoesFirst ==
    ASSUME MaxForeignBoots = 0, MaxCrashes = 0 \/ DistinctNames
    PROVE  Spec => CleanupOrder
<1>1. Init => WorktreeInv
    BY WorktreeInit
<1>2. WorktreeInv /\ [Next]_vars =>
        [\A i \in Ids :
            disk[i] # Absent /\ disk'[i] = Absent /\ meta[i].worktree =>
                ShortName[i] \notin worktrees']_vars
    <2> SUFFICES ASSUME WorktreeInv, Next, NEW i \in Ids,
                        disk[i] # Absent, disk'[i] = Absent, meta[i].worktree
                 PROVE  ShortName[i] \notin worktrees'
        OBVIOUS
    <2>1. Delete /\ sup.id = i
        BY ErasedByDelete DEF WorktreeInv
    <2> QED
        BY <2>1 DEF WorktreeInv, TreeInv, Delete
<1> QED
    BY <1>1, <1>2, WorktreeStep, PTL DEF Spec, CleanupOrder

=============================================================================
