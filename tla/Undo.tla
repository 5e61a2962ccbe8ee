------------------------------- MODULE Undo -------------------------------
(* Undo and redo of the agent's file edits: gocode-tools/src/undo.rs, the  *)
(* snapshots Agent::drive takes around a write, and the commands and the   *)
(* event bridge of main.rs that drive the history.                         *)
(*                                                                         *)
(* The agent's runs, the /undo and /redo commands and whoever else writes  *)
(* the project's files run side by side (/review and /init start a run     *)
(* beside an active one); the registry's mutex keeps only the history      *)
(* itself, never the files.  Checking one transaction against the files is *)
(* one step, writing each file is one step.                                *)
EXTENDS Naturals, Sequences, SequencesExt

CONSTANTS
    Files,          \* paths of the project
    Contents,       \* what a file may hold
    Binaries,       \* those of them that are not UTF-8
    Absent,         \* what reading a file that does not exist yields (None)
    Runs,           \* agent runs at once, each with its event bridge
    max_entries,    \* UndoStore::max_entries (DEFAULT_MAX_ENTRIES)
    MaxCalls,       \* bound: write calls, of all runs together
    MaxCount,       \* bound: transactions one /undo or /redo asks for
    MaxFaults       \* bound: writes by others, I/O errors and exits, together

ASSUME UndoAssumption ==
    /\ Absent \notin Contents
    /\ Binaries \subseteq Contents
    /\ max_entries \in Nat \ {0}
    /\ {MaxCalls, MaxCount, MaxFaults} \subseteq Nat

VARIABLES
    fs,         \* the project's files
    store,      \* the UndoStore in the registry
    saved,      \* the UndoStore on disk
    runs,       \* each run: what it recorded and the write call it is in
    job,        \* the /undo or /redo being applied, under the registry's lock
    count,      \* commits, calls begun, writes by others, I/O errors and exits so far
    \* ghosts
    dirty,      \* files changed in a way the history cannot know or follow
    raced,      \* files others have written since the job compared its own
    base,       \* what each file held before the oldest retained transaction
    tip         \* what each file held after the newest transaction

ghosts == <<dirty, raced, base, tip>>
vars == <<fs, store, saved, runs, job, count, ghosts>>

-----------------------------------------------------------------------------
Content == Contents \cup {Absent}

\* read_workspace_file and read_current: a file that is not UTF-8 reads as one
\* that is not there.
Text == (Contents \ Binaries) \cup {Absent}
Read(c) == IF c \in Binaries THEN Absent ELSE c

FileSnapshot == [path : Files, before : Text, after : Text]
UndoTransaction == [id : Nat, files : Seq(FileSnapshot)]
UndoStore == [undo : Seq(UndoTransaction), redo : Seq(UndoTransaction)]

\* load_undo_store without a file.
EmptyStore == [undo |-> <<>>, redo |-> <<>>]

NoTransaction == [id |-> 0, files |-> <<>>]

Directions == {"undo", "redo"}
Other(d) == IF d = "undo" THEN "redo" ELSE "undo"

\* A write call: the files it has still to write, those it wrote, and what
\* capture_before_snapshots read.
Readings == UNION {[paths -> Text] : paths \in SUBSET Files}
WriteCall == [todo : SUBSET Files, wrote : Seq(Files), before : Readings]
NoCall == [todo |-> {}, wrote |-> <<>>, before |-> [p \in {} |-> Absent]]

\* A run that ended keeps its snapshots until its bridge has committed them.
AgentRun == [phase : {"free", "active", "ended"}, snapshots : Seq(FileSnapshot), call : WriteCall]
NoRun == [phase |-> "free", snapshots |-> <<>>, call |-> NoCall]

Job == [phase : {"idle", "next", "apply"}, direction : Directions, left : 0..MaxCount,
        force : BOOLEAN, txn : UndoTransaction, at : Nat, applied : BOOLEAN]
NoJob == [phase |-> "idle", direction |-> "undo", left |-> 0, force |-> FALSE,
          txn |-> NoTransaction, at |-> 0, applied |-> FALSE]

Counts == [commits : Nat, calls : Nat, foreign : Nat, failures : Nat, restarts : Nat]

\* The paths of a transaction, a store, a run and everything not yet committed.
PathsOf(files) == {files[n].path : n \in DOMAIN files}
StackPaths(stack) == UNION {PathsOf(stack[n].files) : n \in DOMAIN stack}
StorePaths(s) == StackPaths(s.undo) \cup StackPaths(s.redo)
WrittenBy(r) == Range(runs[r].call.wrote) \cup PathsOf(runs[r].snapshots)
HeldBy(r) == runs[r].call.todo \cup WrittenBy(r)
InFlight == UNION {HeldBy(r) : r \in Runs}
Recorded == StorePaths(store) \cup PathsOf(job.txn.files) \cup InFlight

\* Where a stack has a path, and what a transaction recorded of it (its only
\* snapshot: a path with two of them is dirty).
Having(stack, p) == {n \in DOMAIN stack : p \in PathsOf(stack[n].files)}
SnapshotOf(txn, p) == txn.files[CHOOSE n \in DOMAIN txn.files : txn.files[n].path = p]

\* One more thing may go wrong, and does.
Faults == count.foreign + count.failures + count.restarts
Fault(kind) ==
    /\ Faults < MaxFaults
    /\ count' = [count EXCEPT ![kind] = @ + 1]

Init ==
    /\ fs \in [Files -> Content]
    /\ store = EmptyStore
    /\ saved = EmptyStore
    /\ runs = [r \in Runs |-> NoRun]
    /\ job = NoJob
    /\ count = [commits |-> 0, calls |-> 0, foreign |-> 0, failures |-> 0, restarts |-> 0]
    /\ dirty = {}
    /\ raced = {}
    /\ base = fs
    /\ tip = fs

-----------------------------------------------------------------------------
(* The agent's runs                                                        *)

\* capture_before_snapshots reads every file write_file or apply_patch names,
\* before the tool asks for permission.  A run without a write call leaves no
\* trace in the history, so a run begins here with its first one.
Capture(r, paths) ==
    /\ paths # {}
    /\ runs[r].phase # "ended"
    /\ runs[r].call = NoCall
    /\ count.calls < MaxCalls
    /\ runs' = [runs EXCEPT ![r].phase = "active",
                            ![r].call = [todo |-> paths, wrote |-> <<>>,
                                         before |-> [p \in paths |-> Read(fs[p])]]]
    /\ count' = [count EXCEPT !.calls = @ + 1]
    /\ UNCHANGED <<fs, store, saved, job, ghosts>>

\* The tool creates, replaces or deletes one file.  A path the command is about
\* to restore is written from two sides.  The history does not have what the
\* file held if that was not text, and cannot follow two runs that edit one
\* file at once: it has their snapshots in the order in which the runs ended.
WriteFile(r, p, c) ==
    /\ p \in runs[r].call.todo
    /\ fs' = [fs EXCEPT ![p] = c]
    /\ runs' = [runs EXCEPT ![r].call = [todo |-> @.todo \ {p}, wrote |-> Append(@.wrote, p),
                                          before |-> @.before]]
    /\ raced' = IF job.phase = "apply" THEN raced \cup {p} ELSE raced
    /\ dirty' = IF fs[p] \in Binaries \/ (\E q \in Runs \ {r} : p \in HeldBy(q))
                THEN dirty \cup {p} ELSE dirty
    /\ UNCHANGED <<store, saved, job, count, base, tip>>

\* Denied, cancelled or failed: no file is reported as affected, not even those
\* apply_patch had written.
CallFails(r) ==
    /\ runs[r].call.todo # {}
    /\ runs' = [runs EXCEPT ![r].call = NoCall]
    /\ dirty' = dirty \cup Range(runs[r].call.wrote)
    /\ UNCHANGED <<fs, store, saved, job, count, raced, base, tip>>

\* After the call, for each affected file in order: the content captured before
\* it and the content the file has now.
Snapshot(r) ==
    LET call == runs[r].call
        taken == [n \in DOMAIN call.wrote |-> [path |-> call.wrote[n],
                                               before |-> call.before[call.wrote[n]],
                                               after |-> Read(fs[call.wrote[n]])]]
    IN  /\ call.todo = {}
        /\ call.wrote # <<>>
        /\ runs' = [runs EXCEPT ![r].snapshots = @ \o taken, ![r].call = NoCall]
        /\ UNCHANGED <<fs, store, saved, job, count, ghosts>>

\* The run completes or is cancelled between two calls: its bridge will commit
\* its snapshots, if there are any.
EndRun(r) ==
    /\ runs[r].phase = "active"
    /\ runs[r].call = NoCall
    /\ runs' = [runs EXCEPT ![r] = IF @.snapshots = <<>> THEN NoRun
                                   ELSE [@ EXCEPT !.phase = "ended"]]
    /\ UNCHANGED <<fs, store, saved, job, count, ghosts>>

\* The provider fails: neither Completed nor Cancelled reaches the bridge, which
\* ends with its snapshots uncommitted.
FailRun(r) ==
    /\ runs[r].phase = "active"
    /\ runs[r].call = NoCall
    /\ runs' = [runs EXCEPT ![r] = NoRun]
    /\ dirty' = dirty \cup PathsOf(runs[r].snapshots)
    /\ UNCHANGED <<fs, store, saved, job, count, raced, base, tip>>

-----------------------------------------------------------------------------
(* The history                                                             *)

\* Mutant: the redo stack survives a new edit.
CommitKeepsRedo(s, txn) ==
    [s EXCEPT !.undo = LET all == Append(@, txn)
                       IN  SubSeq(all, Len(all) - (IF Len(all) > max_entries THEN max_entries
                                                   ELSE Len(all)) + 1, Len(all))]

\* UndoStore::commit: the redo stack is cleared, the oldest entries beyond
\* max_entries are dropped.
commit(s, txn) ==
    LET all == Append(s.undo, txn)
        overflow == IF Len(all) > max_entries THEN Len(all) - max_entries ELSE 0
    IN  [undo |-> SubSeq(all, overflow + 1, Len(all)), redo |-> <<>>]

\* A file the run edited twice has two snapshots in its transaction, which as a
\* rule no content satisfies both of.
Twice(files) ==
    {p \in Files : \E m, n \in DOMAIN files : m # n /\ files[m].path = p /\ files[n].path = p}

\* The newest content a file has in the transactions commit drops.
Dropped(s, txn) ==
    LET all == Append(s.undo, txn) IN SubSeq(all, 1, Len(all) - Len(commit(s, txn).undo))
NewBase(p, dropped) ==
    LET at == Having(dropped, p)
    IN  IF at = {} THEN base[p]
        ELSE SnapshotOf(dropped[CHOOSE n \in at : \A m \in at : m <= n], p).after

\* commit_undo_transaction: each run's bridge is a task of its own and takes the
\* lock when it gets it, so runs that overlap, or that follow one another
\* closely, commit in any order.  The id counts the commits.  A failed save is
\* ignored.
Commit(r) ==
    LET txn == [id |-> count.commits + 1, files |-> runs[r].snapshots]
        committed == [count EXCEPT !.commits = @ + 1]
    IN  /\ job.phase = "idle"
        /\ runs[r].phase = "ended"
        /\ store' = commit(store, txn)
        /\ runs' = [runs EXCEPT ![r] = NoRun]
        /\ \/ /\ saved' = store'
              /\ count' = committed
           \/ /\ Faults < MaxFaults
              /\ count' = [committed EXCEPT !.failures = @ + 1]
              /\ UNCHANGED saved
        /\ dirty' = dirty \cup Twice(txn.files)
        /\ base' = [p \in Files |-> NewBase(p, Dropped(store, txn))]
        /\ tip' = fs
        /\ UNCHANGED <<fs, job, raced>>

\* expected_before_apply and expected_after_apply.
Expected(snapshot, d) == IF d = "undo" THEN snapshot.after ELSE snapshot.before

\* Mutant: undo leaves the files that the agent created.
TargetKeepsCreated(snapshot, d) ==
    IF d = "undo" /\ snapshot.before # Absent THEN snapshot.before ELSE snapshot.after

Target(snapshot, d) == IF d = "undo" THEN snapshot.before ELSE snapshot.after

\* Mutant: a file that is gone conflicts with nothing.
conflicts_ignores_absent(files, d) ==
    {n \in DOMAIN files :
        Read(fs[files[n].path]) \notin {Absent, Expected(files[n], d)}}

\* detect_conflicts.
detect_conflicts(files, d) ==
    {n \in DOMAIN files : Read(fs[files[n].path]) # Expected(files[n], d)}

\* AppCommand::Undo, UndoForce, Redo and RedoForce: the registry's lock is held
\* until the command is over.  One that finds its stack empty changes nothing.
Command(d, n, force) ==
    /\ job.phase = "idle"
    /\ store[d] # <<>>
    /\ n \in 1..MaxCount
    /\ job' = [NoJob EXCEPT !.phase = "next", !.direction = d, !.left = n, !.force = force]
    /\ UNCHANGED <<fs, store, saved, runs, count, ghosts>>

\* Mutant: a command that stops at a conflict saves nothing, although it has
\* applied transactions before it.
SaveOnlyComplete ==
    /\ saved' = IF job.applied /\ job.left = 0 THEN store ELSE saved
    /\ UNCHANGED count

\* apply_undo_redo saves the history if anything was applied, and ignores a
\* failure to.
SaveHistory ==
    \/ /\ saved' = IF job.applied THEN store ELSE saved
       /\ UNCHANGED count
    \/ /\ job.applied
       /\ Fault("failures")
       /\ UNCHANGED saved

\* UndoStore::apply has no transaction to take, or the newest one's files no
\* longer match: it stays where it is, unless it is forced.
Stops ==
    \/ job.left = 0
    \/ store[job.direction] = <<>>
    \/ /\ ~job.force
       /\ store[job.direction] # <<>>
       /\ detect_conflicts(Last(store[job.direction]).files, job.direction) # {}

\* Mutant: a conflicting transaction is not put back.
CommandEndsDropping ==
    /\ job.phase = "next"
    /\ Stops
    /\ job' = NoJob
    /\ store' = [store EXCEPT ![job.direction] = IF @ = <<>> \/ job.left = 0 THEN @ ELSE Front(@)]
    /\ SaveHistory
    /\ UNCHANGED <<fs, runs, ghosts>>

\* The command is over: it saves and releases the lock.
CommandEnds ==
    /\ job.phase = "next"
    /\ Stops
    /\ job' = NoJob
    /\ SaveHistory
    /\ UNCHANGED <<fs, store, runs, ghosts>>

\* Mutant: the first file is looked up one before the list.
NextTransactionFromZero ==
    /\ job.phase = "next"
    /\ ~Stops
    /\ job' = [job EXCEPT !.phase = "apply", !.txn = Last(store[job.direction]), !.at = 0]
    /\ store' = [store EXCEPT ![job.direction] = Front(@)]
    /\ raced' = {}
    /\ UNCHANGED <<fs, saved, runs, count, dirty, base, tip>>

\* The newest transaction leaves its stack.
NextTransaction ==
    /\ job.phase = "next"
    /\ ~Stops
    /\ job' = [job EXCEPT !.phase = "apply", !.txn = Last(store[job.direction]), !.at = 1]
    /\ store' = [store EXCEPT ![job.direction] = Front(@)]
    /\ raced' = {}
    /\ UNCHANGED <<fs, saved, runs, count, dirty, base, tip>>

\* Mutant: an undone transaction is put under the ones undone before it.
ApplyFileBelow ==
    LET snapshot == job.txn.files[job.at]
        p == snapshot.path
    IN  /\ job.phase = "apply"
        /\ fs' = [fs EXCEPT ![p] = Target(snapshot, job.direction)]
        /\ dirty' = IF p \in InFlight THEN dirty \cup {p} ELSE dirty
        /\ IF job.at < Len(job.txn.files)
           THEN /\ job' = [job EXCEPT !.at = @ + 1]
                /\ UNCHANGED <<store, raced>>
           ELSE /\ job' = [job EXCEPT !.phase = "next", !.left = @ - 1, !.txn = NoTransaction,
                                      !.at = 0, !.applied = TRUE]
                /\ store' = [store EXCEPT ![Other(job.direction)] = <<job.txn>> \o @]
                /\ raced' = {}
        /\ UNCHANGED <<saved, runs, count, base, tip>>

\* apply_transaction writes or removes the next file; after the last one the
\* transaction goes to the other stack.
ApplyFile ==
    LET snapshot == job.txn.files[job.at]
        p == snapshot.path
    IN  /\ job.phase = "apply"
        /\ fs' = [fs EXCEPT ![p] = Target(snapshot, job.direction)]
        /\ dirty' = IF p \in InFlight THEN dirty \cup {p} ELSE dirty
        /\ IF job.at < Len(job.txn.files)
           THEN /\ job' = [job EXCEPT !.at = @ + 1]
                /\ UNCHANGED <<store, raced>>
           ELSE /\ job' = [job EXCEPT !.phase = "next", !.left = @ - 1, !.txn = NoTransaction,
                                      !.at = 0, !.applied = TRUE]
                /\ store' = [store EXCEPT ![Other(job.direction)] = Append(@, job.txn)]
                /\ raced' = {}
        /\ UNCHANGED <<saved, runs, count, base, tip>>

\* A file cannot be written: `?` leaves apply with the transaction in neither
\* stack, and the command saves nothing.
ApplyFails ==
    /\ job.phase = "apply"
    /\ Fault("failures")
    /\ job' = NoJob
    /\ dirty' = dirty \cup PathsOf(job.txn.files)
    /\ raced' = {}
    /\ UNCHANGED <<fs, store, saved, runs, base, tip>>

-----------------------------------------------------------------------------
(* The rest of the world                                                   *)

\* A person, a shell command or another program writes a file.  The history
\* starts afresh from a file it has no record of.
ForeignWrite(p, c) ==
    /\ c # fs[p]
    /\ Fault("foreign")
    /\ fs' = [fs EXCEPT ![p] = c]
    /\ raced' = IF job.phase = "apply" THEN raced \cup {p} ELSE raced
    /\ IF p \in Recorded
       THEN /\ dirty' = dirty \cup {p}
            /\ UNCHANGED <<base, tip>>
       ELSE /\ base' = [base EXCEPT ![p] = c]
            /\ tip' = [tip EXCEPT ![p] = c]
            /\ UNCHANGED dirty
    /\ UNCHANGED <<store, saved, runs, job>>

\* The process ends anywhere and starts again: what was not saved is gone, and
\* the history comes from disk (load_undo_store, on first use).
Restart ==
    /\ Fault("restarts")
    /\ dirty' = dirty \cup (UNION {WrittenBy(r) : r \in Runs}) \cup PathsOf(job.txn.files)
                      \cup IF store = saved THEN {} ELSE StorePaths(store) \cup StorePaths(saved)
    /\ store' = saved
    /\ runs' = [r \in Runs |-> NoRun]
    /\ job' = NoJob
    /\ raced' = {}
    /\ UNCHANGED <<fs, saved, base, tip>>

-----------------------------------------------------------------------------
RunSteps(r) ==
    \/ CallFails(r) \/ Snapshot(r) \/ EndRun(r) \/ FailRun(r)
    \/ \E paths \in SUBSET Files : Capture(r, paths)
    \/ \E p \in Files, c \in Text : WriteFile(r, p, c)

JobSteps == NextTransaction \/ ApplyFile \/ ApplyFails \/ CommandEnds

Next ==
    \/ \E r \in Runs : RunSteps(r) \/ Commit(r)
    \/ \E d \in Directions, n \in 1..MaxCount, force \in BOOLEAN : Command(d, n, force)
    \/ JobSteps
    \/ \E p \in Files, c \in Content : ForeignWrite(p, c)
    \/ Restart

Spec == Init /\ [][Next]_vars

-----------------------------------------------------------------------------
(* Properties                                                              *)

TypeOK ==
    /\ fs \in [Files -> Content]
    /\ store \in UndoStore
    /\ saved \in UndoStore
    /\ runs \in [Runs -> AgentRun]
    /\ job \in Job
    /\ job.phase = "apply" => job.at \in DOMAIN job.txn.files
    /\ count \in Counts
    /\ dirty \subseteq Files
    /\ raced \subseteq Files
    /\ base \in [Files -> Content]
    /\ tip \in [Files -> Content]

\* The files the history answers for at this moment.
Known == Files \ (dirty \cup InFlight \cup PathsOf(job.txn.files))

\* Undoing everything that is retained gives back what was there before it, and
\* redoing everything gives back what the agent left: across overlapping runs and
\* their commits, dropped entries, undo and redo in any number, forced or not, and
\* restarts, for every file that nobody else has changed, that held text when it
\* was edited, that no run edited twice and no two runs at once.
UndoRestores ==
    \A p \in Known : p \notin StackPaths(store.undo) => fs[p] = base[p]
RedoRestores ==
    \A p \in Known : p \notin StackPaths(store.redo) => fs[p] = tip[p]

\* Each file's snapshots fit together: the newest one to undo ends where the
\* file is, the newest one to redo starts there, and each fits its neighbour.
\* So neither stack ever conflicts over a file of that kind.
Fits(p) ==
    \A d \in Directions :
        LET at == Having(store[d], p)
            leads(n) == Target(SnapshotOf(store[d][n], p), d)
            leaves(n) == Expected(SnapshotOf(store[d][n], p), d)
        IN  /\ \A n \in at : (\A m \in at : m <= n) => leaves(n) = fs[p]
            /\ \A m, n \in at : m < n /\ (\A k \in at : k <= m \/ n <= k) => leaves(m) = leads(n)
ChainsFit == \A p \in Known : Fits(p)

\* The history keeps the order of the commits: the undo stack's transactions are
\* older than the redo stack's, and each stack gives the nearest one first.
InOrder ==
    LET line == store.undo \o (IF job.txn = NoTransaction THEN <<>> ELSE <<job.txn>>)
                           \o Reverse(store.redo)
    IN  \A m, n \in DOMAIN line : m < n => line[m].id < line[n].id

\* Between commands what is on disk is what is in memory, unless an I/O error
\* came in between: a restart loses no history.
HistorySaved ==
    job.phase = "idle" /\ count.failures = 0 => saved = store

\* Without force a command replaces no text but what the transaction left (for
\* redo, found) in the file, unless somebody writes the file after the check;
\* with or without force it never touches a file beside the transaction's.
NothingElseLost ==
    [][\A p \in Files :
        fs'[p] # fs[p] /\ job' # job =>
            /\ p = job.txn.files[job.at].path
            /\ ~job.force /\ p \notin raced
               /\ (\A n \in 1..job.at - 1 : job.txn.files[n].path # p) =>
                   Read(fs[p]) = Expected(job.txn.files[job.at], job.direction)]_vars

\* The transactions of a store and of the command in progress.
Held(s, j) == Range(s.undo) \cup Range(s.redo) \cup {j.txn, NoTransaction}

\* An undo or a redo only moves transactions from one stack to the other, whatever
\* else happens meanwhile: none appears, and none disappears but the one in hand
\* when one of its files cannot be written.
OnlyInHandLost ==
    [][job.phase # "idle" /\ count'.restarts = count.restarts =>
        /\ Held(store', job') \subseteq Held(store, job)
        /\ Held(store, job) \ Held(store', job') \subseteq
                IF count'.failures > count.failures THEN {job.txn} ELSE {}]_vars

-----------------------------------------------------------------------------
(* What the documentation says and the code does not do                    *)

\* undo.rs: a transaction conflicts when a file was "changed since by anything
\* else (a human edit, another tool)".  So one whose files nobody else changed
\* applies.  One that records a file twice never does.
OnlyOthersConflict ==
    job.phase = "next" /\ job.left > 0 /\ store[job.direction] # <<>>
        /\ Faults = 0 /\ InFlight = {} =>
            detect_conflicts(Last(store[job.direction]).files, job.direction) = {}

\* FileSnapshot: before is "Content before the edit, or None if the file did not
\* exist yet".  A file that is not UTF-8 is recorded as one that did not exist,
\* and undoing the edit removes it.
BeforeIsContent ==
    [][\A r \in Runs, p \in Files :
        p \in runs'[r].call.todo \ runs[r].call.todo => runs'[r].call.before[p] = fs[p]]_vars

\* undo.rs: such a file "is reported as a conflict instead of being silently
\* overwritten".  One that is not UTF-8 is, where the transaction expects none.
BytesKept ==
    [][\A p \in Files :
        fs'[p] # fs[p] /\ job' # job /\ ~job.force /\ fs[p] \in Binaries => p \in raced]_vars

=============================================================================
