----------------------------- MODULE UndoProofs -----------------------------
(* The undo history keeps its promises for any number of files, contents,  *)
(* runs at once, transactions and faults.                                  *)
EXTENDS Undo, SequenceTheorems, WellFoundedInduction, TLAPS

Shapes(stack) == stack \in Seq(UndoTransaction) /\ \A n \in DOMAIN stack : stack[n].files # <<>>

\* A call has read exactly the files it writes or wrote, and writes each once.
CallShape(call) ==
    /\ DOMAIN call.before = call.todo \cup Range(call.wrote)
    /\ call.todo \cap Range(call.wrote) = {}

\* Only an active run is in a call, and one that ended has something to commit.
RunShape(run) ==
    /\ CallShape(run.call)
    /\ run.phase = "free" => run = NoRun
    /\ run.phase = "ended" => run.call = NoCall /\ run.snapshots # <<>>

JobShape ==
    /\ job.phase # "apply" => job.txn = NoTransaction
    /\ job.phase = "apply" => job.left # 0

\* Types, and that no transaction anywhere is empty.
TypeInv ==
    /\ TypeOK
    /\ Shapes(store.undo) /\ Shapes(store.redo) /\ Shapes(saved.undo) /\ Shapes(saved.redo)
    /\ \A r \in Runs : RunShape(runs[r])
    /\ JobShape

(* The history on disk                                                     *)

\* A command that has applied nothing has not moved away from the disk yet.
SavedInv ==
    count.failures = 0 /\ (job.phase = "idle" \/ (job.phase = "next" /\ ~job.applied)) =>
        saved = store

(* The files a command has still to write                                  *)

\* A file of the transaction that nobody else has written since the check reads
\* as the check found it until the command writes it.
UnracedInv ==
    job.phase = "apply" /\ ~job.force =>
        \A n \in job.at..Len(job.txn.files) :
            LET p == job.txn.files[n].path
            IN  p \notin raced /\ (\A m \in 1..job.at - 1 : job.txn.files[m].path # p) =>
                    Read(fs[p]) = Expected(job.txn.files[n], job.direction)

(* The order of the commits                                                *)

StackIds(stack) == {stack[n].id : n \in DOMAIN stack}
Ids(s) == StackIds(s.undo) \cup StackIds(s.redo)
JobIds == IF job.phase = "apply" THEN {job.txn.id} ELSE {}
Rising(stack) == \A m, n \in DOMAIN stack : m < n => stack[m].id < stack[n].id
Falling(stack) == \A m, n \in DOMAIN stack : m < n => stack[n].id < stack[m].id
Below(low, high) == \A i \in low, k \in high : i < k

Line(s) == Rising(s.undo) /\ Falling(s.redo) /\ Below(StackIds(s.undo), StackIds(s.redo))

\* Both histories are in order, the transaction in hand lies between the stacks,
\* and ids were all given out.
OrderInv ==
    /\ Line(store) /\ Line(saved)
    /\ Below(StackIds(store.undo), JobIds) /\ Below(JobIds, StackIds(store.redo))
    /\ Ids(store) \cup Ids(saved) \cup JobIds \subseteq 1..count.commits

(* The contents of a file                                                  *)

\* Going back over the snapshots leads p from content b to content a, in
\* direction d: at most one of them is of p.
Leads(files, d, p, a, b) ==
    /\ p \notin PathsOf(files) => a = b
    /\ \A m \in DOMAIN files : files[m].path = p =>
        /\ Target(files[m], d) = a /\ Expected(files[m], d) = b
        /\ \A n \in DOMAIN files : files[n].path = p => n = m

\* So does a stack, from its top down to its bottom.
Chain(stack, d, p, a, b) ==
    \E held \in [0..Len(stack) -> Content] :
        /\ held[0] = a /\ held[Len(stack)] = b
        /\ \A k \in 1..Len(stack) : Leads(stack[k].files, d, p, held[k - 1], held[k])

\* Files with changes the history does not have yet, and files that it will not
\* answer for once it has them.
Written == UNION {WrittenBy(r) : r \in Runs}
Doomed == UNION {Twice(runs[r].snapshots) : r \in Runs}

\* The command has written p already.
Applied(p) == \E n \in 1..job.at - 1 : job.txn.files[n].path = p

\* As the history has it, p holds v: both stacks lead there, and the transaction
\* that is being applied lies between them.
HistoryFits(p, v) ==
    \E near, far \in [Directions -> Content] :
        /\ far["undo"] = base[p] /\ (p \notin Written => far["redo"] = tip[p])
        /\ \A d \in Directions : Chain(store[d], d, p, far[d], near[d])
        /\ Leads(job.txn.files, job.direction, p, near[job.direction], near[Other(job.direction)])
        /\ v = IF Applied(p) THEN near[job.direction] ELSE near[Other(job.direction)]

\* What one run has recorded of p, and the call it is in, lead from v to c.
RunLeads(run, p, v, c) ==
    \E g \in Content :
        /\ Leads(run.snapshots, "undo", p, v, g)
        /\ p \in Range(run.call.wrote) => run.call.before[p] = g /\ c \in Text
        /\ p \notin Range(run.call.wrote) => c = g

\* Only one run at a time has changes of p that the history does not have, and
\* every call still to write it has read what it holds.
FlightFits(p, v) ==
    /\ p \notin Written => fs[p] = v
    /\ \A r \in Runs : p \in WrittenBy(r) =>
        /\ RunLeads(runs[r], p, v, fs[p])
        /\ \A q \in Runs : p \in WrittenBy(q) => q = r
    /\ \A r \in Runs : p \in runs[r].call.todo => runs[r].call.before[p] = Read(fs[p])

\* What the histories say of a file, and what is not committed, lead to what it
\* holds.
ChainInv ==
    \A p \in Files \ (dirty \cup Doomed) : \E v \in Content : HistoryFits(p, v) /\ FlightFits(p, v)

-----------------------------------------------------------------------------
(* Sequences                                                               *)

LEMMA ElementsTyped ==
    ASSUME NEW S, NEW s \in Seq(S)
    PROVE  /\ DOMAIN s = 1..Len(s) /\ Len(s) \in Nat
           /\ \A n \in DOMAIN s : s[n] \in S
BY ElementOfSeq, LenProperties

\* A set of numbers has a least one, a set of positions a last one.
LEMMA LeastNumber ==
    ASSUME NEW T \in SUBSET Nat, T # {}
    PROVE  \E k \in T : \A m \in T : k <= m
<1>1. PICK k \in T : \A m \in T : ~(<<m, k>> \in OpToRel(<, Nat))
    BY WFMin, NatLessThanWellFounded
<1>2. \A m \in T : ~(m < k)
    BY <1>1 DEF OpToRel
<1>3. QED
    BY <1>2

LEMMA LastPosition ==
    ASSUME NEW n \in Nat, NEW T \in SUBSET (1..n), T # {}
    PROVE  \E k \in T : \A m \in T : m <= k
<1> DEFINE U == {n - m : m \in T}
<1>1. U \in SUBSET Nat
    <2>1. \A m \in T : n - m \in Nat
        OBVIOUS
    <2>2. QED
        BY <2>1
<1>2. U # {}
    OBVIOUS
<1>3. PICK u \in U : \A v \in U : u <= v
    <2> HIDE DEF U
    <2> QED
        BY <1>1, <1>2, LeastNumber
<1>4. PICK k \in T : u = n - k
    BY <1>3
<1>5. \A m \in T : n - k <= n - m
    BY <1>3, <1>4
<1>6. QED
    BY <1>5

\* All but the last element, and the last.
LEMMA FrontFacts ==
    ASSUME NEW S, NEW s \in Seq(S), s # <<>>
    PROVE  /\ Front(s) \in Seq(S)
           /\ Len(s) \in Nat \ {0}
           /\ Len(Front(s)) = Len(s) - 1
           /\ \A i \in 1..Len(s) - 1 : Front(s)[i] = s[i]
           /\ Last(s) = s[Len(s)]
           /\ Last(s) \in S
<1>1. Len(s) \in Nat \ {0}
    BY EmptySeq, LenProperties
<1>2. Front(s) = SubSeq(s, 1, Len(s) - 1)
    BY DEF Front
<1>3. Front(s) \in Seq(S) /\ Len(Front(s)) = Len(s) - 1
      /\ \A i \in 1..Len(s) - 1 : Front(s)[i] = s[i]
    <2>1. 1 \in 1..Len(s) + 1 /\ Len(s) - 1 \in 0..Len(s) /\ (Len(s) - 1) - 1 + 1 = Len(s) - 1
        BY <1>1
    <2>2. \A i \in 1..Len(s) - 1 : 1 + i - 1 = i
        BY <1>1
    <2>3. QED
        BY <1>1, <1>2, <2>1, <2>2, SubSeqProperties
<1>4. QED
    BY <1>1, <1>3, ElementOfSeq DEF Last

\* One more element at the end.
LEMMA PushFacts ==
    ASSUME NEW S, NEW s \in Seq(S), NEW e \in S
    PROVE  /\ Append(s, e) \in Seq(S)
           /\ Append(s, e) # <<>>
           /\ Len(Append(s, e)) = Len(s) + 1
           /\ \A i \in 1..Len(s) : Append(s, e)[i] = s[i]
           /\ Append(s, e)[Len(s) + 1] = e
BY AppendProperties

LEMMA PushRange ==
    ASSUME NEW S, NEW s \in Seq(S), NEW e \in S
    PROVE  Range(Append(s, e)) = Range(s) \cup {e}
<1>1. /\ DOMAIN s = 1..Len(s) /\ Len(s) \in Nat
      /\ DOMAIN Append(s, e) = 1..Len(s) + 1
      /\ \A i \in 1..Len(s) : Append(s, e)[i] = s[i]
      /\ Append(s, e)[Len(s) + 1] = e
    BY PushFacts, LenProperties
<1>2. QED
    BY <1>1 DEF Range

LEMMA PopRange ==
    ASSUME NEW S, NEW s \in Seq(S), s # <<>>
    PROVE  Range(s) = Range(Front(s)) \cup {Last(s)}
<1>1. DOMAIN s = 1..Len(s) /\ DOMAIN Front(s) = 1..Len(s) - 1 /\ Len(s) \in Nat \ {0}
    BY FrontFacts, LenProperties
<1>2. /\ \A i \in DOMAIN Front(s) : i \in DOMAIN s /\ Front(s)[i] = s[i]
      /\ Last(s) = s[Len(s)] /\ Len(s) \in DOMAIN s
    BY <1>1, FrontFacts
<1>3. \A i \in DOMAIN s : i = Len(s) \/ i \in DOMAIN Front(s)
    BY <1>1
<1>4. QED
    BY <1>2, <1>3 DEF Range

\* The elements of two sequences in a row.
LEMMA JoinFacts ==
    ASSUME NEW S, NEW s \in Seq(S), NEW t \in Seq(S)
    PROVE  /\ s \o t \in Seq(S)
           /\ Len(s) \in Nat /\ DOMAIN s = 1..Len(s)
           /\ \A i \in DOMAIN (s \o t) :
                  \/ i \in DOMAIN s /\ (s \o t)[i] = s[i]
                  \/ /\ i \notin DOMAIN s /\ i \in Nat /\ i - Len(s) \in DOMAIN t
                     /\ (s \o t)[i] = t[i - Len(s)]
           /\ \A i \in DOMAIN s : i \in DOMAIN (s \o t) /\ (s \o t)[i] = s[i]
           /\ \A i \in DOMAIN t : /\ i + Len(s) \in DOMAIN (s \o t) \ DOMAIN s
                                  /\ (s \o t)[i + Len(s)] = t[i]
<1>1. /\ DOMAIN s = 1..Len(s) /\ Len(s) \in Nat /\ DOMAIN t = 1..Len(t) /\ Len(t) \in Nat
      /\ DOMAIN (s \o t) = 1..Len(s) + Len(t) /\ s \o t \in Seq(S)
    BY ConcatProperties, LenProperties
<1>2. \A i \in DOMAIN (s \o t) :
         \/ i \in DOMAIN s /\ (s \o t)[i] = s[i]
         \/ /\ i \notin DOMAIN s /\ i \in Nat /\ i - Len(s) \in DOMAIN t
            /\ (s \o t)[i] = t[i - Len(s)]
    BY <1>1, ConcatProperties
<1>3. \A i \in DOMAIN s : i \in DOMAIN (s \o t) /\ (s \o t)[i] = s[i]
    BY <1>1, <1>2
<1>4. \A i \in DOMAIN t : /\ i + Len(s) \in DOMAIN (s \o t) \ DOMAIN s
                          /\ (s \o t)[i + Len(s)] = t[i]
    <2>1. TAKE i \in DOMAIN t
    <2>2. i + Len(s) \in DOMAIN (s \o t) /\ i + Len(s) \notin DOMAIN s /\ (i + Len(s)) - Len(s) = i
        BY <1>1
    <2>3. QED
        BY <1>2, <2>2
<1>5. QED
    BY <1>1, <1>2, <1>3, <1>4

\* Stacks stay well-formed.
LEMMA PushShapes ==
    ASSUME NEW s, Shapes(s), NEW txn \in UndoTransaction, txn.files # <<>>
    PROVE  Shapes(Append(s, txn))
<1>1. \A n \in DOMAIN Append(s, txn) : Append(s, txn)[n] = IF n = Len(s) + 1 THEN txn ELSE s[n]
    BY PushFacts DEF Shapes
<1>2. QED
    BY <1>1, PushFacts, LenProperties DEF Shapes

LEMMA PopShapes ==
    ASSUME NEW s, Shapes(s), s # <<>>
    PROVE  /\ Shapes(Front(s))
           /\ Last(s) \in UndoTransaction
           /\ Last(s).files # <<>>
<1>1. \A n \in DOMAIN Front(s) : n \in DOMAIN s /\ Front(s)[n] = s[n]
    BY FrontFacts DEF Shapes
<1>2. Last(s).files # <<>>
    <2>1. Last(s) = s[Len(s)] /\ Len(s) \in Nat \ {0} /\ DOMAIN s = 1..Len(s)
        <3>1. s \in Seq(UndoTransaction)
            BY DEF Shapes
        <3>2. QED
            BY <3>1, FrontFacts, LenProperties
    <2>2. QED
        BY <2>1 DEF Shapes
<1>3. QED
    BY <1>1, <1>2, FrontFacts DEF Shapes

\* Without the first elements.
LEMMA SuffixFacts ==
    ASSUME NEW S, NEW s \in Seq(S), NEW k \in 0..Len(s)
    PROVE  /\ SubSeq(s, k + 1, Len(s)) \in Seq(S)
           /\ Len(SubSeq(s, k + 1, Len(s))) = Len(s) - k
           /\ \A i \in 1..Len(s) - k : SubSeq(s, k + 1, Len(s))[i] = s[i + k]
<1>1. Len(s) \in Nat /\ k \in Nat /\ k + 1 \in Int
    BY LenProperties
<1>2. \A i \in k + 1..Len(s) : s[i] \in S
    BY <1>1, ElementOfSeq
<1>3. /\ SubSeq(s, k + 1, Len(s)) \in Seq(S)
      /\ Len(SubSeq(s, k + 1, Len(s))) = IF k + 1 <= Len(s) THEN Len(s) - (k + 1) + 1 ELSE 0
      /\ \A i \in 1..Len(s) - (k + 1) + 1 : SubSeq(s, k + 1, Len(s))[i] = s[(k + 1) + i - 1]
    BY <1>1, <1>2, SubSeqProperties
<1>4. Len(s) - (k + 1) + 1 = Len(s) - k
    BY <1>1
<1>5. \A i \in 1..Len(s) - k : (k + 1) + i - 1 = i + k
    BY <1>1
<1>6. (IF k + 1 <= Len(s) THEN Len(s) - (k + 1) + 1 ELSE 0) = Len(s) - k
    BY <1>1
<1>7. \A i \in 1..Len(s) - k : SubSeq(s, k + 1, Len(s))[i] = s[i + k]
    <2>1. TAKE i \in 1..Len(s) - k
    <2>2. SubSeq(s, k + 1, Len(s))[i] = s[(k + 1) + i - 1]
        BY <1>3, <1>4
    <2>3. QED
        BY <1>5, <2>2
<1>8. QED
    BY <1>3, <1>6, <1>7

\* commit keeps the newest transactions, the committed one among them.
LEMMA CommitFacts ==
    ASSUME UndoAssumption, NEW s \in UndoStore, NEW txn \in UndoTransaction
    PROVE  \E dropped \in 0..Len(s.undo) :
             /\ commit(s, txn) = [undo |-> SubSeq(Append(s.undo, txn), dropped + 1,
                                                  Len(Append(s.undo, txn))),
                                  redo |-> <<>>]
             /\ dropped \in 0..Len(Append(s.undo, txn))
<1> DEFINE all == Append(s.undo, txn)
           overflow == IF Len(all) > max_entries THEN Len(all) - max_entries ELSE 0
<1>1. Len(s.undo) \in Nat /\ Len(all) = Len(s.undo) + 1
    BY PushFacts, LenProperties DEF UndoStore
<1>2. overflow \in 0..Len(s.undo) /\ overflow \in 0..Len(all)
    BY <1>1 DEF UndoAssumption
<1>3. commit(s, txn) = [undo |-> SubSeq(all, overflow + 1, Len(all)), redo |-> <<>>]
    BY DEF commit
<1> HIDE DEF all, overflow
<1>4. /\ commit(s, txn) = [undo |-> SubSeq(all, overflow + 1, Len(all)), redo |-> <<>>]
      /\ overflow \in 0..Len(all) /\ overflow \in 0..Len(s.undo)
    BY <1>2, <1>3
<1>5. QED
    BY <1>4 DEF all

LEMMA CommitShapes ==
    ASSUME UndoAssumption, NEW s \in UndoStore, Shapes(s.undo),
           NEW txn \in UndoTransaction, txn.files # <<>>
    PROVE  /\ commit(s, txn) \in UndoStore
           /\ Shapes(commit(s, txn).undo) /\ Shapes(commit(s, txn).redo)
<1> DEFINE all == Append(s.undo, txn)
<1>1. PICK dropped \in 0..Len(s.undo) :
             /\ commit(s, txn) = [undo |-> SubSeq(all, dropped + 1, Len(all)), redo |-> <<>>]
             /\ dropped \in 0..Len(all)
    BY CommitFacts
<1>2. Shapes(all)
    BY PushShapes
<1> HIDE DEF all
<1>3. /\ SubSeq(all, dropped + 1, Len(all)) \in Seq(UndoTransaction)
      /\ Len(SubSeq(all, dropped + 1, Len(all))) = Len(all) - dropped
      /\ \A i \in 1..Len(all) - dropped : SubSeq(all, dropped + 1, Len(all))[i] = all[i + dropped]
    BY <1>1, <1>2, SuffixFacts DEF Shapes
<1>4. Len(all) \in Nat /\ DOMAIN all = 1..Len(all)
    BY <1>2, LenProperties DEF Shapes
<1>5. \A i \in 1..Len(all) - dropped : i + dropped \in DOMAIN all
    BY <1>1, <1>4
<1>6. Shapes(SubSeq(all, dropped + 1, Len(all)))
    BY <1>2, <1>3, <1>5, LenProperties DEF Shapes
<1>7. Shapes(<<>>) /\ <<>> \in Seq(UndoTransaction)
    BY EmptySeq DEF Shapes
<1>8. QED
    BY <1>1, <1>3, <1>6, <1>7 DEF UndoStore

-----------------------------------------------------------------------------
(* Types                                                                   *)

LEMMA EmptyTypes ==
    /\ NoTransaction \in UndoTransaction /\ NoTransaction.files = <<>>
    /\ EmptyStore \in UndoStore /\ EmptyStore.undo = <<>> /\ EmptyStore.redo = <<>>
    /\ Shapes(<<>>)
    /\ NoCall \in WriteCall /\ NoCall.todo = {} /\ NoCall.wrote = <<>> /\ DOMAIN NoCall.before = {}
    /\ NoRun \in AgentRun /\ NoRun.snapshots = <<>> /\ NoRun.call = NoCall /\ NoRun.phase = "free"
    /\ Range(<<>>) = {} /\ PathsOf(<<>>) = {}
<1>1. <<>> \in Seq(FileSnapshot) /\ <<>> \in Seq(UndoTransaction) /\ <<>> \in Seq(Files)
      /\ DOMAIN <<>> = {}
    BY EmptySeq
<1>2. NoTransaction \in UndoTransaction /\ NoTransaction.files = <<>>
    BY <1>1 DEF NoTransaction, UndoTransaction
<1>3. EmptyStore \in UndoStore /\ EmptyStore.undo = <<>> /\ EmptyStore.redo = <<>>
    BY <1>1 DEF EmptyStore, UndoStore
<1>4. Shapes(<<>>)
    BY <1>1 DEF Shapes
<1>5. [p \in {} |-> Absent] \in Readings
    <2>1. [p \in {} |-> Absent] \in [{} -> Text] /\ {} \in SUBSET Files
        OBVIOUS
    <2>2. QED
        BY <2>1 DEF Readings
<1>6. NoCall \in WriteCall /\ NoCall.todo = {} /\ NoCall.wrote = <<>> /\ DOMAIN NoCall.before = {}
    BY <1>1, <1>5 DEF NoCall, WriteCall
<1>7. NoRun \in AgentRun /\ NoRun.snapshots = <<>> /\ NoRun.call = NoCall /\ NoRun.phase = "free"
    BY <1>1, <1>6 DEF NoRun, AgentRun
<1>8. Range(<<>>) = {} /\ PathsOf(<<>>) = {}
    BY <1>1 DEF Range, PathsOf
<1>9. QED
    BY <1>2, <1>3, <1>4, <1>6, <1>7, <1>8

LEMMA EmptyShapes == CallShape(NoCall) /\ RunShape(NoRun)
BY EmptyTypes DEF CallShape, RunShape

\* What is read is text, and text reads as it is.
LEMMA ReadFacts ==
    ASSUME UndoAssumption
    PROVE  /\ Text \subseteq Content
           /\ \A c \in Content : Read(c) \in Text
           /\ \A c \in Text : Read(c) = c
           /\ \A c \in Content : c \notin Binaries => Read(c) = c
BY DEF UndoAssumption, Text, Content, Read

LEMMA InitTypes == ASSUME UndoAssumption, Init PROVE TypeInv
<1>1. \A r \in Runs : runs[r] \in AgentRun /\ RunShape(runs[r])
    BY EmptyTypes, EmptyShapes DEF Init
<1>2. job \in Job /\ count \in Counts /\ job.phase = "idle" /\ job.txn = NoTransaction
    BY EmptyTypes DEF Init, NoJob, Job, Counts, Directions, UndoAssumption
<1>3. TypeOK
    BY <1>1, <1>2, EmptyTypes, EmptySeq DEF Init, TypeOK
<1>4. QED
    BY <1>1, <1>2, <1>3, EmptyTypes DEF Init, TypeInv, JobShape

LEMMA FaultStep ==
    ASSUME TypeInv, NEW kind \in {"foreign", "failures", "restarts"}, Fault(kind)
    PROVE  /\ count' \in Counts /\ count'[kind] = count[kind] + 1 /\ count[kind] \in Nat
           /\ \A k \in {"commits", "calls", "foreign", "failures", "restarts"} :
                k # kind => count'[k] = count[k]
<1>1. /\ count \in Counts /\ count[kind] \in Nat
      /\ count' = [count EXCEPT ![kind] = count[kind] + 1]
    BY DEF TypeInv, TypeOK, Counts, Fault
<1>2. count'[kind] = count[kind] + 1
    BY <1>1 DEF Counts
<1>3. count' \in Counts
    BY <1>1 DEF Counts
<1>4. \A k \in {"commits", "calls", "foreign", "failures", "restarts"} :
        k # kind => count'[k] = count[k]
    BY <1>1 DEF Counts
<1>5. QED
    BY <1>1, <1>2, <1>3, <1>4

\* A run's parts.
LEMMA RunTyped ==
    ASSUME TypeInv, NEW r \in Runs
    PROVE  /\ runs[r] \in AgentRun /\ RunShape(runs[r])
           /\ runs[r].snapshots \in Seq(FileSnapshot) /\ runs[r].call \in WriteCall
           /\ runs[r].call.todo \in SUBSET Files /\ runs[r].call.wrote \in Seq(Files)
           /\ runs[r].call.before \in Readings
BY DEF TypeInv, TypeOK, AgentRun, WriteCall

LEMMA PathsTyped ==
    /\ \A files \in Seq(FileSnapshot) : PathsOf(files) \subseteq Files
    /\ \A stack \in Seq(UndoTransaction) : StackPaths(stack) \subseteq Files
    /\ \A s \in UndoStore : StorePaths(s) \subseteq Files
<1>1. \A files \in Seq(FileSnapshot) : PathsOf(files) \subseteq Files
    <2>1. TAKE files \in Seq(FileSnapshot)
    <2>2. \A n \in DOMAIN files : files[n] \in FileSnapshot
        BY ElementsTyped
    <2>3. QED
        BY <2>2 DEF PathsOf, FileSnapshot
<1>2. \A stack \in Seq(UndoTransaction) : StackPaths(stack) \subseteq Files
    <2>1. TAKE stack \in Seq(UndoTransaction)
    <2>2. \A n \in DOMAIN stack : stack[n].files \in Seq(FileSnapshot)
        <3>1. \A n \in DOMAIN stack : stack[n] \in UndoTransaction
            BY ElementsTyped
        <3>2. QED
            BY <3>1 DEF UndoTransaction
    <2>3. QED
        BY <1>1, <2>2 DEF StackPaths
<1>3. \A s \in UndoStore : StorePaths(s) \subseteq Files
    BY <1>2 DEF StorePaths, UndoStore
<1>4. QED
    BY <1>1, <1>2, <1>3

LEMMA WrittenTyped ==
    ASSUME TypeInv, NEW r \in Runs
    PROVE  Range(runs[r].call.wrote) \subseteq Files /\ WrittenBy(r) \subseteq Files
<1>1. Range(runs[r].call.wrote) \subseteq Files
    BY RunTyped, ElementsTyped DEF Range
<1>2. QED
    BY <1>1, RunTyped, PathsTyped DEF WrittenBy

\* What a step of one run makes of the runs.
OneRun(r, run) ==
    /\ runs' \in [Runs -> AgentRun]
    /\ runs'[r] = run
    /\ \A q \in Runs \ {r} : runs'[q] = runs[q]

\* A step of a run keeps the types if it keeps the run's.
LEMMA OneRunTypes ==
    ASSUME TypeInv, NEW r \in Runs, NEW run, OneRun(r, run), RunShape(run),
           UNCHANGED <<store, saved, job, base, tip>>,
           fs' \in [Files -> Content], count' \in Counts,
           dirty' \subseteq Files, raced' \subseteq Files
    PROVE  TypeInv'
<1>1. \A q \in Runs : RunShape(runs'[q])
    BY DEF OneRun, TypeInv
<1>2. TypeOK'
    BY DEF TypeInv, TypeOK, OneRun
<1>3. QED
    BY <1>1, <1>2 DEF TypeInv, JobShape

\* What Snapshot appends: one record for each file the call wrote.
Taken(r) == [n \in DOMAIN runs[r].call.wrote |->
                [path |-> runs[r].call.wrote[n],
                 before |-> runs[r].call.before[runs[r].call.wrote[n]],
                 after |-> Read(fs[runs[r].call.wrote[n]])]]

Called(paths) == [todo |-> paths, wrote |-> <<>>, before |-> [p \in paths |-> Read(fs[p])]]

\* The run after each of its steps.
LEMMA CaptureRun ==
    ASSUME UndoAssumption, TypeInv, NEW r \in Runs, NEW paths \in SUBSET Files, Capture(r, paths)
    PROVE  /\ runs[r].call = NoCall
           /\ OneRun(r, [phase |-> "active", snapshots |-> runs[r].snapshots,
                         call |-> Called(paths)])
           /\ CallShape(Called(paths))
<1>1. [p \in paths |-> Read(fs[p])] \in Readings
    <2>1. [p \in paths |-> Read(fs[p])] \in [paths -> Text]
        BY ReadFacts DEF TypeInv, TypeOK
    <2>2. QED
        BY <2>1 DEF Readings
<1>2. Called(paths) \in WriteCall
    BY <1>1, EmptySeq DEF WriteCall, Called
<1>3. CallShape(Called(paths))
    BY EmptyTypes DEF Called, CallShape
<1>4. /\ runs' = [runs EXCEPT ![r].phase = "active", ![r].call = Called(paths)]
      /\ runs \in [Runs -> AgentRun] /\ runs[r].call = NoCall
    BY DEF Capture, TypeInv, TypeOK, Called
<1>5. OneRun(r, [phase |-> "active", snapshots |-> runs[r].snapshots, call |-> Called(paths)])
    BY <1>2, <1>4 DEF AgentRun, OneRun
<1>6. QED
    BY <1>3, <1>4, <1>5

LEMMA WriteRun ==
    ASSUME TypeInv, NEW r \in Runs, NEW p \in Files, NEW c \in Text, WriteFile(r, p, c)
    PROVE  \E call \in WriteCall :
             /\ OneRun(r, [phase |-> "active", snapshots |-> runs[r].snapshots, call |-> call])
             /\ call.todo = runs[r].call.todo \ {p} /\ p \in runs[r].call.todo
             /\ call.wrote = Append(runs[r].call.wrote, p)
             /\ Range(call.wrote) = Range(runs[r].call.wrote) \cup {p}
             /\ call.before = runs[r].call.before
             /\ CallShape(call)
<1> DEFINE old == runs[r].call
           call == [todo |-> old.todo \ {p}, wrote |-> Append(old.wrote, p), before |-> old.before]
<1>1. /\ runs[r] \in AgentRun /\ old \in WriteCall /\ old.wrote \in Seq(Files)
      /\ old.todo \in SUBSET Files /\ p \in old.todo /\ old.before \in Readings
      /\ CallShape(old)
    BY RunTyped DEF WriteFile, RunShape
<1>2. Append(old.wrote, p) \in Seq(Files)
      /\ Range(Append(old.wrote, p)) = Range(old.wrote) \cup {p}
    BY <1>1, PushFacts, PushRange
<1>3. call \in WriteCall /\ CallShape(call)
    BY <1>1, <1>2 DEF WriteCall, CallShape
<1>4. runs[r].phase = "active"
    <2>1. runs[r].call # NoCall
        BY <1>1, EmptyTypes
    <2>2. runs[r].phase # "free" /\ runs[r].phase # "ended"
        BY <2>1, RunTyped, EmptyTypes DEF RunShape
    <2>3. QED
        BY <1>1, <2>2 DEF AgentRun
<1>5. runs' = [runs EXCEPT ![r].call = call] /\ runs \in [Runs -> AgentRun]
    BY DEF WriteFile, TypeInv, TypeOK
<1>6. OneRun(r, [phase |-> "active", snapshots |-> runs[r].snapshots, call |-> call])
    <2> HIDE DEF call, old
    <2>1. QED
        BY <1>1, <1>3, <1>4, <1>5 DEF AgentRun, OneRun
<1>7. QED
    BY <1>1, <1>2, <1>3, <1>6

LEMMA CallFailsRun ==
    ASSUME TypeInv, NEW r \in Runs, CallFails(r)
    PROVE  /\ runs[r].phase = "active"
           /\ OneRun(r, [phase |-> "active", snapshots |-> runs[r].snapshots, call |-> NoCall])
<1>1. runs[r] \in AgentRun /\ runs[r].call # NoCall /\ RunShape(runs[r])
    BY RunTyped, EmptyTypes DEF CallFails
<1>2. runs[r].phase = "active"
    BY <1>1, EmptyTypes DEF RunShape, AgentRun
<1>3. runs' = [runs EXCEPT ![r].call = NoCall] /\ runs \in [Runs -> AgentRun]
    BY DEF CallFails, TypeInv, TypeOK
<1>4. QED
    BY <1>1, <1>2, <1>3, EmptyTypes DEF AgentRun, OneRun

LEMMA SnapshotRun ==
    ASSUME UndoAssumption, TypeInv, NEW r \in Runs, Snapshot(r)
    PROVE  /\ Taken(r) \in Seq(FileSnapshot)
           /\ OneRun(r, [phase |-> "active", snapshots |-> runs[r].snapshots \o Taken(r),
                         call |-> NoCall])
<1> DEFINE call == runs[r].call
<1>1. /\ runs[r] \in AgentRun /\ call \in WriteCall /\ call.wrote \in Seq(Files)
      /\ runs[r].snapshots \in Seq(FileSnapshot) /\ call.before \in Readings
      /\ fs \in [Files -> Content] /\ RunShape(runs[r])
    BY RunTyped DEF TypeInv, TypeOK
<1>2. PICK paths \in SUBSET Files : call.before \in [paths -> Text]
    BY <1>1 DEF Readings
<1>3. \A n \in DOMAIN call.wrote : call.wrote[n] \in paths
    BY <1>1, <1>2 DEF RunShape, CallShape, Range
<1>4. DOMAIN call.wrote = 1..Len(call.wrote) /\ Len(call.wrote) \in Nat
    BY <1>1, LenProperties
<1>5. \A n \in 1..Len(call.wrote) : Taken(r)[n] \in FileSnapshot
    <2>1. TAKE n \in 1..Len(call.wrote)
    <2>2. /\ call.wrote[n] \in Files /\ call.before[call.wrote[n]] \in Text
          /\ Read(fs[call.wrote[n]]) \in Text
        BY <1>1, <1>2, <1>3, <1>4, ReadFacts
    <2>3. QED
        BY <1>4, <2>2 DEF Taken, FileSnapshot
<1>6. Taken(r) \in Seq(FileSnapshot)
    <2>1. Taken(r) \in [1..Len(call.wrote) -> FileSnapshot]
        BY <1>4, <1>5 DEF Taken
    <2>2. QED
        BY <1>4, <2>1, SeqDef
<1>7. runs[r].snapshots \o Taken(r) \in Seq(FileSnapshot)
    BY <1>1, <1>6, ConcatProperties
<1>8. runs[r].phase = "active"
    <2>1. call # NoCall
        BY EmptyTypes DEF Snapshot
    <2>2. QED
        BY <1>1, <2>1, EmptyTypes DEF RunShape, AgentRun
<1>9. /\ runs' = [runs EXCEPT ![r].snapshots = @ \o Taken(r), ![r].call = NoCall]
      /\ runs \in [Runs -> AgentRun]
    BY DEF Snapshot, Taken, TypeInv, TypeOK
<1>10. OneRun(r, [phase |-> "active", snapshots |-> runs[r].snapshots \o Taken(r), call |-> NoCall])
    BY <1>1, <1>7, <1>8, <1>9, EmptyTypes DEF AgentRun, OneRun
<1>11. QED
    BY <1>6, <1>10

LEMMA EndRunRun ==
    ASSUME TypeInv, NEW r \in Runs, EndRun(r)
    PROVE  /\ runs[r].phase = "active" /\ runs[r].call = NoCall
           /\ OneRun(r, IF runs[r].snapshots = <<>> THEN NoRun
                        ELSE [phase |-> "ended", snapshots |-> runs[r].snapshots, call |-> NoCall])
<1>1. /\ runs[r] \in AgentRun /\ runs[r].phase = "active" /\ runs[r].call = NoCall
      /\ runs \in [Runs -> AgentRun]
      /\ runs' = [runs EXCEPT ![r] = IF runs[r].snapshots = <<>> THEN NoRun
                                     ELSE [runs[r] EXCEPT !.phase = "ended"]]
    BY RunTyped DEF EndRun, TypeInv, TypeOK
<1>2. [runs[r] EXCEPT !.phase = "ended"]
         = [phase |-> "ended", snapshots |-> runs[r].snapshots, call |-> NoCall]
      /\ [runs[r] EXCEPT !.phase = "ended"] \in AgentRun
    BY <1>1 DEF AgentRun
<1>3. QED
    BY <1>1, <1>2, EmptyTypes DEF OneRun

LEMMA FailRunRun ==
    ASSUME TypeInv, NEW r \in Runs, FailRun(r)
    PROVE  runs[r].phase = "active" /\ runs[r].call = NoCall /\ OneRun(r, NoRun)
BY EmptyTypes DEF FailRun, OneRun, TypeInv, TypeOK

LEMMA CommitRun ==
    ASSUME TypeInv, NEW r \in Runs, Commit(r)
    PROVE  /\ runs[r].phase = "ended" /\ runs[r].call = NoCall /\ runs[r].snapshots # <<>>
           /\ OneRun(r, NoRun)
BY EmptyTypes, RunTyped DEF Commit, OneRun, TypeInv, TypeOK, RunShape

LEMMA TypesCapture ==
    ASSUME UndoAssumption, TypeInv, NEW r \in Runs, NEW paths \in SUBSET Files, Capture(r, paths)
    PROVE  TypeInv'
<1>1. RunShape([phase |-> "active", snapshots |-> runs[r].snapshots, call |-> Called(paths)])
    BY CaptureRun DEF RunShape
<1>2. count' \in Counts
    BY DEF Capture, TypeInv, TypeOK, Counts
<1>3. UNCHANGED <<fs, store, saved, job, dirty, raced, base, tip>>
    BY DEF Capture, ghosts
<1>4. fs \in [Files -> Content] /\ dirty \subseteq Files /\ raced \subseteq Files
    BY DEF TypeInv, TypeOK
<1>5. QED
    BY <1>1, <1>2, <1>3, <1>4, CaptureRun, OneRunTypes

LEMMA TypesWriteFile ==
    ASSUME UndoAssumption, TypeInv, NEW r \in Runs, NEW p \in Files, NEW c \in Text,
           WriteFile(r, p, c)
    PROVE  TypeInv'
<1>1. PICK call \in WriteCall :
        /\ OneRun(r, [phase |-> "active", snapshots |-> runs[r].snapshots, call |-> call])
        /\ CallShape(call)
    BY WriteRun
<1>2. RunShape([phase |-> "active", snapshots |-> runs[r].snapshots, call |-> call])
    BY <1>1 DEF RunShape
<1>3. /\ fs' \in [Files -> Content] /\ raced' \subseteq Files /\ dirty' \subseteq Files
      /\ count' \in Counts /\ UNCHANGED <<store, saved, job, base, tip>>
    BY ReadFacts DEF TypeInv, TypeOK, WriteFile
<1>4. QED
    BY <1>1, <1>2, <1>3, OneRunTypes

LEMMA TypesCallFails == ASSUME TypeInv, NEW r \in Runs, CallFails(r) PROVE TypeInv'
<1>1. RunShape([phase |-> "active", snapshots |-> runs[r].snapshots, call |-> NoCall])
    BY EmptyShapes DEF RunShape
<1>2. /\ fs' \in [Files -> Content] /\ raced' \subseteq Files /\ dirty' \subseteq Files
      /\ count' \in Counts /\ UNCHANGED <<store, saved, job, base, tip>>
    BY WrittenTyped DEF TypeInv, TypeOK, CallFails
<1>3. QED
    BY <1>1, <1>2, CallFailsRun, OneRunTypes

LEMMA TypesSnapshot == ASSUME UndoAssumption, TypeInv, NEW r \in Runs, Snapshot(r) PROVE TypeInv'
<1>1. RunShape([phase |-> "active", snapshots |-> runs[r].snapshots \o Taken(r), call |-> NoCall])
    BY EmptyShapes DEF RunShape
<1>2. UNCHANGED <<fs, store, saved, job, count, dirty, raced, base, tip>>
    BY DEF Snapshot, ghosts
<1>3. /\ fs \in [Files -> Content] /\ raced \subseteq Files /\ dirty \subseteq Files
      /\ count \in Counts
    BY DEF TypeInv, TypeOK
<1>4. QED
    BY <1>1, <1>2, <1>3, SnapshotRun, OneRunTypes

LEMMA TypesEndRun == ASSUME TypeInv, NEW r \in Runs, EndRun(r) PROVE TypeInv'
<1> DEFINE run == IF runs[r].snapshots = <<>> THEN NoRun
                  ELSE [phase |-> "ended", snapshots |-> runs[r].snapshots, call |-> NoCall]
<1>1. RunShape(run)
    BY EmptyShapes DEF RunShape
<1>2. UNCHANGED <<fs, store, saved, job, count, dirty, raced, base, tip>>
    BY DEF EndRun, ghosts
<1>3. /\ fs \in [Files -> Content] /\ raced \subseteq Files /\ dirty \subseteq Files
      /\ count \in Counts
    BY DEF TypeInv, TypeOK
<1>4. OneRun(r, run)
    BY EndRunRun
<1> HIDE DEF run
<1>5. QED
    BY <1>1, <1>2, <1>3, <1>4, OneRunTypes

LEMMA TypesFailRun == ASSUME TypeInv, NEW r \in Runs, FailRun(r) PROVE TypeInv'
<1>1. PathsOf(runs[r].snapshots) \subseteq Files
    BY RunTyped, PathsTyped
<1>2. /\ fs' \in [Files -> Content] /\ raced' \subseteq Files /\ dirty' \subseteq Files
      /\ count' \in Counts /\ UNCHANGED <<store, saved, job, base, tip>>
    BY <1>1 DEF TypeInv, TypeOK, FailRun
<1>3. QED
    BY <1>2, EmptyShapes, FailRunRun, OneRunTypes

\* The types of the history.
LEMMA BaseTyped ==
    ASSUME UndoAssumption, TypeInv, NEW dropped \in Seq(UndoTransaction), NEW p \in Files
    PROVE  NewBase(p, dropped) \in Content
<1>1. base[p] \in Content
    BY DEF TypeInv, TypeOK
<1>2. ASSUME NEW n \in Having(dropped, p)
      PROVE  SnapshotOf(dropped[n], p) \in FileSnapshot
    <2>1. n \in DOMAIN dropped /\ dropped[n] \in UndoTransaction /\ p \in PathsOf(dropped[n].files)
        BY <1>2, ElementOfSeq, LenProperties DEF Having
    <2>2. \E i \in DOMAIN dropped[n].files : dropped[n].files[i].path = p
        BY <2>1 DEF PathsOf
    <2>3. (CHOOSE i \in DOMAIN dropped[n].files : dropped[n].files[i].path = p)
              \in DOMAIN dropped[n].files
        BY <2>2
    <2>4. QED
        BY <2>1, <2>3, ElementOfSeq, LenProperties DEF SnapshotOf, UndoTransaction
<1>3. CASE Having(dropped, p) = {}
    BY <1>1, <1>3 DEF NewBase
<1>4. CASE Having(dropped, p) # {}
    <2> DEFINE at == Having(dropped, p)
    <2>1. \E n \in at : \A m \in at : m <= n
        <3>1. at \in SUBSET (1..Len(dropped)) /\ Len(dropped) \in Nat
            BY LenProperties DEF Having
        <3>2. QED
            BY <1>4, <3>1, LastPosition
    <2>2. (CHOOSE n \in at : \A m \in at : m <= n) \in at
        BY <2>1
    <2>3. NewBase(p, dropped)
              = SnapshotOf(dropped[CHOOSE n \in at : \A m \in at : m <= n], p).after
        BY <1>4 DEF NewBase
    <2>4. QED
        BY <1>2, <2>2, <2>3, ReadFacts DEF FileSnapshot
<1>5. QED
    BY <1>3, <1>4

\* The two stores.
StoresTyped ==
    /\ store \in UndoStore /\ Shapes(store.undo) /\ Shapes(store.redo)
    /\ saved \in UndoStore /\ Shapes(saved.undo) /\ Shapes(saved.redo)

\* The transaction a run leaves, and what committing it does.
Transaction(r) == [id |-> count.commits + 1, files |-> runs[r].snapshots]

LEMMA CommitStep ==
    ASSUME TypeInv, NEW r \in Runs, Commit(r)
    PROVE  /\ Transaction(r) \in UndoTransaction /\ Transaction(r).files # <<>>
           /\ Transaction(r).files = runs[r].snapshots
           /\ Transaction(r).id = count.commits + 1
           /\ job.phase = "idle" /\ job.txn.files = <<>>
           /\ store' = commit(store, Transaction(r))
           /\ saved' = store' \/ saved' = saved
           /\ count' \in Counts /\ count'.commits = count.commits + 1
           /\ count'.failures = count.failures => saved' = store'
           /\ count'.failures \in Nat /\ count'.failures >= count.failures
           /\ dirty' = dirty \cup Twice(runs[r].snapshots)
           /\ base' = [p \in Files |-> NewBase(p, Dropped(store, Transaction(r)))]
           /\ tip' = fs
           /\ UNCHANGED <<fs, job, raced>>
<1>1. count \in Counts /\ runs[r] \in AgentRun /\ runs[r].snapshots \in Seq(FileSnapshot)
      /\ runs[r].snapshots # <<>> /\ count.commits + 1 \in Nat
    BY RunTyped, CommitRun DEF TypeInv, TypeOK, Counts
<1>2. /\ Transaction(r) \in UndoTransaction /\ Transaction(r).files # <<>>
      /\ Transaction(r).files = runs[r].snapshots /\ Transaction(r).id = count.commits + 1
    BY <1>1 DEF Transaction, UndoTransaction
<1>3. job.phase = "idle" /\ job.txn.files = <<>>
    BY EmptyTypes DEF TypeInv, JobShape, Commit
<1>4. /\ store' = commit(store, Transaction(r))
      /\ base' = [p \in Files |-> NewBase(p, Dropped(store, Transaction(r)))]
      /\ dirty' = dirty \cup Twice(Transaction(r).files)
      /\ tip' = fs
      /\ UNCHANGED <<fs, job, raced>>
    BY DEF Commit, Transaction
<1>5. PICK committed : committed = [count EXCEPT !.commits = @ + 1]
    OBVIOUS
<1>6. \/ saved' = store' /\ count' = committed
      \/ saved' = saved /\ count' = [committed EXCEPT !.failures = @ + 1]
    BY <1>5 DEF Commit
<1>7. committed \in Counts /\ committed.commits = count.commits + 1
      /\ committed.failures = count.failures /\ count.failures \in Nat
    BY <1>1, <1>5 DEF Counts
<1>8. ASSUME count' = [committed EXCEPT !.failures = @ + 1]
      PROVE  /\ count' \in Counts /\ count'.commits = count.commits + 1
             /\ count'.failures = count.failures + 1
    BY <1>7, <1>8 DEF Counts
<1>9. /\ count' \in Counts /\ count'.commits = count.commits + 1
      /\ count'.failures = count.failures => saved' = store'
      /\ count'.failures \in Nat /\ count'.failures >= count.failures
    BY <1>6, <1>7, <1>8
<1>10. saved' = store' \/ saved' = saved
    BY <1>6
<1>11. QED
    BY <1>2, <1>3, <1>4, <1>9, <1>10

LEMMA TypesCommit == ASSUME UndoAssumption, TypeInv, NEW r \in Runs, Commit(r) PROVE TypeInv'
<1>1. StoresTyped
    BY DEF TypeInv, TypeOK, StoresTyped
<1>2. PICK txn \in UndoTransaction : txn = Transaction(r) /\ txn.files # <<>>
    BY CommitStep
<1>3. StoresTyped'
    BY <1>1, <1>2, CommitShapes, CommitStep DEF StoresTyped
<1>4. Dropped(store, txn) \in Seq(UndoTransaction)
    <2> DEFINE all == Append(store.undo, txn)
               kept == Len(all) - Len(commit(store, txn).undo)
    <2>1. all \in Seq(UndoTransaction) /\ Len(all) \in Nat
        BY <1>1, <1>2, PushFacts, LenProperties DEF StoresTyped, UndoStore
    <2>2. kept \in 0..Len(all)
        <3>1. PICK dropped \in 0..Len(store.undo) :
             /\ commit(store, txn)
                 = [undo |-> SubSeq(all, dropped + 1, Len(all)), redo |-> <<>>]
             /\ dropped \in 0..Len(all)
            BY <1>1, <1>2, CommitFacts DEF StoresTyped
        <3> HIDE DEF all
        <3>2. Len(commit(store, txn).undo) = Len(all) - dropped
            BY <2>1, <3>1, SuffixFacts
        <3>3. QED
            BY <2>1, <3>1, <3>2
    <2>3. \A i \in 1..kept : all[i] \in UndoTransaction
        BY <2>1, <2>2, ElementsTyped
    <2>4. Dropped(store, txn) = SubSeq(all, 1, kept)
        BY DEF Dropped
    <2> HIDE DEF all, kept
    <2>5. QED
        BY <2>1, <2>2, <2>3, <2>4, SubSeqProperties
<1>5. base' \in [Files -> Content]
    BY <1>2, <1>4, BaseTyped, CommitStep
<1>6. dirty' \subseteq Files
    BY CommitStep DEF TypeInv, TypeOK, Twice
<1>7. \A q \in Runs : RunShape(runs'[q])
    BY CommitRun, EmptyShapes DEF OneRun, TypeInv
<1>8. runs' \in [Runs -> AgentRun]
    BY CommitRun DEF OneRun
<1>9. TypeOK'
    BY <1>3, <1>5, <1>6, <1>8, CommitStep DEF TypeInv, TypeOK, StoresTyped
<1>10. QED
    BY <1>3, <1>7, <1>9, CommitStep DEF TypeInv, JobShape, StoresTyped

LEMMA JobTyped ==
    ASSUME TypeInv
    PROVE  /\ job \in Job /\ job.txn \in UndoTransaction /\ job.txn.files \in Seq(FileSnapshot)
           /\ job.direction \in Directions
           /\ Other(job.direction) \in Directions /\ Other(job.direction) # job.direction
           /\ DOMAIN store = Directions
           /\ \A d \in Directions : store[d] \in Seq(UndoTransaction) /\ Shapes(store[d])
BY DEF TypeInv, TypeOK, Job, UndoTransaction, UndoStore, Directions, Other

LEMMA JobFilesTyped ==
    ASSUME TypeInv
    PROVE  /\ DOMAIN job.txn.files = 1..Len(job.txn.files) /\ Len(job.txn.files) \in Nat
           /\ \A n \in DOMAIN job.txn.files : job.txn.files[n] \in FileSnapshot
BY JobTyped, ElementsTyped

LEMMA TypesCommand ==
    ASSUME UndoAssumption, TypeInv, NEW d \in Directions, NEW n \in 1..MaxCount,
           NEW force \in BOOLEAN, Command(d, n, force)
    PROVE  TypeInv'
<1>1. job' \in Job /\ job'.phase = "next" /\ job'.txn = NoTransaction
    <2>1. n \in 0..MaxCount /\ 0 \in Nat
        BY DEF UndoAssumption
    <2>2. job' = [phase |-> "next", direction |-> d, left |-> n, force |-> force,
                  txn |-> NoTransaction, at |-> 0, applied |-> FALSE]
        BY DEF Command, NoJob
    <2>3. QED
        BY <2>1, <2>2, EmptyTypes DEF Job
<1>2. \A r \in Runs : RunShape(runs'[r])
    BY DEF TypeInv, Command
<1>3. TypeOK'
    BY <1>1 DEF TypeInv, TypeOK, Command, ghosts
<1>4. QED
    BY <1>1, <1>2, <1>3 DEF TypeInv, JobShape, Command

LEMMA TypesCommandEnds == ASSUME UndoAssumption, TypeInv, CommandEnds PROVE TypeInv'
<1>1. job' \in Job /\ job'.phase = "idle" /\ job'.txn = NoTransaction
    BY EmptyTypes DEF CommandEnds, NoJob, Job, Directions, UndoAssumption
<1>2. count' \in Counts /\ (saved' = saved \/ saved' = store) /\ store' = store
    BY FaultStep DEF TypeInv, TypeOK, CommandEnds, SaveHistory
<1>3. \A r \in Runs : RunShape(runs'[r])
    BY DEF TypeInv, CommandEnds
<1>4. TypeOK'
    BY <1>1, <1>2 DEF TypeInv, TypeOK, CommandEnds, ghosts
<1>5. QED
    BY <1>1, <1>2, <1>3, <1>4 DEF TypeInv, JobShape, CommandEnds

\* What the two steps of a command do to the stacks.
LEMMA TakeStep ==
    ASSUME TypeInv, NextTransaction
    PROVE  /\ store[job.direction] # <<>>
           /\ job'.txn = Last(store[job.direction])
           /\ job' \in Job /\ job'.phase = "apply" /\ job'.at = 1
           /\ job'.direction = job.direction /\ job'.left = job.left /\ job.left # 0
           /\ job'.force = job.force /\ job'.applied = job.applied
           /\ store' \in UndoStore
           /\ store'[job.direction] = Front(store[job.direction])
           /\ store'[Other(job.direction)] = store[Other(job.direction)]
           /\ Shapes(store'[job.direction])
           /\ job'.txn \in UndoTransaction /\ job'.txn.files # <<>>
<1>1. ~Stops
    BY DEF NextTransaction
<1>2. store[job.direction] # <<>> /\ job.left # 0
    BY <1>1 DEF Stops
<1>3. /\ Shapes(Front(store[job.direction]))
      /\ Last(store[job.direction]) \in UndoTransaction
      /\ Last(store[job.direction]).files # <<>>
    BY <1>2, JobTyped, PopShapes
<1>4. store' = [store EXCEPT ![job.direction] = Front(@)]
      /\ job' = [job EXCEPT !.phase = "apply", !.txn = Last(store[job.direction]), !.at = 1]
    BY DEF NextTransaction
<1>5. store' \in UndoStore
    BY <1>3, <1>4, JobTyped DEF TypeInv, TypeOK, UndoStore, Shapes, Directions
<1>6. store'[job.direction] = Front(store[job.direction])
      /\ store'[Other(job.direction)] = store[Other(job.direction)]
    BY <1>4, JobTyped
<1>7. QED
    BY <1>2, <1>3, <1>4, <1>5, <1>6, JobTyped DEF Job

LEMMA TypesNextTransaction == ASSUME TypeInv, NextTransaction PROVE TypeInv'
<1>1. Shapes(store'.undo) /\ Shapes(store'.redo)
    BY TakeStep, JobTyped DEF Directions, Other
<1>2. 1 \in DOMAIN job'.txn.files
    BY TakeStep, EmptySeq, LenProperties DEF UndoTransaction
<1>3. \A r \in Runs : RunShape(runs'[r])
    BY DEF TypeInv, NextTransaction
<1>4. TypeOK'
    BY <1>2, TakeStep DEF TypeInv, TypeOK, NextTransaction
<1>5. QED
    BY <1>1, <1>3, <1>4, TakeStep DEF TypeInv, JobShape, NextTransaction

\* The next file is not the last one, or the transaction is through.
Through == job.at = Len(job.txn.files)

LEMMA ApplyStep ==
    ASSUME UndoAssumption, TypeInv, ApplyFile
    PROVE  /\ job.at \in DOMAIN job.txn.files /\ job.txn.files[job.at] \in FileSnapshot
           /\ DOMAIN job.txn.files = 1..Len(job.txn.files)
           /\ Len(job.txn.files) \in Nat /\ job.at \in Nat
           /\ job.txn.files # <<>>
           /\ fs' = [fs EXCEPT ![job.txn.files[job.at].path]
                                 = Target(job.txn.files[job.at], job.direction)]
           /\ job' \in Job
           /\ job'.direction = job.direction /\ job'.force = job.force
           /\ store' \in UndoStore
           /\ store'[job.direction] = store[job.direction]
           /\ ~Through => /\ job'.phase = "apply" /\ job'.at = job.at + 1 /\ job'.txn = job.txn
                          /\ job'.at \in DOMAIN job.txn.files
                          /\ job'.left = job.left /\ job'.applied = job.applied
                          /\ store' = store /\ raced' = raced
           /\ Through => /\ job'.phase = "next" /\ job'.txn = NoTransaction /\ job'.applied
                         /\ store'[Other(job.direction)] = Append(store[Other(job.direction)], job.txn)
                         /\ raced' = {}
           /\ Shapes(store'[Other(job.direction)])
<1>1. /\ job \in Job /\ job.phase = "apply" /\ job.at \in DOMAIN job.txn.files
      /\ job.left # 0 /\ job.left \in 0..MaxCount /\ job.at \in Nat
    BY DEF TypeInv, TypeOK, JobShape, ApplyFile, Job
<1>2. /\ DOMAIN job.txn.files = 1..Len(job.txn.files) /\ Len(job.txn.files) \in Nat
      /\ job.txn.files[job.at] \in FileSnapshot
    BY <1>1, JobTyped, ElementsTyped
<1>3. job.txn.files # <<>>
    BY <1>1, <1>2, EmptySeq
<1>4. fs' = [fs EXCEPT ![job.txn.files[job.at].path] = Target(job.txn.files[job.at], job.direction)]
    BY DEF ApplyFile
<1>5. CASE ~Through
    <2>1. job.at < Len(job.txn.files)
        BY <1>1, <1>2, <1>5 DEF Through
    <2>2. job' = [job EXCEPT !.at = @ + 1] /\ store' = store /\ raced' = raced
        BY <2>1 DEF ApplyFile
    <2>3. job.at + 1 \in Nat /\ job.at + 1 \in DOMAIN job.txn.files
        BY <1>1, <1>2, <2>1
    <2>4. job' \in Job /\ job'.at = job.at + 1 /\ job'.at \in DOMAIN job.txn.files
        BY <1>1, <2>2, <2>3 DEF Job
    <2>5. QED
        BY <1>1, <1>2, <1>3, <1>4, <1>5, <2>2, <2>4, JobTyped DEF Job, TypeInv, TypeOK
<1>6. CASE Through
    <2>1. ~(job.at < Len(job.txn.files))
        BY <1>2, <1>6 DEF Through
    <2>2. /\ job' = [job EXCEPT !.phase = "next", !.left = @ - 1, !.txn = NoTransaction,
                                !.at = 0, !.applied = TRUE]
          /\ store' = [store EXCEPT ![Other(job.direction)] = Append(@, job.txn)]
          /\ raced' = {}
        BY <2>1 DEF ApplyFile
    <2>3. job.left - 1 \in 0..MaxCount
        BY <1>1 DEF UndoAssumption
    <2>4. job' \in Job /\ job'.phase = "next" /\ job'.txn = NoTransaction /\ job'.applied
          /\ job'.direction = job.direction /\ job'.force = job.force
        BY <1>1, <2>2, <2>3, EmptyTypes DEF Job
    <2>5. /\ store'[Other(job.direction)] = Append(store[Other(job.direction)], job.txn)
          /\ store'[job.direction] = store[job.direction]
        BY <2>2, JobTyped
    <2>6. Shapes(Append(store[Other(job.direction)], job.txn))
        BY <1>3, JobTyped, PushShapes
    <2>7. store' \in UndoStore
        BY <2>2, <2>6, JobTyped DEF TypeInv, TypeOK, UndoStore, Shapes, Directions
    <2>8. QED
        BY <1>1, <1>2, <1>3, <1>4, <1>6, <2>2, <2>4, <2>5, <2>6, <2>7
<1>7. QED
    BY <1>5, <1>6

LEMMA TypesApplyFile == ASSUME UndoAssumption, TypeInv, ApplyFile PROVE TypeInv'
<1>1. Shapes(store'.undo) /\ Shapes(store'.redo)
    BY ApplyStep, JobTyped DEF Directions, Other
<1>2. fs' \in [Files -> Content]
    <2>1. Target(job.txn.files[job.at], job.direction) \in Content
        BY ApplyStep, ReadFacts DEF Target, FileSnapshot
    <2>2. QED
        BY <2>1, ApplyStep DEF TypeInv, TypeOK
<1>3. raced' \subseteq Files /\ dirty' \subseteq Files
    BY ApplyStep DEF TypeInv, TypeOK, ApplyFile, FileSnapshot
<1>4. \A r \in Runs : RunShape(runs'[r])
    BY DEF TypeInv, ApplyFile
<1>5. JobShape'
    <2>1. CASE ~Through
        BY <2>1, ApplyStep DEF TypeInv, JobShape, ApplyFile
    <2>2. CASE Through
        BY <2>2, ApplyStep DEF JobShape
    <2>3. QED
        BY <2>1, <2>2
<1>6. job'.phase = "apply" => job'.at \in DOMAIN job'.txn.files
    BY ApplyStep
<1>7. TypeOK'
    BY <1>2, <1>3, <1>6, ApplyStep DEF TypeInv, TypeOK, ApplyFile
<1>8. QED
    BY <1>1, <1>4, <1>5, <1>7 DEF TypeInv, ApplyFile

LEMMA TypesApplyFails == ASSUME UndoAssumption, TypeInv, ApplyFails PROVE TypeInv'
<1>1. job' \in Job /\ job'.phase = "idle" /\ job'.txn = NoTransaction
    BY EmptyTypes DEF ApplyFails, NoJob, Job, Directions, UndoAssumption
<1>2. count' \in Counts
    BY FaultStep DEF ApplyFails
<1>3. dirty' \subseteq Files
    BY JobTyped, PathsTyped DEF TypeInv, TypeOK, ApplyFails
<1>4. \A r \in Runs : RunShape(runs'[r])
    BY DEF TypeInv, ApplyFails
<1>5. TypeOK'
    BY <1>1, <1>2, <1>3 DEF TypeInv, TypeOK, ApplyFails
<1>6. QED
    BY <1>1, <1>4, <1>5 DEF TypeInv, JobShape, ApplyFails

LEMMA TypesForeignWrite ==
    ASSUME TypeInv, NEW p \in Files, NEW c \in Content, ForeignWrite(p, c) PROVE TypeInv'
<1>1. /\ fs' \in [Files -> Content] /\ raced' \subseteq Files /\ dirty' \subseteq Files
      /\ base' \in [Files -> Content] /\ tip' \in [Files -> Content]
    BY DEF TypeInv, TypeOK, ForeignWrite
<1>2. count' \in Counts
    BY FaultStep DEF ForeignWrite
<1>3. \A r \in Runs : RunShape(runs'[r])
    BY DEF TypeInv, ForeignWrite
<1>4. TypeOK'
    BY <1>1, <1>2 DEF TypeInv, TypeOK, ForeignWrite
<1>5. QED
    BY <1>3, <1>4 DEF TypeInv, JobShape, ForeignWrite

LEMMA TypesRestart == ASSUME UndoAssumption, TypeInv, Restart PROVE TypeInv'
<1>1. job' \in Job /\ job'.phase = "idle" /\ job'.txn = NoTransaction
    BY EmptyTypes DEF Restart, NoJob, Job, Directions, UndoAssumption
<1>2. \A r \in Runs : runs'[r] = NoRun
    BY DEF Restart
<1>3. dirty' \subseteq Files
    <2>1. Written \subseteq Files
        BY WrittenTyped DEF Written
    <2>2. /\ PathsOf(job.txn.files) \subseteq Files
          /\ StorePaths(store) \subseteq Files /\ StorePaths(saved) \subseteq Files
        BY PathsTyped, JobTyped DEF TypeInv, TypeOK
    <2>3. dirty' \subseteq dirty \cup Written \cup PathsOf(job.txn.files)
                          \cup StorePaths(store) \cup StorePaths(saved)
        BY DEF Restart, Written
    <2>4. QED
        BY <2>1, <2>2, <2>3 DEF TypeInv, TypeOK
<1>4. count' \in Counts
    BY FaultStep DEF Restart
<1>5. runs' \in [Runs -> AgentRun] /\ \A r \in Runs : RunShape(runs'[r])
    BY <1>2, EmptyTypes, EmptyShapes DEF Restart
<1>6. TypeOK'
    BY <1>1, <1>3, <1>4, <1>5 DEF TypeInv, TypeOK, Restart
<1>7. QED
    BY <1>1, <1>5, <1>6 DEF TypeInv, JobShape, Restart

\* Every step keeps the types.
LEMMA TypeStep == ASSUME UndoAssumption, TypeInv, [Next]_vars PROVE TypeInv'
<1>1. ASSUME NEW r \in Runs, RunSteps(r)
      PROVE  TypeInv'
    BY <1>1, TypesCapture, TypesWriteFile, TypesCallFails, TypesSnapshot, TypesEndRun,
       TypesFailRun DEF RunSteps
<1>2. CASE JobSteps
    BY <1>2, TypesNextTransaction, TypesApplyFile, TypesApplyFails, TypesCommandEnds DEF JobSteps
<1>3. ASSUME NEW r \in Runs, Commit(r)
      PROVE  TypeInv'
    BY <1>3, TypesCommit
<1>4. CASE Restart
    BY <1>4, TypesRestart
<1>5. ASSUME NEW d \in Directions, NEW n \in 1..MaxCount, NEW force \in BOOLEAN,
             Command(d, n, force)
      PROVE  TypeInv'
    BY <1>5, TypesCommand
<1>6. ASSUME NEW p \in Files, NEW c \in Content, ForeignWrite(p, c)
      PROVE  TypeInv'
    BY <1>6, TypesForeignWrite
<1>7. CASE UNCHANGED vars
    BY <1>7 DEF vars, ghosts, TypeInv, TypeOK, JobShape
<1>8. QED
    BY <1>1, <1>2, <1>3, <1>4, <1>5, <1>6, <1>7 DEF Next

LEMMA Typed == ASSUME UndoAssumption PROVE Spec => []TypeInv
<1>1. Init => TypeInv
    BY InitTypes
<1>2. TypeInv /\ [Next]_vars => TypeInv'
    BY TypeStep
<1>3. QED
    BY <1>1, <1>2, PTL DEF Spec

\* TypeCorrect: every variable keeps its type; in particular the command being
\* applied always has a file to write next.
THEOREM TypeCorrect == Spec => []TypeOK
<1>1. TypeInv => TypeOK
    BY DEF TypeInv
<1>2. QED
    BY <1>1, Typed, UndoAssumption, PTL

-----------------------------------------------------------------------------
(* No transaction is lost                                                  *)

LEMMA HeldByDirection ==
    ASSUME NEW s, NEW j, NEW d \in Directions
    PROVE  Held(s, j) = Range(s[d]) \cup Range(s[Other(d)]) \cup {j.txn, NoTransaction}
BY DEF Held, Directions, Other

\* LosesOnlyInHand: whatever else happens meanwhile, a command keeps every
\* transaction in one of the stacks or in its hands and adds none, until the process
\* ends; one of whose files cannot be written is the only one it loses.
THEOREM LosesOnlyInHand == Spec => OnlyInHandLost
<1> DEFINE Same == Held(store', job') = Held(store, job)
           Keeps == job.phase # "idle" /\ count'.restarts = count.restarts =>
                        /\ Held(store', job') \subseteq Held(store, job)
                        /\ Held(store, job) \ Held(store', job') \subseteq
                                IF count'.failures > count.failures THEN {job.txn} ELSE {}
<1>1. ASSUME TypeInv, [Next]_vars
      PROVE  Keeps
    <2> SUFFICES ASSUME job.phase # "idle", count'.restarts = count.restarts
                 PROVE  Same \/ Keeps
        OBVIOUS
    <2>1. CASE NextTransaction
        <3> DEFINE d == job.direction
        <3>1. store[d] \in Seq(UndoTransaction) /\ store[d] # <<>> /\ d \in Directions
            BY <1>1, <2>1, TakeStep, JobTyped
        <3>2. Range(store[d]) = Range(store'[d]) \cup {job'.txn}
            BY <1>1, <2>1, <3>1, PopRange, TakeStep
        <3>3. job.txn = NoTransaction
            BY <1>1, <2>1 DEF TypeInv, JobShape, NextTransaction
        <3>4. store'[Other(d)] = store[Other(d)]
            BY <1>1, <2>1, TakeStep
        <3> HIDE DEF d
        <3>5. /\ Held(store, job) = Range(store[d]) \cup Range(store[Other(d)]) \cup {job.txn, NoTransaction}
              /\ Held(store', job')
                   = Range(store'[d]) \cup Range(store'[Other(d)]) \cup {job'.txn, NoTransaction}
            BY <3>1, HeldByDirection
        <3>6. QED
            BY <3>2, <3>3, <3>4, <3>5
    <2>2. CASE ApplyFile /\ ~Through
        <3>1. store' = store /\ job'.txn = job.txn
            BY <1>1, <2>2, ApplyStep, UndoAssumption
        <3>2. QED
            BY <3>1 DEF Held
    <2>3. CASE ApplyFile /\ Through
        <3> DEFINE d == job.direction
        <3>1. store[Other(d)] \in Seq(UndoTransaction) /\ job.txn \in UndoTransaction /\ d \in Directions
            BY <1>1, JobTyped
        <3>2. store'[Other(d)] = Append(store[Other(d)], job.txn)
              /\ store'[d] = store[d] /\ job'.txn = NoTransaction
            BY <1>1, <2>3, ApplyStep, UndoAssumption
        <3>3. Range(store'[Other(d)]) = Range(store[Other(d)]) \cup {job.txn}
            BY <3>1, <3>2, PushRange
        <3> HIDE DEF d
        <3>4. /\ Held(store, job) = Range(store[d]) \cup Range(store[Other(d)]) \cup {job.txn, NoTransaction}
              /\ Held(store', job')
                   = Range(store'[d]) \cup Range(store'[Other(d)]) \cup {job'.txn, NoTransaction}
            BY <3>1, HeldByDirection
        <3>5. QED
            BY <3>2, <3>3, <3>4
    <2>4. CASE CommandEnds
        BY <1>1, <2>4 DEF TypeInv, JobShape, CommandEnds, NoJob, Held
    <2>5. CASE ApplyFails
        <3>1. store' = store /\ job'.txn = NoTransaction /\ count'.failures > count.failures
            BY <1>1, <2>5, FaultStep DEF ApplyFails, NoJob
        <3>2. QED
            BY <3>1 DEF Held
    <2>6. CASE Restart
        BY <1>1, <2>6, FaultStep DEF Restart
    <2>7. ASSUME NEW r \in Runs, RunSteps(r) \/ Commit(r)
          PROVE  Same
        <3>1. store' = store /\ job' = job
            BY <2>7 DEF RunSteps, CallFails, Snapshot, EndRun, FailRun, Capture, WriteFile, Commit
        <3>2. QED
            BY <3>1 DEF Held
    <2>8. ASSUME NEW d \in Directions, NEW n \in 1..MaxCount, NEW force \in BOOLEAN,
                 Command(d, n, force)
          PROVE  Same
        BY <2>8 DEF Command
    <2>9. ASSUME NEW p \in Files, NEW c \in Content, ForeignWrite(p, c)
          PROVE  Same
        BY <2>9 DEF ForeignWrite, Held
    <2>10. CASE UNCHANGED vars
        BY <2>10 DEF vars, Held
    <2>11. QED
        BY <1>1, <2>1, <2>2, <2>3, <2>4, <2>5, <2>6, <2>7, <2>8, <2>9, <2>10 DEF Next, JobSteps
<1>2. QED
    BY <1>1, Typed, UndoAssumption, PTL DEF Spec, OnlyInHandLost

-----------------------------------------------------------------------------
(* What is on disk                                                         *)

LEMMA SavedStep == ASSUME TypeInv, SavedInv, [Next]_vars PROVE SavedInv'
<1>1. count \in Counts /\ count.failures \in Nat
    BY DEF TypeInv, TypeOK, Counts
<1>2. ASSUME NEW r \in Runs, RunSteps(r)
      PROVE  SavedInv'
    <2>1. UNCHANGED <<store, saved, job>> /\ count'.failures = count.failures
        BY <1>1, <1>2 DEF RunSteps, CallFails, Snapshot, EndRun, FailRun, Capture, WriteFile, Counts
    <2>2. QED
        BY <2>1 DEF SavedInv
<1>3. ASSUME NEW r \in Runs, Commit(r)
      PROVE  SavedInv'
    <2>1. count'.failures = 0 => saved' = store'
        BY <1>1, <1>3, CommitStep
    <2>2. QED
        BY <2>1 DEF SavedInv
<1>4. ASSUME NEW d \in Directions, NEW n \in 1..MaxCount, NEW force \in BOOLEAN, Command(d, n, force)
      PROVE  SavedInv'
    BY <1>4 DEF Command, NoJob, SavedInv
<1>5. CASE NextTransaction
    BY <1>5, TakeStep DEF SavedInv
<1>6. CASE ApplyFile
    <2>1. job'.phase # "idle" /\ (job'.phase = "next" => job'.applied)
        <3>1. CASE job.at < Len(job.txn.files)
            BY <1>6, <3>1 DEF ApplyFile, TypeInv, TypeOK, Job
        <3>2. CASE ~(job.at < Len(job.txn.files))
            BY <1>6, <3>2 DEF ApplyFile, TypeInv, TypeOK, Job
        <3>3. QED
            BY <3>1, <3>2
    <2>2. QED
        BY <2>1 DEF SavedInv
<1>7. CASE ApplyFails
    BY <1>1, <1>7 DEF ApplyFails, Fault, SavedInv, Counts
<1>8. CASE CommandEnds
    BY <1>1, <1>8 DEF CommandEnds, SaveHistory, Fault, SavedInv, Counts, NoJob
<1>9. ASSUME NEW p \in Files, NEW c \in Content, ForeignWrite(p, c)
      PROVE  SavedInv'
    BY <1>1, <1>9 DEF ForeignWrite, Fault, SavedInv, Counts
<1>10. CASE Restart
    BY <1>10 DEF Restart, SavedInv
<1>11. CASE UNCHANGED vars
    BY <1>11 DEF vars, SavedInv
<1>12. QED
    BY <1>2, <1>3, <1>4, <1>5, <1>6, <1>7, <1>8, <1>9, <1>10, <1>11 DEF Next, JobSteps

\* SaveIsCurrent: between commands the file holds the history that is in memory
\* unless writing it has failed, so an exit loses no transaction.
THEOREM SaveIsCurrent == Spec => []HistorySaved
<1>1. Init => SavedInv
    BY DEF Init, SavedInv
<1>2. TypeInv /\ SavedInv /\ [Next]_vars => SavedInv'
    BY SavedStep
<1>3. SavedInv => HistorySaved
    BY DEF SavedInv, HistorySaved
<1>4. QED
    BY <1>1, <1>2, <1>3, Typed, UndoAssumption, PTL DEF Spec

-----------------------------------------------------------------------------
(* What a command may overwrite                                            *)

LEMMA UnracedStep == ASSUME UndoAssumption, TypeInv, UnracedInv, [Next]_vars PROVE UnracedInv'
<1>1. ASSUME NEW r \in Runs,
             CallFails(r) \/ Snapshot(r) \/ EndRun(r) \/ FailRun(r)
                \/ \E paths \in SUBSET Files : Capture(r, paths)
      PROVE  UnracedInv'
    <2>1. UNCHANGED <<fs, job, raced>>
        BY <1>1 DEF CallFails, Snapshot, EndRun, FailRun, Capture, ghosts
    <2>2. QED
        BY <2>1 DEF UnracedInv
<1>2. ASSUME NEW q \in Files, NEW c \in Content,
             (\E r \in Runs : WriteFile(r, q, c)) \/ ForeignWrite(q, c)
      PROVE  UnracedInv'
    <2>1. /\ job' = job /\ fs' = [fs EXCEPT ![q] = c]
          /\ job.phase = "apply" => raced' = raced \cup {q}
        BY <1>2 DEF WriteFile, ForeignWrite
    <2>2. \A p \in Files : p # q => fs'[p] = fs[p]
        BY <2>1 DEF TypeInv, TypeOK
    <2>3. SUFFICES ASSUME job.phase = "apply", ~job.force, NEW n \in job.at..Len(job.txn.files),
                          job.txn.files[n].path \notin raced \cup {q},
                          \A m \in 1..job.at - 1 : job.txn.files[m].path # job.txn.files[n].path
                   PROVE  Read(fs'[job.txn.files[n].path])
                            = Expected(job.txn.files[n], job.direction)
        BY <2>1 DEF UnracedInv
    <2>4. n \in DOMAIN job.txn.files
        BY <2>3, JobTyped, LenProperties DEF TypeInv, TypeOK
    <2>5. job.txn.files[n].path \in Files
        BY <2>4, JobFilesTyped DEF FileSnapshot
    <2>6. Read(fs[job.txn.files[n].path]) = Expected(job.txn.files[n], job.direction)
        BY <2>3 DEF UnracedInv
    <2>7. QED
        BY <2>2, <2>3, <2>5, <2>6
<1>3. CASE job'.phase # "apply"
    BY <1>3 DEF UnracedInv
<1>4. CASE NextTransaction
    <2> SUFFICES ASSUME ~job.force PROVE UnracedInv'
        BY <1>4, TakeStep DEF UnracedInv
    <2>1. detect_conflicts(Last(store[job.direction]).files, job.direction) = {}
        BY <1>4, TakeStep DEF NextTransaction, Stops
    <2>2. \A n \in DOMAIN job'.txn.files :
             Read(fs[job'.txn.files[n].path]) = Expected(job'.txn.files[n], job.direction)
        BY <1>4, <2>1, TakeStep DEF detect_conflicts
    <2>3. job'.at..Len(job'.txn.files) \subseteq DOMAIN job'.txn.files
        BY <1>4, TakeStep, LenProperties DEF UndoTransaction
    <2>4. fs' = fs
        BY <1>4 DEF NextTransaction
    <2>5. QED
        BY <1>4, <2>2, <2>3, <2>4, TakeStep DEF UnracedInv
<1>5. CASE ApplyFile /\ job'.phase = "apply"
    <2>1. ~Through
        BY <1>5, ApplyStep
    <2>2. /\ job'.at = job.at + 1 /\ job'.txn = job.txn /\ raced' = raced /\ job.at \in Nat
          /\ job'.force = job.force /\ job'.direction = job.direction
          /\ Len(job.txn.files) \in Nat
        BY <1>5, <2>1, ApplyStep
    <2>3. \A p \in Files : p # job.txn.files[job.at].path => fs'[p] = fs[p]
        BY <1>5, ApplyStep DEF TypeInv, TypeOK
    <2>4. SUFFICES ASSUME ~job.force, NEW n \in job.at + 1..Len(job.txn.files),
                          job.txn.files[n].path \notin raced,
                          \A m \in 1..job.at : job.txn.files[m].path # job.txn.files[n].path
                   PROVE  Read(fs'[job.txn.files[n].path])
                            = Expected(job.txn.files[n], job.direction)
        <3>1. job.at + 1 - 1 = job.at
            BY <2>2
        <3>2. QED
            BY <2>2, <3>1, SMTT(20) DEF UnracedInv
    <2>5. n \in job.at..Len(job.txn.files) /\ job.at \in 1..job.at
          /\ \A m \in 1..job.at - 1 : m \in 1..job.at
        BY <1>5, <2>2, ApplyStep
    <2>6. Read(fs[job.txn.files[n].path]) = Expected(job.txn.files[n], job.direction)
        BY <1>5, <2>4, <2>5 DEF UnracedInv, ApplyFile
    <2>7. job.txn.files[n].path \in Files /\ job.txn.files[n].path # job.txn.files[job.at].path
        <3>1. n \in DOMAIN job.txn.files
            BY <1>5, <2>5, ApplyStep
        <3>2. job.txn.files[n] \in FileSnapshot
            BY <3>1, JobFilesTyped
        <3>3. QED
            BY <2>4, <2>5, <3>2 DEF FileSnapshot
    <2>8. QED
        BY <2>3, <2>6, <2>7
<1>6. CASE (\E r \in Runs : Commit(r)) \/ UNCHANGED vars
    <2>1. UNCHANGED <<fs, job, raced>>
        BY <1>6 DEF Commit, vars, ghosts
    <2>2. QED
        BY <2>1 DEF UnracedInv
<1>7. CASE CommandEnds \/ ApplyFails \/ Restart
    BY <1>3, <1>7 DEF CommandEnds, ApplyFails, Restart, NoJob
<1>8. ASSUME NEW d \in Directions, NEW n \in 1..MaxCount, NEW force \in BOOLEAN, Command(d, n, force)
      PROVE  UnracedInv'
    BY <1>3, <1>8 DEF Command, NoJob
<1>9. ASSUME NEW r \in Runs, RunSteps(r)
      PROVE  UnracedInv'
    BY <1>1, <1>2, <1>9, ReadFacts DEF RunSteps
<1>10. QED
    BY <1>1, <1>2, <1>3, <1>4, <1>5, <1>6, <1>7, <1>8, <1>9 DEF Next, JobSteps

\* OthersWorkIsSafe: a command that is not forced replaces no text but what the
\* history recorded in the file, except in a file somebody wrote after the check;
\* forced or not, it touches no file but the transaction's.  Where the history
\* recorded that there was no file, a file that is not text reads as none.
THEOREM OthersWorkIsSafe == Spec => NothingElseLost
<1> DEFINE Replaces(p) ==
        fs'[p] # fs[p] /\ job' # job =>
            /\ p = job.txn.files[job.at].path
            /\ ~job.force /\ p \notin raced
               /\ (\A n \in 1..job.at - 1 : job.txn.files[n].path # p) =>
                   Read(fs[p]) = Expected(job.txn.files[job.at], job.direction)
<1>1. Init => UnracedInv
    BY DEF Init, NoJob, UnracedInv
<1>2. TypeInv /\ UnracedInv /\ [Next]_vars => UnracedInv'
    BY UnracedStep, UndoAssumption
<1>3. ASSUME TypeInv, UnracedInv, [Next]_vars
      PROVE  [\A p \in Files : Replaces(p)]_vars
    <2>1. CASE ApplyFile
        <3>1. job.at \in job.at..Len(job.txn.files)
            BY <2>1, ApplyStep, UndoAssumption, <1>3
        <3>2. \A p \in Files : fs'[p] # fs[p] => p = job.txn.files[job.at].path
            BY <2>1, <1>3, ApplyStep, UndoAssumption DEF TypeInv, TypeOK
        <3>3. QED
            BY <1>3, <2>1, <3>1, <3>2 DEF UnracedInv, ApplyFile
    <2>2. CASE job' = job \/ fs' = fs
        BY <2>2
    <2>3. ASSUME NEW r \in Runs, RunSteps(r) \/ Commit(r)
          PROVE  job' = job
        BY <2>3 DEF RunSteps, CallFails, Snapshot, EndRun, FailRun, Capture, WriteFile, Commit
    <2>4. ApplyFile \/ job' = job \/ fs' = fs
        BY <1>3, <2>3 DEF Next, JobSteps, Command, NextTransaction, ApplyFails, CommandEnds,
           ForeignWrite, Restart, vars
    <2>5. QED
        BY <2>1, <2>2, <2>4
<1>4. QED
    BY <1>1, <1>2, <1>3, Typed, UndoAssumption, PTL DEF Spec, NothingElseLost

-----------------------------------------------------------------------------
(* The order of the commits                                                *)

\* What the operations on stacks do to the ids.
LEMMA PushIds ==
    ASSUME NEW s \in Seq(UndoTransaction), NEW e \in UndoTransaction
    PROVE  /\ StackIds(Append(s, e)) = StackIds(s) \cup {e.id}
           /\ Rising(s) /\ Below(StackIds(s), {e.id}) => Rising(Append(s, e))
           /\ Falling(s) /\ Below({e.id}, StackIds(s)) => Falling(Append(s, e))
<1>1. /\ DOMAIN s = 1..Len(s) /\ Len(s) \in Nat
      /\ DOMAIN Append(s, e) = 1..Len(s) + 1
      /\ \A i \in DOMAIN s : Append(s, e)[i] = s[i]
      /\ Append(s, e)[Len(s) + 1] = e
    BY PushFacts, LenProperties
<1>2. StackIds(Append(s, e)) = StackIds(s) \cup {e.id}
    BY <1>1 DEF StackIds
<1>3. \A n \in DOMAIN s : s[n].id \in StackIds(s)
    BY DEF StackIds
<1>4. \A n \in DOMAIN Append(s, e) : n \in DOMAIN s \/ n = Len(s) + 1
    BY <1>1
<1>5. \A m, n \in DOMAIN Append(s, e) : m < n => m \in DOMAIN s
    BY <1>1
<1>6. QED
    BY <1>1, <1>2, <1>3, <1>4, <1>5 DEF Rising, Falling, Below

LEMMA PopIds ==
    ASSUME NEW s \in Seq(UndoTransaction), s # <<>>
    PROVE  /\ StackIds(Front(s)) \subseteq StackIds(s) /\ Last(s).id \in StackIds(s)
           /\ Rising(s) => Rising(Front(s)) /\ Below(StackIds(Front(s)), {Last(s).id})
           /\ Falling(s) => Falling(Front(s)) /\ Below({Last(s).id}, StackIds(Front(s)))
<1>1. /\ DOMAIN s = 1..Len(s) /\ Len(s) \in Nat \ {0}
      /\ DOMAIN Front(s) = 1..Len(s) - 1
      /\ \A i \in DOMAIN Front(s) : i \in DOMAIN s /\ Front(s)[i] = s[i] /\ i < Len(s)
      /\ Last(s) = s[Len(s)] /\ Len(s) \in DOMAIN s
    <2>1. /\ Len(s) \in Nat \ {0} /\ DOMAIN s = 1..Len(s)
          /\ Front(s) \in Seq(UndoTransaction) /\ Len(Front(s)) = Len(s) - 1
          /\ Last(s) = s[Len(s)]
        BY FrontFacts, LenProperties
    <2>2. DOMAIN Front(s) = 1..Len(s) - 1
        BY <2>1, LenProperties
    <2>3. \A i \in 1..Len(s) - 1 : i \in 1..Len(s) /\ i < Len(s) /\ Front(s)[i] = s[i]
        BY <2>1, FrontFacts
    <2>4. QED
        BY <2>1, <2>2, <2>3
<1>2. StackIds(Front(s)) \subseteq StackIds(s) /\ Last(s).id \in StackIds(s)
    BY <1>1 DEF StackIds
<1>3. Rising(s) => Rising(Front(s)) /\ Below(StackIds(Front(s)), {Last(s).id})
    BY <1>1 DEF StackIds, Rising, Below
<1>4. Falling(s) => Falling(Front(s)) /\ Below({Last(s).id}, StackIds(Front(s)))
    BY <1>1 DEF StackIds, Falling, Below
<1>5. QED
    BY <1>2, <1>3, <1>4

LEMMA SuffixIds ==
    ASSUME NEW s \in Seq(UndoTransaction), NEW k \in 0..Len(s)
    PROVE  /\ StackIds(SubSeq(s, k + 1, Len(s))) \subseteq StackIds(s)
           /\ Rising(s) => Rising(SubSeq(s, k + 1, Len(s)))
<1> DEFINE t == SubSeq(s, k + 1, Len(s))
<1>1. /\ DOMAIN s = 1..Len(s) /\ Len(s) \in Nat
      /\ DOMAIN t = 1..Len(s) - k
      /\ \A i \in DOMAIN t : i + k \in DOMAIN s /\ t[i] = s[i + k]
    BY SuffixFacts, LenProperties
<1> HIDE DEF t
<1>2. StackIds(t) \subseteq StackIds(s)
    BY <1>1 DEF StackIds
<1>3. \A m, n \in DOMAIN t : m < n => m + k < n + k
    BY <1>1
<1>4. Rising(s) => Rising(t)
    BY <1>1, <1>3 DEF Rising
<1>5. QED
    BY <1>2, <1>4 DEF t

LEMMA EmptyIds == StackIds(<<>>) = {} /\ Rising(<<>>) /\ Falling(<<>>)
BY EmptySeq DEF StackIds, Rising, Falling

\* The invariant of the history in memory.
StoreOrder ==
    /\ Line(store)
    /\ Below(StackIds(store.undo), JobIds) /\ Below(JobIds, StackIds(store.redo))

\* Every id in it.
Settled == Ids(store) \cup JobIds

LEMMA OrderInit == ASSUME Init PROVE OrderInv
<1>1. Line(store) /\ Line(saved) /\ Ids(store) = {} /\ Ids(saved) = {} /\ JobIds = {}
    BY EmptyIds, EmptyTypes DEF Init, Line, Below, Ids, JobIds, NoJob
<1>2. QED
    BY <1>1, EmptyIds, EmptyTypes DEF Init, OrderInv, Below, Ids

\* A command's steps: what the history holds stays in line, and no id is new.
LEMMA OrderTake ==
    ASSUME TypeInv, StoreOrder, NextTransaction
    PROVE  StoreOrder' /\ Settled' \subseteq Settled
<1>1. PICK s \in Seq(UndoTransaction) : s = store[job.direction] /\ s # <<>>
    BY TakeStep, JobTyped
<1>2. JobIds = {} /\ JobIds' = {Last(s).id}
    BY <1>1, TakeStep DEF NextTransaction, JobIds
<1>3. CASE job.direction = "undo"
    <2>1. store'.undo = Front(s) /\ store'.redo = store.redo /\ store.undo = s
        BY <1>1, <1>3, TakeStep DEF Other
    <2>2. QED
        BY <1>1, <1>2, <2>1, PopIds DEF StoreOrder, Line, Below, Settled, Ids
<1>4. CASE job.direction = "redo"
    <2>1. store'.redo = Front(s) /\ store'.undo = store.undo /\ store.redo = s
        BY <1>1, <1>4, TakeStep DEF Other
    <2>2. QED
        BY <1>1, <1>2, <2>1, PopIds DEF StoreOrder, Line, Below, Settled, Ids
<1>5. QED
    BY <1>3, <1>4, JobTyped DEF Directions

LEMMA OrderApply ==
    ASSUME UndoAssumption, TypeInv, StoreOrder, ApplyFile
    PROVE  StoreOrder' /\ Settled' \subseteq Settled
<1>1. CASE ~Through
    BY <1>1, ApplyStep DEF StoreOrder, Settled, JobIds, ApplyFile
<1>2. CASE Through
    <2>1. PICK s \in Seq(UndoTransaction) : s = store[Other(job.direction)]
        BY JobTyped
    <2>2. JobIds = {job.txn.id} /\ JobIds' = {} /\ job.txn \in UndoTransaction
        BY <1>2, ApplyStep, JobTyped DEF ApplyFile, JobIds
    <2>3. CASE job.direction = "undo"
        <3>1. store'.redo = Append(s, job.txn) /\ store'.undo = store.undo /\ store.redo = s
            BY <1>2, <2>1, <2>3, ApplyStep DEF Other
        <3>2. QED
            BY <2>1, <2>2, <3>1, PushIds DEF StoreOrder, Line, Below, Settled, Ids
    <2>4. CASE job.direction = "redo"
        <3>1. store'.undo = Append(s, job.txn) /\ store'.redo = store.redo /\ store.undo = s
            BY <1>2, <2>1, <2>4, ApplyStep DEF Other
        <3>2. QED
            BY <2>1, <2>2, <3>1, PushIds DEF StoreOrder, Line, Below, Settled, Ids
    <2>5. QED
        BY <2>3, <2>4, JobTyped DEF Directions
<1>3. QED
    BY <1>1, <1>2

LEMMA OrderCommit ==
    ASSUME UndoAssumption, TypeInv, OrderInv, NEW r \in Runs, Commit(r)
    PROVE  OrderInv'
<1>1. PICK txn \in UndoTransaction : txn = Transaction(r) /\ txn.id = count.commits + 1
    BY CommitStep
<1> DEFINE all == Append(store.undo, txn)
<1>2. /\ store \in UndoStore /\ store.undo \in Seq(UndoTransaction)
      /\ count.commits \in Nat
    BY DEF TypeInv, TypeOK, UndoStore, Counts
<1>3. JobIds = {} /\ JobIds' = {}
    BY CommitStep DEF JobIds
<1>4. PICK dropped \in 0..Len(all) :
          store' = [undo |-> SubSeq(all, dropped + 1, Len(all)), redo |-> <<>>]
    BY <1>1, <1>2, CommitFacts, CommitStep
<1>5. all \in Seq(UndoTransaction) /\ StackIds(all) = StackIds(store.undo) \cup {txn.id}
      /\ Rising(all)
    <2>1. Below(StackIds(store.undo), {txn.id})
        BY <1>1, <1>2 DEF OrderInv, Below, Ids
    <2>2. QED
        BY <1>2, <2>1, PushFacts, PushIds DEF OrderInv, Line
<1> HIDE DEF all
<1>6. StackIds(store'.undo) \subseteq StackIds(store.undo) \cup {txn.id} /\ Rising(store'.undo)
    BY <1>4, <1>5, SuffixIds
<1>7. StackIds(store'.redo) = {} /\ Falling(store'.redo)
    BY <1>4, EmptyIds
<1>8. Line(store')
    BY <1>6, <1>7 DEF Line, Below
<1>9. saved' = store' \/ saved' = saved
    BY CommitStep
<1>10. Line(saved')
    BY <1>8, <1>9 DEF OrderInv
<1>11. Ids(store') \cup Ids(saved') \subseteq Ids(store) \cup Ids(saved) \cup {txn.id}
    BY <1>6, <1>7, <1>9 DEF Ids
<1>12. Ids(store') \cup Ids(saved') \cup JobIds' \subseteq 1..count'.commits
    <2>1. count'.commits = count.commits + 1
        BY CommitStep
    <2>2. Ids(store) \cup Ids(saved) \subseteq 1..count.commits
        BY DEF OrderInv
    <2>3. QED
        BY <1>1, <1>2, <1>3, <1>11, <2>1, <2>2
<1>13. QED
    BY <1>3, <1>8, <1>10, <1>12 DEF OrderInv, Below

LEMMA OrderStep == ASSUME UndoAssumption, TypeInv, OrderInv, [Next]_vars PROVE OrderInv'
<1>1. ASSUME StoreOrder', Settled' \subseteq Settled,
             saved' = saved \/ saved' = store', count'.commits = count.commits
      PROVE  OrderInv'
    <2>1. /\ Line(store') /\ Below(StackIds(store'.undo), JobIds')
          /\ Below(JobIds', StackIds(store'.redo))
        BY <1>1 DEF StoreOrder
    <2>2. Line(saved') /\ Ids(saved') \subseteq Ids(saved) \cup Ids(store')
        BY <1>1, <2>1 DEF OrderInv
    <2>3. Ids(store') \cup JobIds' \subseteq Ids(store) \cup JobIds
        BY <1>1 DEF Settled
    <2>4. Ids(store') \cup Ids(saved') \cup JobIds' \subseteq 1..count'.commits
        BY <1>1, <2>2, <2>3 DEF OrderInv
    <2>5. QED
        BY <2>1, <2>2, <2>4 DEF OrderInv
<1>2. StoreOrder
    BY DEF OrderInv, StoreOrder
<1>3. \A kind \in {"foreign", "failures", "restarts"} :
        Fault(kind) => count'.commits = count.commits
    BY FaultStep
<1>4. CASE NextTransaction
    <2>1. StoreOrder' /\ Settled' \subseteq Settled
        BY <1>2, <1>4, OrderTake
    <2>2. QED
        BY <1>1, <1>4, <2>1 DEF NextTransaction
<1>5. CASE ApplyFile
    <2>1. StoreOrder' /\ Settled' \subseteq Settled
        BY <1>2, <1>5, OrderApply
    <2>2. QED
        BY <1>1, <1>5, <2>1 DEF ApplyFile
<1>6. CASE ApplyFails \/ CommandEnds
    <2>1. store' = store /\ JobIds' = {}
        BY <1>6 DEF ApplyFails, CommandEnds, NoJob, JobIds
    <2>2. (saved' = saved \/ saved' = store') /\ count'.commits = count.commits
        BY <1>3, <1>6, <2>1 DEF ApplyFails, CommandEnds, SaveHistory
    <2>3. StoreOrder' /\ Settled' \subseteq Settled
        BY <1>2, <2>1 DEF StoreOrder, Below, Settled
    <2>4. QED
        BY <1>1, <2>2, <2>3
<1>7. ASSUME NEW d \in Directions, NEW n \in 1..MaxCount, NEW force \in BOOLEAN, Command(d, n, force)
      PROVE  OrderInv'
    <2>1. UNCHANGED <<store, saved, count>> /\ JobIds' = {} /\ JobIds = {}
        BY <1>7 DEF Command, NoJob, JobIds
    <2>2. StoreOrder' /\ Settled' \subseteq Settled
        BY <1>2, <2>1 DEF StoreOrder, Settled
    <2>3. QED
        BY <1>1, <2>1, <2>2
<1>8. ASSUME NEW r \in Runs, RunSteps(r)
      PROVE  OrderInv'
    <2>1. UNCHANGED <<store, saved, job>> /\ count'.commits = count.commits /\ JobIds' = JobIds
        BY <1>8 DEF RunSteps, CallFails, Snapshot, EndRun, FailRun, Capture, WriteFile, JobIds,
           TypeInv, TypeOK, Counts
    <2>2. QED
        BY <2>1 DEF OrderInv
<1>9. ASSUME NEW p \in Files, NEW c \in Content, ForeignWrite(p, c)
      PROVE  OrderInv'
    <2>1. UNCHANGED <<store, saved, job>> /\ count'.commits = count.commits /\ JobIds' = JobIds
        BY <1>3, <1>9 DEF ForeignWrite, JobIds
    <2>2. QED
        BY <2>1 DEF OrderInv
<1>10. CASE Restart
    <2>1. store' = saved /\ saved' = saved /\ JobIds' = {} /\ count'.commits = count.commits
        BY <1>3, <1>10 DEF Restart, JobIds, NoJob
    <2>2. QED
        BY <2>1 DEF OrderInv, Below
<1>11. CASE UNCHANGED vars
    BY <1>11 DEF vars, OrderInv, JobIds
<1>12. QED
    BY <1>4, <1>5, <1>6, <1>7, <1>8, <1>9, <1>10, <1>11, OrderCommit DEF Next, JobSteps

\* A row of rising stretches, each below the next, rises.
LEMMA JoinRising ==
    ASSUME NEW s \in Seq(UndoTransaction), NEW t \in Seq(UndoTransaction),
           Rising(s), Rising(t), Below(StackIds(s), StackIds(t))
    PROVE  Rising(s \o t) /\ StackIds(s \o t) = StackIds(s) \cup StackIds(t)
<1>1. Len(s) \in Nat /\ DOMAIN s = 1..Len(s)
    BY JoinFacts
<1>2. \A i \in DOMAIN (s \o t) :
         \/ i \in DOMAIN s /\ (s \o t)[i] = s[i]
         \/ /\ i \notin DOMAIN s /\ i \in Nat /\ i - Len(s) \in DOMAIN t
            /\ (s \o t)[i] = t[i - Len(s)]
    BY JoinFacts
<1>3. \A i \in DOMAIN s : i \in DOMAIN (s \o t) /\ (s \o t)[i] = s[i]
    BY JoinFacts
<1>4. \A i \in DOMAIN t : i + Len(s) \in DOMAIN (s \o t) /\ (s \o t)[i + Len(s)] = t[i]
    BY JoinFacts
<1>5. StackIds(s \o t) = StackIds(s) \cup StackIds(t)
    <2>1. StackIds(s \o t) \subseteq StackIds(s) \cup StackIds(t)
        BY <1>2 DEF StackIds
    <2>2. StackIds(s) \subseteq StackIds(s \o t)
        BY <1>3 DEF StackIds
    <2>3. StackIds(t) \subseteq StackIds(s \o t)
        BY <1>4 DEF StackIds
    <2>4. QED
        BY <2>1, <2>2, <2>3
<1>6. ASSUME NEW m \in DOMAIN (s \o t), NEW n \in DOMAIN (s \o t), m < n
      PROVE  (s \o t)[m].id < (s \o t)[n].id
    <2>1. CASE n \in DOMAIN s
        <3>1. m \in DOMAIN s
            BY <1>1, <1>2, <1>6, <2>1
        <3>2. QED
            BY <1>3, <1>6, <2>1, <3>1 DEF Rising
    <2>2. CASE m \in DOMAIN s /\ n \notin DOMAIN s
        BY <1>2, <1>6, <2>2 DEF Below, StackIds
    <2>3. CASE m \notin DOMAIN s
        <3>1. n \notin DOMAIN s /\ m - Len(s) < n - Len(s)
            BY <1>1, <1>6, <2>3
        <3>2. QED
            BY <1>2, <1>6, <2>3, <3>1 DEF Rising
    <2>4. QED
        BY <2>1, <2>2, <2>3
<1>7. QED
    BY <1>5, <1>6 DEF Rising

LEMMA ReverseFalling ==
    ASSUME NEW s \in Seq(UndoTransaction), Falling(s)
    PROVE  /\ Reverse(s) \in Seq(UndoTransaction)
           /\ Rising(Reverse(s))
           /\ StackIds(Reverse(s)) = StackIds(s)
<1>1. DOMAIN s = 1..Len(s) /\ Len(s) \in Nat /\ \A n \in DOMAIN s : s[n] \in UndoTransaction
    BY ElementsTyped
<1>2. \A i \in 1..Len(s) : Len(s) - i + 1 \in DOMAIN s /\ Len(s) - (Len(s) - i + 1) + 1 = i
    BY <1>1
<1>3. DOMAIN Reverse(s) = 1..Len(s) /\ \A i \in 1..Len(s) : Reverse(s)[i] = s[Len(s) - i + 1]
    BY DEF Reverse
<1>4. Reverse(s) \in [1..Len(s) -> UndoTransaction]
    BY <1>1, <1>2 DEF Reverse
<1>5. Reverse(s) \in Seq(UndoTransaction)
    BY <1>1, <1>4, SeqDef
<1>6. \A m, n \in 1..Len(s) : m < n => Len(s) - n + 1 < Len(s) - m + 1
    BY <1>1
<1>7. Rising(Reverse(s))
    BY <1>2, <1>3, <1>6 DEF Rising, Falling
<1>8. StackIds(Reverse(s)) = StackIds(s)
    <2>1. \A i \in DOMAIN s : Len(s) - i + 1 \in 1..Len(s) /\ s[i] = Reverse(s)[Len(s) - i + 1]
        BY <1>1, <1>2, <1>3
    <2>2. QED
        BY <1>1, <1>2, <1>3, <2>1 DEF StackIds
<1>9. QED
    BY <1>5, <1>7, <1>8

LEMMA OrderShows == ASSUME TypeInv, OrderInv PROVE InOrder
<1> DEFINE mid == IF job.txn = NoTransaction THEN <<>> ELSE <<job.txn>>
           back == Reverse(store.redo)
<1>1. mid \in Seq(UndoTransaction) /\ StackIds(mid) = JobIds /\ Rising(mid)
    <2>1. CASE job.phase = "apply"
        <3>1. job.txn \in UndoTransaction /\ job.txn # NoTransaction
            BY <2>1, JobTyped, EmptyTypes, EmptySeq DEF TypeInv, TypeOK
        <3>2. mid = <<job.txn>>
            BY <3>1
        <3>3. <<job.txn>> \in Seq(UndoTransaction)
              /\ DOMAIN <<job.txn>> = {1} /\ <<job.txn>>[1] = job.txn
            BY <3>1
        <3>4. QED
            BY <2>1, <3>2, <3>3 DEF JobIds, StackIds, Rising
    <2>2. CASE job.phase # "apply"
        <3>1. mid = <<>> /\ JobIds = {}
            BY <2>2 DEF TypeInv, JobShape, JobIds
        <3>2. QED
            BY <3>1, EmptySeq, EmptyIds
    <2>3. QED
        BY <2>1, <2>2
<1>2. back \in Seq(UndoTransaction) /\ Rising(back) /\ StackIds(back) = StackIds(store.redo)
    BY ReverseFalling DEF TypeInv, TypeOK, UndoStore, OrderInv, Line
<1> HIDE DEF mid, back
<1>3. store.undo \in Seq(UndoTransaction) /\ Rising(store.undo)
    BY DEF TypeInv, TypeOK, UndoStore, OrderInv, Line
<1>4. /\ Below(StackIds(store.undo), StackIds(mid))
      /\ Below(StackIds(store.undo) \cup StackIds(mid), StackIds(back))
    BY <1>1, <1>2 DEF OrderInv, Line, Below
<1>5. /\ store.undo \o mid \in Seq(UndoTransaction) /\ Rising(store.undo \o mid)
      /\ StackIds(store.undo \o mid) = StackIds(store.undo) \cup StackIds(mid)
    BY <1>1, <1>3, <1>4, JoinRising, ConcatProperties
<1>6. Rising((store.undo \o mid) \o back)
    BY <1>2, <1>4, <1>5, JoinRising
<1>7. QED
    BY <1>6 DEF InOrder, Rising, mid, back

\* OrderKept: the undo stack, the transaction in hand and the redo stack read from
\* its bottom are in the order in which the agent's runs were committed.
THEOREM OrderKept == Spec => []InOrder
<1>1. Init => OrderInv
    BY OrderInit
<1>2. TypeInv /\ OrderInv /\ [Next]_vars => OrderInv'
    BY OrderStep, UndoAssumption
<1>3. TypeInv /\ OrderInv => InOrder
    BY OrderShows
<1>4. QED
    BY <1>1, <1>2, <1>3, Typed, UndoAssumption, PTL DEF Spec

-----------------------------------------------------------------------------
(* Chains of contents                                                      *)

\* held[k] is what p holds above the k lowest transactions of the stack.
Holds(stack, d, p, held) ==
    /\ held \in [0..Len(stack) -> Content]
    /\ \A k \in 1..Len(stack) : Leads(stack[k].files, d, p, held[k - 1], held[k])

\* Where no transaction touches p, p holds the same.
LEMMA HoldsStill ==
    ASSUME NEW stack \in Seq(UndoTransaction), NEW d, NEW p, NEW held, Holds(stack, d, p, held),
           NEW i \in 0..Len(stack), NEW j \in i..Len(stack),
           \A k \in i + 1..j : k \notin Having(stack, p)
    PROVE  held[i] = held[j]
<1> DEFINE T == {k \in i..j : held[k] # held[i]}
<1>1. Len(stack) \in Nat /\ DOMAIN stack = 1..Len(stack)
    BY LenProperties
<1>2. SUFFICES ASSUME T # {} PROVE FALSE
    <2>1. j \in i..j
        BY <1>1
    <2>2. QED
        BY <1>2, <2>1
<1>3. T \in SUBSET Nat
    BY <1>1
<1>4. PICK k \in T : \A m \in T : k <= m
    <2> HIDE DEF T
    <2> QED
        BY <1>2, <1>3, LeastNumber
<1>5. k # i /\ k \in i + 1..j /\ k - 1 \in i..j /\ k \in 1..Len(stack)
    BY <1>1, <1>4
<1>6. held[k - 1] = held[i]
    <2>1. ~(k <= k - 1)
        BY <1>1, <1>5
    <2>2. QED
        BY <1>4, <1>5, <2>1
<1>7. Leads(stack[k].files, d, p, held[k - 1], held[k]) /\ k \notin Having(stack, p)
    BY <1>5 DEF Holds
<1>8. held[k - 1] = held[k]
    BY <1>1, <1>5, <1>7 DEF Leads, Having
<1>9. QED
    BY <1>4, <1>6, <1>8

LEMMA LeadsBack ==
    ASSUME NEW files, NEW d \in Directions, NEW p, NEW a, NEW b, Leads(files, d, p, a, b)
    PROVE  Leads(files, Other(d), p, b, a)
BY DEF Leads, Target, Expected, Directions, Other

LEMMA LeadsNowhere ==
    ASSUME NEW files, NEW d, NEW p, NEW a, NEW b, p \notin PathsOf(files)
    PROVE  Leads(files, d, p, a, b) <=> a = b
BY DEF Leads, PathsOf

LEMMA LeadsEmpty ==
    ASSUME NEW d, NEW p, NEW a, NEW b
    PROVE  Leads(<<>>, d, p, a, b) <=> a = b
<1>1. p \notin PathsOf(<<>>)
    BY EmptySeq DEF PathsOf
<1>2. QED
    BY <1>1, LeadsNowhere

\* The only snapshot of p in a transaction.
LEMMA LeadsSnapshot ==
    ASSUME NEW txn, NEW d, NEW p \in PathsOf(txn.files), NEW a, NEW b, Leads(txn.files, d, p, a, b)
    PROVE  Target(SnapshotOf(txn, p), d) = a /\ Expected(SnapshotOf(txn, p), d) = b
<1>1. \E n \in DOMAIN txn.files : txn.files[n].path = p
    BY DEF PathsOf
<1>2. PICK m \in DOMAIN txn.files : m = (CHOOSE n \in DOMAIN txn.files : txn.files[n].path = p)
                                    /\ txn.files[m].path = p
    BY <1>1
<1>3. SnapshotOf(txn, p) = txn.files[m]
    BY <1>2 DEF SnapshotOf
<1>4. QED
    BY <1>2, <1>3 DEF Leads

LEMMA ChainEmpty ==
    ASSUME NEW d, NEW p, NEW a \in Content
    PROVE  Chain(<<>>, d, p, a, a)
<1> DEFINE held == [k \in 0..Len(<<>>) |-> a]
<1>1. Len(<<>>) = 0
    BY EmptySeq
<1>2. /\ held \in [0..Len(<<>>) -> Content]
      /\ held[0] = a /\ held[Len(<<>>)] = a
      /\ \A k \in 1..Len(<<>>) : Leads(<<>>[k].files, d, p, held[k - 1], held[k])
    BY <1>1
<1>3. QED
    BY <1>2 DEF Chain

LEMMA ChainUntouched ==
    ASSUME NEW stack \in Seq(UndoTransaction), NEW d, NEW p, NEW a, NEW b,
           p \notin StackPaths(stack), Chain(stack, d, p, a, b)
    PROVE  a = b
<1>1. PICK held : Holds(stack, d, p, held) /\ held[0] = a /\ held[Len(stack)] = b
    BY DEF Chain, Holds
<1>2. Having(stack, p) = {}
    BY DEF StackPaths, Having
<1>3. 0 \in 0..Len(stack) /\ Len(stack) \in 0..Len(stack)
    BY LenProperties
<1>4. QED
    BY <1>1, <1>2, <1>3, HoldsStill

LEMMA ChainConstant ==
    ASSUME NEW stack \in Seq(UndoTransaction), NEW d, NEW p, NEW a \in Content,
           p \notin StackPaths(stack)
    PROVE  Chain(stack, d, p, a, a)
<1> DEFINE held == [k \in 0..Len(stack) |-> a]
<1>1. Len(stack) \in Nat /\ DOMAIN stack = 1..Len(stack)
    BY LenProperties
<1>2. held \in [0..Len(stack) -> Content] /\ held[0] = a /\ held[Len(stack)] = a
    BY <1>1
<1>3. \A k \in 1..Len(stack) : held[k - 1] = a /\ held[k] = a /\ p \notin PathsOf(stack[k].files)
    BY <1>1 DEF StackPaths
<1> HIDE DEF held
<1>4. \A k \in 1..Len(stack) : Leads(stack[k].files, d, p, held[k - 1], held[k])
    BY <1>3, LeadsNowhere
<1>5. QED
    BY <1>2, <1>4 DEF Chain

LEMMA ChainPush ==
    ASSUME NEW stack \in Seq(UndoTransaction), NEW e \in UndoTransaction, NEW d, NEW p,
           NEW a, NEW b, NEW c \in Content,
           Chain(stack, d, p, a, b), Leads(e.files, d, p, b, c)
    PROVE  Chain(Append(stack, e), d, p, a, c)
<1>1. PICK held : Holds(stack, d, p, held) /\ held[0] = a /\ held[Len(stack)] = b
    BY DEF Chain, Holds
<1> DEFINE more == [k \in 0..Len(stack) + 1 |-> IF k = Len(stack) + 1 THEN c ELSE held[k]]
<1>2. /\ Len(stack) \in Nat
      /\ Len(Append(stack, e)) = Len(stack) + 1
      /\ \A i \in 1..Len(stack) : Append(stack, e)[i] = stack[i]
      /\ Append(stack, e)[Len(stack) + 1] = e
    BY PushFacts, LenProperties
<1>3. more \in [0..Len(stack) + 1 -> Content]
    BY <1>1, <1>2 DEF Holds
<1>4. more[0] = a /\ more[Len(stack)] = b /\ more[Len(stack) + 1] = c
    BY <1>1, <1>2
<1>5. \A k \in 1..Len(stack) : more[k] = held[k] /\ more[k - 1] = held[k - 1]
    BY <1>2
<1> HIDE DEF more
<1>6. ASSUME NEW k \in 1..Len(stack) + 1
      PROVE  Leads(Append(stack, e)[k].files, d, p, more[k - 1], more[k])
    <2>1. CASE k = Len(stack) + 1
        <3>1. k - 1 = Len(stack)
            BY <1>2, <2>1
        <3>2. QED
            BY <1>2, <1>4, <2>1, <3>1
    <2>2. CASE k \in 1..Len(stack)
        BY <1>1, <1>2, <1>5, <2>2 DEF Holds
    <2>3. QED
        BY <1>2, <2>1, <2>2
<1>7. QED
    BY <1>2, <1>3, <1>4, <1>6 DEF Chain

\* A chain is cut in two above any number of transactions.
LEMMA ChainCut ==
    ASSUME NEW stack \in Seq(UndoTransaction), NEW cut \in 0..Len(stack), NEW d, NEW p,
           NEW a, NEW b, Chain(stack, d, p, a, b)
    PROVE  \E c \in Content :
             /\ Chain(SubSeq(stack, 1, cut), d, p, a, c)
             /\ Chain(SubSeq(stack, cut + 1, Len(stack)), d, p, c, b)
<1>1. PICK held : Holds(stack, d, p, held) /\ held[0] = a /\ held[Len(stack)] = b
    BY DEF Chain, Holds
<1> DEFINE lower == SubSeq(stack, 1, cut)
           upper == SubSeq(stack, cut + 1, Len(stack))
           below == [k \in 0..cut |-> held[k]]
           above == [k \in 0..Len(stack) - cut |-> held[k + cut]]
<1>2. Len(stack) \in Nat /\ cut \in Nat /\ cut <= Len(stack)
    BY LenProperties
<1>3. Len(upper) = Len(stack) - cut /\ \A i \in 1..Len(stack) - cut : upper[i] = stack[i + cut]
    BY SuffixFacts
<1>4. Len(lower) = cut /\ \A i \in 1..cut : lower[i] = stack[i]
    <2>1. \A i \in 1..cut : stack[i] \in UndoTransaction
        BY <1>2, ElementsTyped
    <2>2. Len(lower) = (IF 1 <= cut THEN cut - 1 + 1 ELSE 0)
          /\ \A i \in 1..cut - 1 + 1 : lower[i] = stack[1 + i - 1]
        BY <1>2, <2>1, SubSeqProperties
    <2>3. cut - 1 + 1 = cut /\ (IF 1 <= cut THEN cut - 1 + 1 ELSE 0) = cut
          /\ \A i \in 1..cut : 1 + i - 1 = i
        BY <1>2
    <2> HIDE DEF lower
    <2>4. \A i \in 1..cut : lower[i] = stack[i]
        <3>1. TAKE i \in 1..cut
        <3>2. lower[i] = stack[1 + i - 1] /\ 1 + i - 1 = i
            BY <2>2, <2>3
        <3>3. QED
            BY <3>2
    <2>5. QED
        BY <2>2, <2>3, <2>4
<1>5. below \in [0..cut -> Content] /\ below[0] = a /\ below[cut] = held[cut] /\ held[cut] \in Content
    BY <1>1, <1>2 DEF Holds
<1>6. /\ above \in [0..Len(stack) - cut -> Content]
      /\ above[0] = held[cut] /\ above[Len(stack) - cut] = b
    <2>1. \A k \in 0..Len(stack) - cut : k + cut \in 0..Len(stack)
        BY <1>2
    <2>2. 0 \in 0..Len(stack) - cut /\ Len(stack) - cut \in 0..Len(stack) - cut
          /\ 0 + cut = cut /\ Len(stack) - cut + cut = Len(stack)
        BY <1>2
    <2>3. QED
        BY <1>1, <2>1, <2>2 DEF Holds
<1>7. \A k \in 1..cut : /\ below[k] = held[k] /\ below[k - 1] = held[k - 1]
                        /\ k \in 1..Len(stack)
    BY <1>2
<1>8. \A k \in 1..Len(stack) - cut : /\ above[k] = held[k + cut] /\ above[k - 1] = held[k + cut - 1]
                                     /\ k + cut \in 1..Len(stack)
    <2>1. TAKE k \in 1..Len(stack) - cut
    <2>2. k - 1 + cut = k + cut - 1 /\ k \in 0..Len(stack) - cut /\ k - 1 \in 0..Len(stack) - cut
          /\ k + cut \in 1..Len(stack)
        BY <1>2
    <2>3. QED
        BY <2>2
<1> HIDE DEF below, above, lower, upper
<1>9. \A k \in 1..cut : Leads(lower[k].files, d, p, below[k - 1], below[k])
    BY <1>1, <1>4, <1>7 DEF Holds
<1>10. \A k \in 1..Len(stack) - cut : Leads(upper[k].files, d, p, above[k - 1], above[k])
    <2>1. TAKE k \in 1..Len(stack) - cut
    <2>2. Leads(stack[k + cut].files, d, p, held[k + cut - 1], held[k + cut])
        BY <1>1, <1>8 DEF Holds
    <2>3. QED
        BY <1>3, <1>8, <2>2
<1>11. Chain(lower, d, p, a, held[cut]) /\ Chain(upper, d, p, held[cut], b)
    BY <1>3, <1>4, <1>5, <1>6, <1>9, <1>10 DEF Chain
<1>12. QED
    BY <1>5, <1>11 DEF lower, upper

LEMMA ChainSingle ==
    ASSUME NEW e \in UndoTransaction, NEW stack, Len(stack) = 1, stack[1] = e, NEW d, NEW p,
           NEW a, NEW b, Chain(stack, d, p, a, b)
    PROVE  Leads(e.files, d, p, a, b)
<1>1. PICK held : Holds(stack, d, p, held) /\ held[0] = a /\ held[1] = b
    BY DEF Chain, Holds
<1>2. Leads(stack[1].files, d, p, held[1 - 1], held[1]) /\ 1 - 1 = 0
    BY <1>1 DEF Holds
<1>3. QED
    BY <1>1, <1>2

LEMMA ChainPop ==
    ASSUME NEW stack \in Seq(UndoTransaction), stack # <<>>, NEW d, NEW p, NEW a, NEW b,
           Chain(stack, d, p, a, b)
    PROVE  \E c \in Content : Chain(Front(stack), d, p, a, c) /\ Leads(Last(stack).files, d, p, c, b)
<1>1. Len(stack) \in Nat \ {0} /\ Len(stack) - 1 \in 0..Len(stack)
      /\ Len(stack) - 1 + 1 = Len(stack) /\ Len(stack) - (Len(stack) - 1) = 1
    BY EmptySeq, LenProperties
<1>2. PICK c \in Content :
          /\ Chain(SubSeq(stack, 1, Len(stack) - 1), d, p, a, c)
          /\ Chain(SubSeq(stack, Len(stack) - 1 + 1, Len(stack)), d, p, c, b)
    BY <1>1, ChainCut
<1> DEFINE top == SubSeq(stack, Len(stack) - 1 + 1, Len(stack))
<1>3. Len(top) = 1 /\ top[1] = stack[1 + (Len(stack) - 1)]
    BY <1>1, SuffixFacts
<1>4. 1 + (Len(stack) - 1) = Len(stack) /\ stack[Len(stack)] \in UndoTransaction
    BY <1>1, ElementOfSeq
<1>5. Chain(top, d, p, c, b) /\ top[1] = Last(stack) /\ Last(stack) \in UndoTransaction
    BY <1>2, <1>3, <1>4 DEF Last
<1> HIDE DEF top
<1>6. Leads(Last(stack).files, d, p, c, b)
    BY <1>3, <1>5, ChainSingle
<1>7. QED
    BY <1>2, <1>6 DEF Front

\* What commit remembers of the transactions it drops is where they led to.
LEMMA ChainNewBase ==
    ASSUME NEW dropped \in Seq(UndoTransaction), NEW p, NEW b, Chain(dropped, "undo", p, base[p], b)
    PROVE  NewBase(p, dropped) = b
<1> DEFINE at == Having(dropped, p)
<1>1. Len(dropped) \in Nat /\ at \in SUBSET (1..Len(dropped))
    BY LenProperties DEF Having
<1>2. CASE at = {}
    <2>1. p \notin StackPaths(dropped)
        BY <1>2 DEF Having, StackPaths
    <2>2. QED
        BY <1>2, <2>1, ChainUntouched DEF NewBase
<1>3. CASE at # {}
    <2>1. \E n \in at : \A m \in at : m <= n
        <3> HIDE DEF at
        <3> QED
            BY <1>1, <1>3, LastPosition
    <2>2. PICK last \in at : /\ last = (CHOOSE n \in at : \A m \in at : m <= n)
                             /\ \A m \in at : m <= last
        BY <2>1
    <2>3. NewBase(p, dropped) = SnapshotOf(dropped[last], p).after
        BY <1>3, <2>2 DEF NewBase
    <2>4. PICK held : Holds(dropped, "undo", p, held) /\ held[Len(dropped)] = b
        BY DEF Chain, Holds
    <2>5. last \in 1..Len(dropped) /\ p \in PathsOf(dropped[last].files)
          /\ last \in 0..Len(dropped) /\ Len(dropped) \in last..Len(dropped)
          /\ \A k \in last + 1..Len(dropped) : k \notin at
        BY <1>1, <2>2 DEF Having
    <2>6. held[last] = held[Len(dropped)]
        BY <2>4, <2>5, HoldsStill
    <2>7. Leads(dropped[last].files, "undo", p, held[last - 1], held[last])
        BY <2>4, <2>5 DEF Holds
    <2>8. Expected(SnapshotOf(dropped[last], p), "undo") = held[last]
        BY <2>5, <2>7, LeadsSnapshot
    <2>9. QED
        BY <2>3, <2>4, <2>6, <2>8 DEF Expected
<1>4. QED
    BY <1>2, <1>3

-----------------------------------------------------------------------------
(* The history and the files                                               *)

\* With no transaction of p in hand, both stacks lead to v.
AtRest(p, v) ==
    \E far \in [Directions -> Content] :
        /\ far["undo"] = base[p] /\ (p \notin Written => far["redo"] = tip[p])
        /\ \A d \in Directions : Chain(store[d], d, p, far[d], v)

LEMMA RestFrom ==
    ASSUME TypeInv, NEW p, NEW v \in Content, HistoryFits(p, v), p \notin PathsOf(job.txn.files)
    PROVE  AtRest(p, v)
<1>1. PICK near, far \in [Directions -> Content] :
        /\ far["undo"] = base[p] /\ (p \notin Written => far["redo"] = tip[p])
        /\ \A d \in Directions : Chain(store[d], d, p, far[d], near[d])
        /\ Leads(job.txn.files, job.direction, p, near[job.direction], near[Other(job.direction)])
        /\ v = IF Applied(p) THEN near[job.direction] ELSE near[Other(job.direction)]
    BY DEF HistoryFits
<1>2. near[job.direction] = near[Other(job.direction)]
    BY <1>1, LeadsNowhere
<1>3. \A d \in Directions : near[d] = v
    BY <1>1, <1>2, JobTyped DEF Directions, Other
<1>4. QED
    BY <1>1, <1>3 DEF AtRest

LEMMA RestTo ==
    ASSUME job'.txn.files = <<>>, job'.direction \in Directions, NEW p, NEW v \in Content, AtRest(p, v)'
    PROVE  HistoryFits(p, v)'
<1> DEFINE near == [d \in Directions |-> v]
<1>1. PICK far \in [Directions -> Content] :
        /\ far["undo"] = base'[p] /\ (p \notin Written' => far["redo"] = tip'[p])
        /\ \A d \in Directions : Chain(store'[d], d, p, far[d], v)
    BY DEF AtRest
<1>2. near \in [Directions -> Content]
    OBVIOUS
<1>3. \A d \in Directions : near[d] = v
    OBVIOUS
<1>4. Other(job'.direction) \in Directions
    BY DEF Directions, Other
<1> HIDE DEF near
<1>5. Leads(job'.txn.files, job'.direction, p, near[job'.direction], near[Other(job'.direction)])
    BY <1>3, <1>4, LeadsEmpty
<1>6. \A d \in Directions : Chain(store'[d], d, p, far[d], near[d])
    BY <1>1, <1>3
<1>7. v = IF Applied(p)' THEN near[job'.direction] ELSE near[Other(job'.direction)]
    BY <1>3, <1>4
<1>8. QED
    BY <1>1, <1>2, <1>5, <1>6, <1>7 DEF HistoryFits

LEMMA HistoryKept ==
    ASSUME NEW p, NEW v \in Content, HistoryFits(p, v), UNCHANGED <<store, job>>,
           base'[p] = base[p], tip'[p] = tip[p], p \in Written => p \in Written'
    PROVE  HistoryFits(p, v)'
BY DEF HistoryFits, Applied

LEMMA FlightKept ==
    ASSUME NEW p, NEW v \in Content, FlightFits(p, v), runs' = runs, fs'[p] = fs[p]
    PROVE  FlightFits(p, v)'
<1>1. Written' = Written /\ \A r \in Runs : WrittenBy(r)' = WrittenBy(r)
    BY DEF Written, WrittenBy
<1>2. QED
    BY <1>1 DEF FlightFits

\* A file nobody has in flight holds what the history says.
LEMMA FlightIdle ==
    ASSUME NEW p, NEW v \in Content, p \notin InFlight', fs'[p] = v
    PROVE  FlightFits(p, v)'
<1>1. \A r \in Runs : p \notin WrittenBy(r)' /\ p \notin runs'[r].call.todo
    BY DEF InFlight, HeldBy
<1>2. QED
    BY <1>1 DEF FlightFits

LEMMA WrittenInFlight == Written \subseteq InFlight
BY DEF Written, InFlight, HeldBy

LEMMA TwicePaths == ASSUME NEW files PROVE Twice(files) \subseteq PathsOf(files)
BY DEF Twice, PathsOf

\* What each step makes of the contents.
Fitting(p) == \E v \in Content : HistoryFits(p, v) /\ FlightFits(p, v)

\* What a run has written of the project.
WrittenIn(run) == Range(run.call.wrote) \cup PathsOf(run.snapshots)

\* A step of one run that writes nothing to p, nor drops what the run wrote to it.
LEMMA FlightOneRun ==
    ASSUME TypeInv, NEW r \in Runs, NEW run, OneRun(r, run), NEW p, NEW v \in Content,
           FlightFits(p, v), fs'[p] = fs[p],
           p \in WrittenIn(run) <=> p \in WrittenBy(r),
           p \in WrittenBy(r) /\ RunLeads(runs[r], p, v, fs[p]) => RunLeads(run, p, v, fs[p]),
           p \in run.call.todo => run.call.before[p] = Read(fs[p])
    PROVE  /\ FlightFits(p, v)'
           /\ p \in Written' <=> p \in Written
<1>1. WrittenBy(r)' = WrittenIn(run) /\ \A q \in Runs \ {r} : WrittenBy(q)' = WrittenBy(q)
    BY DEF OneRun, WrittenBy, WrittenIn
<1>2. \A q \in Runs : p \in WrittenBy(q)' <=> p \in WrittenBy(q)
    BY <1>1
<1>3. p \in Written' <=> p \in Written
    BY <1>2 DEF Written
<1>4. ASSUME NEW q \in Runs, p \in WrittenBy(q)'
      PROVE  RunLeads(runs'[q], p, v, fs'[p])
    <2>1. p \in WrittenBy(q) /\ RunLeads(runs[q], p, v, fs[p])
        BY <1>2, <1>4 DEF FlightFits
    <2>2. CASE q = r
        BY <2>1, <2>2 DEF OneRun
    <2>3. CASE q # r
        BY <2>1, <2>3 DEF OneRun
    <2>4. QED
        BY <2>2, <2>3
<1>5. ASSUME NEW q \in Runs, p \in runs'[q].call.todo
      PROVE  runs'[q].call.before[p] = Read(fs'[p])
    <2>1. CASE q = r
        BY <1>5, <2>1 DEF OneRun
    <2>2. CASE q # r
        <3>1. runs'[q] = runs[q]
            BY <2>2 DEF OneRun
        <3>2. QED
            BY <1>5, <3>1 DEF FlightFits
    <2>3. QED
        BY <2>1, <2>2
<1>6. p \notin Written' => fs'[p] = v
    BY <1>3 DEF FlightFits
<1>7. \A q, s \in Runs : p \in WrittenBy(q)' /\ p \in WrittenBy(s)' => s = q
    BY <1>2 DEF FlightFits
<1>8. QED
    BY <1>3, <1>4, <1>5, <1>6, <1>7 DEF FlightFits

\* So such a step keeps the contents.
LEMMA FitsOneRun ==
    ASSUME TypeInv, NEW r \in Runs, NEW run, OneRun(r, run), NEW p, Fitting(p), fs'[p] = fs[p],
           UNCHANGED <<store, job>>, base'[p] = base[p], tip'[p] = tip[p],
           p \in WrittenIn(run) <=> p \in WrittenBy(r),
           \A v : p \in WrittenBy(r) /\ RunLeads(runs[r], p, v, fs[p]) => RunLeads(run, p, v, fs[p]),
           p \in run.call.todo => run.call.before[p] = Read(fs[p])
    PROVE  Fitting(p)'
<1>1. PICK v \in Content : HistoryFits(p, v) /\ FlightFits(p, v)
    BY DEF Fitting
<1>2. FlightFits(p, v)' /\ (p \in Written' <=> p \in Written)
    BY <1>1, FlightOneRun
<1>3. HistoryFits(p, v)'
    BY <1>1, <1>2, HistoryKept
<1>4. QED
    BY <1>2, <1>3 DEF Fitting

LEMMA FitsCapture ==
    ASSUME UndoAssumption, TypeInv, NEW r \in Runs, NEW paths \in SUBSET Files, Capture(r, paths),
           NEW p \in Files, Fitting(p)
    PROVE  Fitting(p)'
<1>1. PICK run : run = [phase |-> "active", snapshots |-> runs[r].snapshots, call |-> Called(paths)]
    OBVIOUS
<1>2. runs[r].call = NoCall /\ OneRun(r, run)
    BY <1>1, CaptureRun
<1>3. /\ run.snapshots = runs[r].snapshots
      /\ run.call.todo = paths /\ run.call.wrote = <<>>
      /\ \A q \in paths : run.call.before[q] = Read(fs[q])
    BY <1>1 DEF Called
<1>4. Range(runs[r].call.wrote) = {} /\ Range(run.call.wrote) = {}
    BY <1>2, <1>3, EmptyTypes
<1>5. WrittenIn(run) = WrittenBy(r)
    BY <1>3, <1>4 DEF WrittenIn, WrittenBy
<1>6. \A v : RunLeads(runs[r], p, v, fs[p]) => RunLeads(run, p, v, fs[p])
    BY <1>3, <1>4 DEF RunLeads
<1>7. UNCHANGED <<fs, store, job, base, tip>>
    BY DEF Capture, ghosts
<1>8. QED
    BY <1>2, <1>3, <1>5, <1>6, <1>7, FitsOneRun

LEMMA FitsWriteFile ==
    ASSUME UndoAssumption, TypeInv, NEW r \in Runs, NEW q \in Files, NEW c \in Text,
           WriteFile(r, q, c), NEW p \in Files, p \notin dirty', Fitting(p)
    PROVE  Fitting(p)'
<1>1. PICK call \in WriteCall :
        /\ OneRun(r, [phase |-> "active", snapshots |-> runs[r].snapshots, call |-> call])
        /\ call.todo = runs[r].call.todo \ {q} /\ q \in runs[r].call.todo
        /\ call.wrote = Append(runs[r].call.wrote, q)
        /\ Range(call.wrote) = Range(runs[r].call.wrote) \cup {q}
        /\ call.before = runs[r].call.before
        /\ CallShape(call)
    BY WriteRun
<1> DEFINE run == [phase |-> "active", snapshots |-> runs[r].snapshots, call |-> call]
<1>2. /\ OneRun(r, run) /\ run.snapshots = runs[r].snapshots
      /\ run.call.todo = runs[r].call.todo \ {q} /\ q \in runs[r].call.todo
      /\ Range(run.call.wrote) = Range(runs[r].call.wrote) \cup {q}
      /\ run.call.before = runs[r].call.before
    BY <1>1
<1> HIDE DEF run
<1>3. UNCHANGED <<store, job, base, tip>> /\ fs' = [fs EXCEPT ![q] = c]
    BY DEF WriteFile
<1>4. CASE p # q
    <2>1. fs'[p] = fs[p]
        BY <1>3, <1>4 DEF TypeInv, TypeOK
    <2>2. p \in WrittenIn(run) <=> p \in WrittenBy(r)
        BY <1>2, <1>4 DEF WrittenIn, WrittenBy
    <2>3. \A v : RunLeads(runs[r], p, v, fs[p]) => RunLeads(run, p, v, fs[p])
        BY <1>2, <1>4 DEF RunLeads
    <2>4. p \in run.call.todo => run.call.before[p] = Read(fs[p])
        BY <1>2 DEF Fitting, FlightFits
    <2>5. QED
        BY <1>2, <1>3, <2>1, <2>2, <2>3, <2>4, FitsOneRun
<1>5. CASE p = q
    <2>1. PICK v \in Content : HistoryFits(p, v) /\ FlightFits(p, v)
        BY DEF Fitting
    <2>2. fs[p] \notin Binaries /\ \A o \in Runs \ {r} : p \notin HeldBy(o)
        BY <1>5 DEF WriteFile
    <2>3. fs[p] \in Content /\ Read(fs[p]) = fs[p] /\ fs'[p] = c
        BY <1>3, <1>5, <2>2, ReadFacts DEF TypeInv, TypeOK
    <2>4. runs[r].call.before[p] = fs[p]
        BY <1>2, <1>5, <2>1, <2>3 DEF FlightFits
    <2>5. p \notin Range(runs[r].call.wrote)
        BY <1>2, <1>5, RunTyped DEF RunShape, CallShape
    <2>6. Leads(runs[r].snapshots, "undo", p, v, fs[p])
        <3>1. CASE p \in WrittenBy(r)
            BY <2>1, <2>5, <3>1 DEF FlightFits, RunLeads
        <3>2. CASE p \notin WrittenBy(r)
            <4>1. p \notin Written
                BY <2>2, <3>2 DEF Written, HeldBy
            <4>2. fs[p] = v
                BY <2>1, <4>1 DEF FlightFits
            <4>3. p \notin PathsOf(runs[r].snapshots)
                BY <3>2 DEF WrittenBy
            <4>4. QED
                BY <4>2, <4>3, LeadsNowhere
        <3>3. QED
            BY <3>1, <3>2
    <2>7. RunLeads(run, p, v, fs'[p])
        BY <1>2, <1>5, <2>3, <2>4, <2>6 DEF RunLeads
    <2>8. /\ p \in WrittenBy(r)' /\ p \notin runs'[r].call.todo
          /\ \A o \in Runs \ {r} : p \notin WrittenBy(o)' /\ p \notin runs'[o].call.todo
        <3>1. runs'[r] = run /\ \A o \in Runs \ {r} : runs'[o] = runs[o]
            BY <1>2 DEF OneRun
        <3>2. QED
            BY <1>2, <1>5, <2>2, <3>1 DEF WrittenBy, HeldBy
    <2>9. p \in Written'
        BY <2>8 DEF Written
    <2>10. FlightFits(p, v)'
        <3>1. runs'[r] = run
            BY <1>2 DEF OneRun
        <3>2. QED
            BY <2>7, <2>8, <2>9, <3>1 DEF FlightFits
    <2>11. HistoryFits(p, v)'
        BY <1>3, <2>1, <2>9, HistoryKept
    <2>12. QED
        BY <2>10, <2>11 DEF Fitting
<1>6. QED
    BY <1>4, <1>5

LEMMA FitsCallFails ==
    ASSUME TypeInv, NEW r \in Runs, CallFails(r), NEW p \in Files, p \notin dirty', Fitting(p)
    PROVE  Fitting(p)'
<1>1. PICK run : run = [phase |-> "active", snapshots |-> runs[r].snapshots, call |-> NoCall]
    OBVIOUS
<1>2. OneRun(r, run) /\ run.snapshots = runs[r].snapshots /\ run.call = NoCall
    BY <1>1, CallFailsRun
<1>3. UNCHANGED <<fs, store, job, base, tip>> /\ p \notin Range(runs[r].call.wrote)
    BY DEF CallFails
<1>4. Range(run.call.wrote) = {} /\ run.call.todo = {}
    BY <1>2, EmptyTypes
<1>5. p \in WrittenIn(run) <=> p \in WrittenBy(r)
    BY <1>2, <1>3, <1>4 DEF WrittenIn, WrittenBy
<1>6. \A v : RunLeads(runs[r], p, v, fs[p]) => RunLeads(run, p, v, fs[p])
    BY <1>2, <1>3, <1>4 DEF RunLeads
<1>7. QED
    BY <1>2, <1>3, <1>4, <1>5, <1>6, FitsOneRun

\* A path's snapshots in a longer row are those in its parts.
LEMMA JoinLeads ==
    ASSUME NEW files \in Seq(FileSnapshot), NEW more \in Seq(FileSnapshot), NEW d, NEW p \in Files,
           NEW a, NEW b, NEW c, p \notin Twice(files \o more),
           Leads(files, d, p, a, b),
           p \notin PathsOf(more) => b = c,
           \A n \in DOMAIN more : more[n].path = p => Target(more[n], d) = b /\ Expected(more[n], d) = c
    PROVE  Leads(files \o more, d, p, a, c)
<1> DEFINE all == files \o more
<1>1. Len(files) \in Nat
    BY JoinFacts
<1>2. \A i \in DOMAIN all :
         \/ i \in DOMAIN files /\ all[i] = files[i]
         \/ i \notin DOMAIN files /\ i - Len(files) \in DOMAIN more /\ all[i] = more[i - Len(files)]
    BY JoinFacts
<1>3. \A i \in DOMAIN files : i \in DOMAIN all /\ all[i] = files[i]
    BY JoinFacts
<1>4. \A i \in DOMAIN more : i + Len(files) \in DOMAIN all \ DOMAIN files /\ all[i + Len(files)] = more[i]
    BY JoinFacts
<1> HIDE DEF all
<1>5. \A m, n \in DOMAIN all : all[m].path = p /\ all[n].path = p => m = n
    BY DEF Twice, all
<1>6. p \notin PathsOf(all) => a = c
    <2>1. ASSUME p \notin PathsOf(all)
          PROVE  p \notin PathsOf(files) /\ p \notin PathsOf(more)
        BY <1>3, <1>4, <2>1 DEF PathsOf
    <2>2. QED
        BY <2>1 DEF Leads
<1>7. ASSUME NEW m \in DOMAIN all, all[m].path = p
      PROVE  Target(all[m], d) = a /\ Expected(all[m], d) = c
    <2>1. CASE m \in DOMAIN files
        <3>1. all[m] = files[m]
            BY <1>3, <2>1
        <3>2. \A n \in DOMAIN more : more[n].path # p
            BY <1>4, <1>5, <1>7, <2>1
        <3>3. b = c
            BY <3>2 DEF PathsOf
        <3>4. QED
            BY <1>7, <2>1, <3>1, <3>3 DEF Leads
    <2>2. CASE m \notin DOMAIN files
        <3>1. m - Len(files) \in DOMAIN more /\ all[m] = more[m - Len(files)]
            BY <1>2, <1>7, <2>2
        <3>2. \A n \in DOMAIN files : files[n].path # p
            BY <1>3, <1>5, <1>7, <2>2
        <3>3. a = b
            BY <3>2 DEF Leads, PathsOf
        <3>4. QED
            BY <1>7, <3>1, <3>3
    <2>3. QED
        BY <2>1, <2>2
<1>8. QED
    BY <1>5, <1>6, <1>7 DEF Leads, all

LEMMA JoinPaths ==
    ASSUME NEW files \in Seq(FileSnapshot), NEW more \in Seq(FileSnapshot)
    PROVE  PathsOf(files \o more) = PathsOf(files) \cup PathsOf(more)
<1> DEFINE all == files \o more
<1>1. \A i \in DOMAIN all :
         \/ i \in DOMAIN files /\ all[i] = files[i]
         \/ i \notin DOMAIN files /\ i - Len(files) \in DOMAIN more /\ all[i] = more[i - Len(files)]
    BY JoinFacts
<1>2. \A i \in DOMAIN files : i \in DOMAIN all /\ all[i] = files[i]
    BY JoinFacts
<1>3. \A i \in DOMAIN more : i + Len(files) \in DOMAIN all /\ all[i + Len(files)] = more[i]
    BY JoinFacts
<1> HIDE DEF all
<1>4. PathsOf(all) \subseteq PathsOf(files) \cup PathsOf(more)
    BY <1>1 DEF PathsOf
<1>5. PathsOf(files) \subseteq PathsOf(all)
    BY <1>2 DEF PathsOf
<1>6. PathsOf(more) \subseteq PathsOf(all)
    BY <1>3 DEF PathsOf
<1>7. QED
    BY <1>4, <1>5, <1>6 DEF all

LEMMA FitsSnapshot ==
    ASSUME UndoAssumption, TypeInv, NEW r \in Runs, Snapshot(r), NEW p \in Files, p \notin Doomed',
           Fitting(p)
    PROVE  Fitting(p)'
<1> DEFINE call == runs[r].call
           old == runs[r].snapshots
<1>1. PICK run : run = [phase |-> "active", snapshots |-> old \o Taken(r), call |-> NoCall]
    OBVIOUS
<1>2. OneRun(r, run) /\ run.snapshots = old \o Taken(r) /\ run.call = NoCall
      /\ Taken(r) \in Seq(FileSnapshot) /\ old \in Seq(FileSnapshot)
    BY <1>1, SnapshotRun, RunTyped
<1>3. UNCHANGED <<fs, store, job, base, tip>>
    BY DEF Snapshot, ghosts
<1>4. /\ DOMAIN Taken(r) = DOMAIN call.wrote
      /\ \A n \in DOMAIN Taken(r) : /\ Taken(r)[n].path = call.wrote[n]
                                    /\ Taken(r)[n].before = call.before[call.wrote[n]]
                                    /\ Taken(r)[n].after = Read(fs[call.wrote[n]])
    BY DEF Taken
<1>5. PathsOf(Taken(r)) = Range(call.wrote)
    <2>1. DOMAIN Taken(r) = DOMAIN call.wrote
          /\ \A n \in DOMAIN Taken(r) : Taken(r)[n].path = call.wrote[n]
        BY <1>4
    <2>2. QED
        BY <2>1 DEF PathsOf, Range
<1>6. Range(run.call.wrote) = {} /\ run.call.todo = {}
    BY <1>2, EmptyTypes
<1>7. WrittenIn(run) = WrittenBy(r)
    <2>1. PathsOf(run.snapshots) = PathsOf(old) \cup PathsOf(Taken(r))
        BY <1>2, JoinPaths
    <2>2. QED
        BY <1>5, <1>6, <2>1 DEF WrittenIn, WrittenBy
<1>8. p \notin Twice(old \o Taken(r))
    BY <1>2 DEF Doomed, OneRun
<1>9. ASSUME NEW v, RunLeads(runs[r], p, v, fs[p])
      PROVE  RunLeads(run, p, v, fs[p])
    <2>1. PICK g \in Content :
            /\ Leads(old, "undo", p, v, g)
            /\ p \in Range(call.wrote) => call.before[p] = g /\ fs[p] \in Text
            /\ p \notin Range(call.wrote) => fs[p] = g
        BY <1>9 DEF RunLeads
    <2>2. ASSUME NEW n \in DOMAIN Taken(r), Taken(r)[n].path = p
          PROVE  Target(Taken(r)[n], "undo") = g /\ Expected(Taken(r)[n], "undo") = fs[p]
        <3>1. /\ call.wrote[n] = p /\ Taken(r)[n].before = call.before[p]
              /\ Taken(r)[n].after = Read(fs[p])
            BY <1>4, <2>2
        <3>2. p \in Range(call.wrote)
            BY <1>4, <2>2, <3>1 DEF Range
        <3>3. call.before[p] = g /\ Read(fs[p]) = fs[p]
            BY <2>1, <3>2, ReadFacts
        <3>4. QED
            BY <3>1, <3>3 DEF Target, Expected
    <2>3. p \notin PathsOf(Taken(r)) => g = fs[p]
        BY <1>5, <2>1
    <2> HIDE DEF old, call
    <2>4. Leads(run.snapshots, "undo", p, v, fs[p])
        BY <1>2, <1>8, <2>1, <2>2, <2>3, JoinLeads
    <2>5. fs[p] \in Content
        BY DEF TypeInv, TypeOK
    <2>6. QED
        BY <1>6, <2>4, <2>5 DEF RunLeads
<1>10. QED
    BY <1>2, <1>3, <1>6, <1>7, <1>9, FitsOneRun

LEMMA FitsEndRun ==
    ASSUME TypeInv, NEW r \in Runs, EndRun(r), NEW p \in Files, Fitting(p)
    PROVE  Fitting(p)'
<1>1. PICK run : run = IF runs[r].snapshots = <<>> THEN NoRun
                       ELSE [phase |-> "ended", snapshots |-> runs[r].snapshots, call |-> NoCall]
    OBVIOUS
<1>2. runs[r].call = NoCall /\ OneRun(r, run)
    BY <1>1, EndRunRun
<1>3. run.snapshots = runs[r].snapshots /\ run.call = NoCall
    BY <1>1, EmptyTypes
<1>4. run.call.todo = {} /\ WrittenIn(run) = WrittenBy(r)
    BY <1>2, <1>3, EmptyTypes DEF WrittenIn, WrittenBy
<1>5. \A v : RunLeads(runs[r], p, v, fs[p]) => RunLeads(run, p, v, fs[p])
    BY <1>2, <1>3 DEF RunLeads
<1>6. UNCHANGED <<fs, store, job, base, tip>>
    BY DEF EndRun, ghosts
<1>7. QED
    BY <1>2, <1>4, <1>5, <1>6, FitsOneRun

LEMMA FitsFailRun ==
    ASSUME TypeInv, NEW r \in Runs, FailRun(r), NEW p \in Files, p \notin dirty', Fitting(p)
    PROVE  Fitting(p)'
<1>1. /\ UNCHANGED <<fs, store, job, base, tip>> /\ p \notin PathsOf(runs[r].snapshots)
      /\ runs[r].call = NoCall /\ OneRun(r, NoRun)
    BY FailRunRun DEF FailRun
<1>2. p \notin WrittenBy(r) /\ p \notin WrittenIn(NoRun) /\ NoRun.call.todo = {}
    BY <1>1, EmptyTypes DEF WrittenBy, WrittenIn
<1>3. QED
    BY <1>1, <1>2, FitsOneRun

\* A commit moves the border between what is in flight and the history.
LEMMA FitsCommit ==
    ASSUME UndoAssumption, TypeInv, TypeInv', NEW r \in Runs, Commit(r), NEW p \in Files, Fitting(p)
    PROVE  Fitting(p)'
<1>1. PICK v \in Content : HistoryFits(p, v) /\ FlightFits(p, v)
    BY DEF Fitting
<1>2. PICK txn \in UndoTransaction : txn = Transaction(r) /\ txn.files = runs[r].snapshots
    BY CommitStep
<1>3. /\ UNCHANGED <<fs, job>> /\ tip' = fs /\ job.txn.files = <<>>
      /\ base' = [q \in Files |-> NewBase(q, Dropped(store, txn))]
      /\ store' = commit(store, txn)
    BY <1>2, CommitStep
<1>4. runs[r].call = NoCall /\ OneRun(r, NoRun)
    BY CommitRun
<1> DEFINE all == Append(store.undo, txn)
<1>5. /\ store \in UndoStore /\ store.undo \in Seq(UndoTransaction)
      /\ all \in Seq(UndoTransaction) /\ Len(all) \in Nat
    BY PushFacts, LenProperties DEF TypeInv, TypeOK, UndoStore
<1>6. PICK cut \in 0..Len(all) :
          store' = [undo |-> SubSeq(all, cut + 1, Len(all)), redo |-> <<>>]
    BY <1>3, <1>5, CommitFacts
<1>7. fs[p] \in Content /\ WrittenBy(r) = PathsOf(txn.files) /\ WrittenIn(NoRun) = {}
      /\ NoRun.call.todo = {}
    BY <1>2, <1>4, EmptyTypes DEF TypeInv, TypeOK, WrittenBy, WrittenIn
<1>8. PICK u \in Content : u = IF p \in WrittenBy(r) THEN fs[p] ELSE v
    BY <1>7
<1>9. Leads(txn.files, "undo", p, v, u)
    <2>1. CASE p \in WrittenBy(r)
        <3>1. RunLeads(runs[r], p, v, fs[p]) /\ Range(runs[r].call.wrote) = {}
            BY <1>1, <1>4, <2>1, EmptyTypes DEF FlightFits
        <3>2. QED
            BY <1>2, <1>8, <2>1, <3>1 DEF RunLeads
    <2>2. CASE p \notin WrittenBy(r)
        BY <1>7, <1>8, <2>2, LeadsNowhere
    <2>3. QED
        BY <2>1, <2>2
<1>10. FlightFits(p, u)' /\ (p \notin Written' => u = fs[p])
    <2>1. CASE p \in WrittenBy(r)
        <3>1. \A q \in Runs : p \notin WrittenBy(q)'
            <4>1. WrittenBy(r)' = {}
                BY <1>4, <1>7 DEF OneRun, WrittenBy, WrittenIn
            <4>2. \A q \in Runs \ {r} : WrittenBy(q)' = WrittenBy(q) /\ p \notin WrittenBy(q)
                BY <1>1, <1>4, <2>1 DEF OneRun, WrittenBy, FlightFits
            <4>3. QED
                BY <4>1, <4>2
        <3>2. ASSUME NEW q \in Runs, p \in runs'[q].call.todo
              PROVE  runs'[q].call.before[p] = Read(fs'[p])
            <4>1. q # r /\ runs'[q] = runs[q]
                BY <1>4, <1>7, <3>2 DEF OneRun
            <4>2. QED
                BY <1>1, <1>3, <3>2, <4>1 DEF FlightFits
        <3>3. QED
            BY <1>3, <1>8, <2>1, <3>1, <3>2 DEF FlightFits
    <2>2. CASE p \notin WrittenBy(r)
        <3>1. fs'[p] = fs[p] /\ u = v
            BY <1>3, <1>8, <2>2
        <3>2. FlightFits(p, v)'
            BY <1>1, <1>4, <1>7, <2>2, <3>1, FlightOneRun
        <3>3. QED
            BY <3>1, <3>2 DEF FlightFits
    <2>3. QED
        BY <2>1, <2>2
<1>11. AtRest(p, v)
    <2>1. p \notin PathsOf(job.txn.files)
        BY <1>3, EmptyTypes
    <2>2. QED
        BY <1>1, <2>1, RestFrom
<1>12. Chain(store["undo"], "undo", p, base[p], v)
    BY <1>11 DEF AtRest, Directions
<1>13. Chain(all, "undo", p, base[p], u)
    BY <1>5, <1>9, <1>12, ChainPush
<1> HIDE DEF all
<1>14. PICK b \in Content : /\ Chain(SubSeq(all, 1, cut), "undo", p, base[p], b)
                            /\ Chain(SubSeq(all, cut + 1, Len(all)), "undo", p, b, u)
    BY <1>5, <1>13, ChainCut
<1>15. base'[p] = b
    <2>1. Len(commit(store, txn).undo) = Len(all) - cut
        BY <1>3, <1>5, <1>6, SuffixFacts
    <2>2. Len(all) - (Len(all) - cut) = cut
        BY <1>5
    <2>3. Dropped(store, txn) = SubSeq(all, 1, cut)
        BY <2>1, <2>2 DEF Dropped, all
    <2>4. SubSeq(all, 1, cut) \in Seq(UndoTransaction)
        <3>1. \A i \in 1..cut : all[i] \in UndoTransaction
            BY <1>5, ElementsTyped
        <3>2. QED
            BY <1>5, <3>1, SubSeqProperties
    <2>5. NewBase(p, SubSeq(all, 1, cut)) = b
        BY <1>14, <2>4, ChainNewBase
    <2>6. QED
        BY <1>3, <2>3, <2>5
<1>16. AtRest(p, u)'
    <2> DEFINE far == [d \in Directions |-> IF d = "undo" THEN b ELSE u]
    <2>1. far \in [Directions -> Content] /\ far["undo"] = b /\ far["redo"] = u
        BY DEF Directions
    <2>2. store'["undo"] = SubSeq(all, cut + 1, Len(all)) /\ store'["redo"] = <<>>
        BY <1>6
    <2> HIDE DEF far
    <2>3. Chain(store'["undo"], "undo", p, far["undo"], u)
        BY <1>14, <2>1, <2>2
    <2>4. Chain(store'["redo"], "redo", p, far["redo"], u)
        BY <2>1, <2>2, ChainEmpty
    <2>5. \A d \in Directions : Chain(store'[d], d, p, far[d], u)
        BY <2>3, <2>4 DEF Directions
    <2>6. QED
        BY <1>3, <1>10, <1>15, <2>1, <2>5 DEF AtRest
<1>17. HistoryFits(p, u)'
    BY <1>3, <1>16, JobTyped, RestTo
<1>18. QED
    BY <1>10, <1>17 DEF Fitting

LEMMA FitsIdleJob ==
    ASSUME TypeInv, TypeInv', UNCHANGED <<fs, store, runs, base, tip>>,
           job'.txn = NoTransaction, NEW p \in Files, p \notin PathsOf(job.txn.files), Fitting(p)
    PROVE  Fitting(p)'
<1>1. PICK v \in Content : HistoryFits(p, v) /\ FlightFits(p, v)
    BY DEF Fitting
<1>2. AtRest(p, v)
    BY <1>1, RestFrom
<1>3. AtRest(p, v)'
    BY <1>2 DEF AtRest, Written, WrittenBy
<1>4. HistoryFits(p, v)'
    <2>1. job'.txn.files = <<>> /\ job'.direction \in Directions
        BY EmptyTypes DEF TypeInv, TypeOK, Job
    <2>2. QED
        BY <1>3, <2>1, RestTo
<1>5. FlightFits(p, v)'
    BY <1>1, FlightKept
<1>6. QED
    BY <1>4, <1>5 DEF Fitting

LEMMA FitsNextTransaction ==
    ASSUME TypeInv, NextTransaction, NEW p \in Files, Fitting(p)
    PROVE  Fitting(p)'
<1> DEFINE way == job.direction
<1>1. PICK v \in Content : HistoryFits(p, v) /\ FlightFits(p, v)
    BY DEF Fitting
<1>2. UNCHANGED <<fs, runs, base, tip>> /\ job.phase = "next"
    BY DEF NextTransaction
<1>3. /\ store[way] # <<>> /\ store[way] \in Seq(UndoTransaction)
      /\ job'.txn = Last(store[way]) /\ job'.at = 1 /\ job'.direction = way
      /\ store'[way] = Front(store[way]) /\ store'[Other(way)] = store[Other(way)]
      /\ way \in Directions /\ Other(way) \in Directions /\ way # Other(way)
      /\ \A d \in Directions : d = way \/ d = Other(way)
    BY TakeStep, JobTyped DEF Directions, Other
<1>4. AtRest(p, v)
    <2>1. p \notin PathsOf(job.txn.files)
        BY <1>2, EmptyTypes, EmptySeq DEF TypeInv, JobShape, PathsOf
    <2>2. QED
        BY <1>1, <2>1, RestFrom
<1> HIDE DEF way
<1>5. PICK far \in [Directions -> Content] :
        /\ far["undo"] = base[p] /\ (p \notin Written => far["redo"] = tip[p])
        /\ \A d \in Directions : Chain(store[d], d, p, far[d], v)
    BY <1>4 DEF AtRest
<1>6. PICK b \in Content : /\ Chain(Front(store[way]), way, p, far[way], b)
                           /\ Leads(Last(store[way]).files, way, p, b, v)
    BY <1>3, <1>5, ChainPop
<1> DEFINE near == [d \in Directions |-> IF d = way THEN b ELSE v]
<1>7. near \in [Directions -> Content] /\ near[way] = b /\ near[Other(way)] = v
    BY <1>3
<1> HIDE DEF near
<1>8. \A d \in Directions : Chain(store'[d], d, p, far[d], near[d])
    BY <1>3, <1>5, <1>6, <1>7
<1>9. Leads(job'.txn.files, job'.direction, p, near[job'.direction], near[Other(job'.direction)])
    BY <1>3, <1>6, <1>7
<1>10. ~Applied(p)'
    BY <1>3 DEF Applied
<1>11. Written' = Written
    BY <1>2 DEF Written, WrittenBy
<1>12. HistoryFits(p, v)'
    <2>1. v = IF Applied(p)' THEN near[job'.direction] ELSE near[Other(job'.direction)]
        BY <1>3, <1>7, <1>10
    <2>2. far["undo"] = base'[p] /\ (p \notin Written' => far["redo"] = tip'[p])
        BY <1>2, <1>5, <1>11
    <2>3. QED
        BY <1>7, <1>8, <1>9, <2>1, <2>2 DEF HistoryFits
<1>13. QED
    BY <1>1, <1>2, <1>12, FlightKept DEF Fitting

LEMMA FitsApplyFile ==
    ASSUME UndoAssumption, TypeInv, TypeInv', ApplyFile, NEW p \in Files, p \notin dirty', Fitting(p)
    PROVE  Fitting(p)'
<1> DEFINE way == job.direction
           q == job.txn.files[job.at].path
<1>1. PICK v \in Content : HistoryFits(p, v) /\ FlightFits(p, v)
    BY DEF Fitting
<1>2. /\ UNCHANGED <<runs, base, tip>> /\ job.phase = "apply"
      /\ dirty' = IF q \in InFlight THEN dirty \cup {q} ELSE dirty
    BY DEF ApplyFile
<1>3. /\ job.at \in DOMAIN job.txn.files /\ job.at \in Nat /\ job.at \in 1..job.at
      /\ DOMAIN job.txn.files = 1..Len(job.txn.files) /\ Len(job.txn.files) \in Nat
      /\ fs' = [fs EXCEPT ![q] = Target(job.txn.files[job.at], way)]
      /\ store'[way] = store[way] /\ job'.direction = way
      /\ way \in Directions /\ Other(way) \in Directions /\ way # Other(way)
      /\ \A d \in Directions : d = way \/ d = Other(way)
    <2>1. way \in Directions /\ Other(way) \in Directions /\ way # Other(way)
        BY JobTyped
    <2>2. \A d \in Directions : d = way \/ d = Other(way)
        BY <2>1 DEF Directions, Other
    <2>3. QED
        BY <2>1, <2>2, ApplyStep
<1>4. PICK near, far \in [Directions -> Content] :
        /\ far["undo"] = base[p] /\ (p \notin Written => far["redo"] = tip[p])
        /\ \A d \in Directions : Chain(store[d], d, p, far[d], near[d])
        /\ Leads(job.txn.files, way, p, near[way], near[Other(way)])
        /\ v = IF Applied(p) THEN near[way] ELSE near[Other(way)]
    BY <1>1 DEF HistoryFits
<1> HIDE DEF way
<1>5. PICK now \in Content : now = IF p = q THEN near[way] ELSE v
    BY <1>3, <1>4
<1>6. FlightFits(p, now)'
    <2>1. CASE p # q
        <3>1. fs'[p] = fs[p]
            BY <1>3, <2>1 DEF TypeInv, TypeOK
        <3>2. QED
            BY <1>1, <1>2, <1>5, <2>1, <3>1, FlightKept
    <2>2. CASE p = q
        <3>1. p \notin InFlight
            BY <1>2, <2>2
        <3>2. p \notin InFlight'
            BY <1>2, <3>1 DEF InFlight, HeldBy, WrittenBy
        <3>3. Target(job.txn.files[job.at], way) = near[way]
            BY <1>3, <1>4, <2>2 DEF Leads
        <3>4. fs'[p] = near[way]
            BY <1>3, <2>2, <3>3 DEF TypeInv, TypeOK
        <3>5. QED
            BY <1>5, <2>2, <3>2, <3>4, FlightIdle
    <2>3. QED
        BY <2>1, <2>2
<1>7. Written' = Written
    BY <1>2 DEF Written, WrittenBy
<1> HIDE DEF q
<1>8. CASE ~Through
    <2>1. job'.at = job.at + 1 /\ job'.txn = job.txn /\ store' = store
        BY <1>8, ApplyStep
    <2>2. Applied(p)' <=> Applied(p) \/ p = q
        <3>1. job'.at - 1 = job.at /\ \A n \in 1..job.at : n = job.at \/ n \in 1..job.at - 1
            BY <1>3, <2>1
        <3>2. \A n \in 1..job.at - 1 : n \in 1..job.at
            BY <1>3
        <3>3. Applied(p)' <=> \E n \in 1..job.at : job.txn.files[n].path = p
            BY <2>1, <3>1 DEF Applied
        <3>4. QED
            BY <1>3, <3>1, <3>2, <3>3 DEF Applied, q
    <2>3. now = IF Applied(p)' THEN near[way] ELSE near[Other(way)]
        BY <1>4, <1>5, <2>2
    <2>4. HistoryFits(p, now)'
        BY <1>2, <1>3, <1>4, <1>7, <2>1, <2>3 DEF HistoryFits
    <2>5. QED
        BY <1>5, <1>6, <2>4 DEF Fitting
<1>9. CASE Through
    <2>1. job'.txn = NoTransaction /\ store'[Other(way)] = Append(store[Other(way)], job.txn)
        BY <1>9, ApplyStep DEF way
    <2>2. now = near[way]
        <3>1. CASE p = q
            BY <1>5, <3>1
        <3>2. CASE p # q /\ p \in PathsOf(job.txn.files)
            <4>1. PICK n \in DOMAIN job.txn.files : job.txn.files[n].path = p
                BY <3>2 DEF PathsOf
            <4>2. n \in 1..job.at - 1
                BY <1>3, <1>9, <3>2, <4>1 DEF Through, q
            <4>3. Applied(p)
                BY <4>1, <4>2 DEF Applied
            <4>4. QED
                BY <1>4, <1>5, <3>2, <4>3
        <3>3. CASE p # q /\ p \notin PathsOf(job.txn.files)
            BY <1>4, <1>5, <3>3, LeadsNowhere
        <3>4. QED
            BY <3>1, <3>2, <3>3
    <2>3. Leads(job.txn.files, Other(way), p, near[Other(way)], near[way])
        BY <1>3, <1>4, LeadsBack
    <2>4. Chain(store'[Other(way)], Other(way), p, far[Other(way)], now)
        <3>1. store[Other(way)] \in Seq(UndoTransaction) /\ job.txn \in UndoTransaction
            BY <1>3, JobTyped
        <3>2. Chain(store[Other(way)], Other(way), p, far[Other(way)], near[Other(way)])
            BY <1>3, <1>4
        <3>3. Leads(job.txn.files, Other(way), p, near[Other(way)], now)
            BY <2>2, <2>3
        <3>4. QED
            BY <1>5, <2>1, <3>1, <3>2, <3>3, ChainPush
    <2>5. \A d \in Directions : Chain(store'[d], d, p, far[d], now)
        BY <1>3, <1>4, <2>2, <2>4
    <2>6. AtRest(p, now)'
        BY <1>2, <1>4, <1>7, <2>5 DEF AtRest
    <2>7. HistoryFits(p, now)'
        BY <1>3, <1>5, <2>1, <2>6, EmptyTypes, RestTo
    <2>8. QED
        BY <1>5, <1>6, <2>7 DEF Fitting
<1>10. QED
    BY <1>8, <1>9

LEMMA FitsForeignWrite ==
    ASSUME TypeInv, TypeInv', NEW q \in Files, NEW c \in Content, ForeignWrite(q, c),
           NEW p \in Files, p \notin dirty', Fitting(p)
    PROVE  Fitting(p)'
<1>1. UNCHANGED <<store, runs, job>> /\ fs' = [fs EXCEPT ![q] = c]
    BY DEF ForeignWrite
<1>2. CASE p # q
    <2>1. fs'[p] = fs[p] /\ base'[p] = base[p] /\ tip'[p] = tip[p]
        BY <1>2 DEF ForeignWrite, TypeInv, TypeOK
    <2>2. Written' = Written
        BY <1>1 DEF Written, WrittenBy
    <2>3. QED
        BY <1>1, <2>1, <2>2, HistoryKept, FlightKept DEF Fitting
<1>3. CASE p = q
    <2>1. p \notin Recorded
        BY <1>3 DEF ForeignWrite
    <2>2. fs'[p] = c /\ base'[p] = c /\ tip'[p] = c
        BY <1>3, <2>1 DEF ForeignWrite, TypeInv, TypeOK
    <2>3. p \notin InFlight'
        BY <1>1, <2>1 DEF Recorded, InFlight, HeldBy, WrittenBy
    <2>4. FlightFits(p, c)'
        BY <2>2, <2>3, FlightIdle
    <2>5. HistoryFits(p, c)'
        <3> DEFINE same == [d \in Directions |-> c]
        <3>1. same \in [Directions -> Content] /\ \A d \in Directions : same[d] = c
            OBVIOUS
        <3>2. job.direction \in Directions /\ Other(job.direction) \in Directions
            BY JobTyped
        <3> HIDE DEF same
        <3>3. \A d \in Directions : Chain(store'[d], d, p, same[d], same[d])
            <4>1. TAKE d \in Directions
            <4>2. store[d] \in Seq(UndoTransaction) /\ p \notin StackPaths(store[d])
                BY <2>1, JobTyped DEF Recorded, StorePaths, Directions
            <4>3. Chain(store[d], d, p, c, c)
                BY <4>2, ChainConstant
            <4>4. QED
                BY <1>1, <3>1, <4>3
        <3>4. Leads(job'.txn.files, job'.direction, p, same[job'.direction], same[Other(job'.direction)])
            BY <1>1, <2>1, <3>1, <3>2, LeadsNowhere DEF Recorded
        <3>5. same["undo"] = base'[p] /\ same["redo"] = tip'[p]
            BY <2>2, <3>1 DEF Directions
        <3>6. c = IF Applied(p)' THEN same[job'.direction] ELSE same[Other(job'.direction)]
            BY <1>1, <3>1, <3>2
        <3>7. QED
            BY <3>1, <3>3, <3>4, <3>5, <3>6 DEF HistoryFits
    <2>6. QED
        BY <2>4, <2>5 DEF Fitting
<1>4. QED
    BY <1>2, <1>3

LEMMA FitsRestart ==
    ASSUME TypeInv, TypeInv', Restart, NEW p \in Files, p \notin dirty', Fitting(p)
    PROVE  Fitting(p)'
<1>1. PICK v \in Content : HistoryFits(p, v) /\ FlightFits(p, v)
    BY DEF Fitting
<1>2. /\ UNCHANGED <<fs, base, tip>> /\ store' = saved
      /\ (\A r \in Runs : runs'[r] = NoRun) /\ job' = NoJob
    BY DEF Restart
<1>3. p \notin Written /\ p \notin PathsOf(job.txn.files)
    BY DEF Restart, Written
<1>4. store = saved \/ p \notin StorePaths(store) \cup StorePaths(saved)
    BY DEF Restart
<1>5. fs[p] = v
    BY <1>1, <1>3 DEF FlightFits
<1>6. PICK far \in [Directions -> Content] :
        /\ far["undo"] = base[p] /\ far["redo"] = tip[p]
        /\ \A d \in Directions : Chain(store[d], d, p, far[d], v)
    BY <1>1, <1>3, RestFrom DEF AtRest
<1>7. \A d \in Directions : Chain(store'[d], d, p, far[d], v)
    <2>1. CASE store = saved
        BY <1>2, <1>6, <2>1
    <2>2. CASE p \notin StorePaths(store) \cup StorePaths(saved)
        <3>1. TAKE d \in Directions
        <3>2. /\ store[d] \in Seq(UndoTransaction) /\ saved[d] \in Seq(UndoTransaction)
              /\ p \notin StackPaths(store[d]) /\ p \notin StackPaths(saved[d])
            BY <2>2, JobTyped DEF StorePaths, Directions, TypeInv, TypeOK, UndoStore
        <3>3. far[d] = v
            BY <1>6, <3>2, ChainUntouched
        <3>4. Chain(saved[d], d, p, v, v)
            BY <3>2, ChainConstant
        <3>5. QED
            BY <1>2, <3>3, <3>4
    <2>3. QED
        BY <1>4, <2>1, <2>2
<1>8. AtRest(p, v)'
    BY <1>2, <1>6, <1>7 DEF AtRest
<1>9. HistoryFits(p, v)'
    BY <1>2, <1>8, RestTo, EmptyTypes DEF NoJob, Directions
<1>10. FlightFits(p, v)'
    <2>1. InFlight' = {}
        BY <1>2, EmptyTypes DEF InFlight, HeldBy, WrittenBy
    <2>2. QED
        BY <1>2, <1>5, <2>1, FlightIdle
<1>11. QED
    BY <1>9, <1>10 DEF Fitting

\* A file the history does not answer for stays so.
LEMMA DoomedGrows ==
    ASSUME UndoAssumption, TypeInv, [Next]_vars
    PROVE  dirty \cup Doomed \subseteq (dirty \cup Doomed)'
<1>1. Twice(<<>>) = {}
    BY EmptyTypes, TwicePaths
<1>2. ASSUME NEW r \in Runs, NEW run, OneRun(r, run), dirty \subseteq dirty',
             Twice(runs[r].snapshots) \subseteq Twice(run.snapshots) \cup dirty'
      PROVE  dirty \cup Doomed \subseteq (dirty \cup Doomed)'
    <2>1. ASSUME NEW q \in Runs
          PROVE  Twice(runs[q].snapshots) \subseteq Twice(runs'[q].snapshots) \cup dirty'
        <3>1. CASE q = r
            BY <1>2, <3>1 DEF OneRun
        <3>2. CASE q # r
            BY <1>2, <3>2 DEF OneRun
        <3>3. QED
            BY <3>1, <3>2
    <2>2. QED
        BY <1>2, <2>1 DEF Doomed
<1>3. ASSUME NEW r \in Runs, NEW paths \in SUBSET Files, Capture(r, paths)
      PROVE  dirty \cup Doomed \subseteq (dirty \cup Doomed)'
    <2>1. PICK run : run = [phase |-> "active", snapshots |-> runs[r].snapshots,
                            call |-> Called(paths)]
        OBVIOUS
    <2>2. OneRun(r, run) /\ run.snapshots = runs[r].snapshots
        BY <1>3, <2>1, CaptureRun
    <2>3. dirty' = dirty
        BY <1>3 DEF Capture, ghosts
    <2>4. QED
        BY <1>2, <2>2, <2>3
<1>4. ASSUME NEW r \in Runs, NEW p \in Files, NEW c \in Text, WriteFile(r, p, c)
      PROVE  dirty \cup Doomed \subseteq (dirty \cup Doomed)'
    <2>1. \A q \in Runs : runs'[q].snapshots = runs[q].snapshots
        BY <1>4 DEF WriteFile, TypeInv, TypeOK, AgentRun
    <2>2. dirty \subseteq dirty'
        BY <1>4 DEF WriteFile
    <2>3. QED
        BY <2>1, <2>2 DEF Doomed
<1>5. ASSUME NEW r \in Runs, CallFails(r)
      PROVE  dirty \cup Doomed \subseteq (dirty \cup Doomed)'
    <2>1. \A q \in Runs : runs'[q].snapshots = runs[q].snapshots
        BY <1>5 DEF CallFails, TypeInv, TypeOK, AgentRun
    <2>2. dirty \subseteq dirty'
        BY <1>5 DEF CallFails
    <2>3. QED
        BY <2>1, <2>2 DEF Doomed
<1>6. ASSUME NEW r \in Runs, Snapshot(r)
      PROVE  dirty \cup Doomed \subseteq (dirty \cup Doomed)'
    <2>1. PICK run : run = [phase |-> "active", snapshots |-> runs[r].snapshots \o Taken(r),
                            call |-> NoCall]
        OBVIOUS
    <2>2. /\ OneRun(r, run) /\ run.snapshots = runs[r].snapshots \o Taken(r)
          /\ runs[r].snapshots \in Seq(FileSnapshot) /\ Taken(r) \in Seq(FileSnapshot)
        BY <1>6, <2>1, SnapshotRun, RunTyped
    <2>3. \A i \in DOMAIN runs[r].snapshots :
             i \in DOMAIN run.snapshots /\ run.snapshots[i] = runs[r].snapshots[i]
        BY <2>2, JoinFacts
    <2>4. Twice(runs[r].snapshots) \subseteq Twice(run.snapshots)
        BY <2>3 DEF Twice
    <2>5. dirty' = dirty
        BY <1>6 DEF Snapshot, ghosts
    <2>6. QED
        BY <1>2, <2>2, <2>4, <2>5
<1>7. ASSUME NEW r \in Runs, EndRun(r)
      PROVE  dirty \cup Doomed \subseteq (dirty \cup Doomed)'
    <2>1. PICK run : run = IF runs[r].snapshots = <<>> THEN NoRun
                           ELSE [phase |-> "ended", snapshots |-> runs[r].snapshots, call |-> NoCall]
        OBVIOUS
    <2>2. OneRun(r, run) /\ run.snapshots = runs[r].snapshots
        BY <1>7, <2>1, EndRunRun, EmptyTypes
    <2>3. dirty' = dirty
        BY <1>7 DEF EndRun, ghosts
    <2>4. QED
        BY <1>2, <2>2, <2>3
<1>8. ASSUME NEW r \in Runs, FailRun(r) \/ Commit(r)
      PROVE  dirty \cup Doomed \subseteq (dirty \cup Doomed)'
    <2>1. OneRun(r, NoRun)
        BY <1>8, FailRunRun, CommitRun
    <2>2. dirty \subseteq dirty' /\ Twice(runs[r].snapshots) \subseteq dirty'
        BY <1>8, TwicePaths, CommitStep DEF FailRun
    <2>3. QED
        BY <1>2, <2>1, <2>2
<1>9. CASE Restart
    <2>1. Written \cup dirty \subseteq dirty'
        BY <1>9 DEF Restart, Written
    <2>2. Doomed \subseteq Written
        BY TwicePaths DEF Doomed, Written, WrittenBy
    <2>3. QED
        BY <2>1, <2>2
<1>10. CASE \/ JobSteps \/ UNCHANGED vars
            \/ \E d \in Directions, n \in 1..MaxCount, force \in BOOLEAN : Command(d, n, force)
            \/ \E p \in Files, c \in Content : ForeignWrite(p, c)
    <2>1. runs' = runs /\ dirty \subseteq dirty'
        BY <1>10 DEF JobSteps, NextTransaction, ApplyFile, ApplyFails, CommandEnds, Command,
           ForeignWrite, vars, ghosts
    <2>2. QED
        BY <2>1 DEF Doomed
<1>11. QED
    BY <1>3, <1>4, <1>5, <1>6, <1>7, <1>8, <1>9, <1>10 DEF Next, RunSteps

LEMMA ChainInit == ASSUME UndoAssumption, Init PROVE ChainInv
<1>1. SUFFICES ASSUME NEW p \in Files
               PROVE  \E v \in Content : HistoryFits(p, v) /\ FlightFits(p, v)
    BY DEF ChainInv
<1>2. PICK v \in Content : v = fs[p]
    BY DEF Init
<1>3. /\ store = EmptyStore /\ job = NoJob /\ (\A r \in Runs : runs[r] = NoRun)
      /\ base = fs /\ tip = fs
    BY DEF Init
<1>4. Chain(<<>>, "undo", p, v, v) /\ Chain(<<>>, "redo", p, v, v)
    BY ChainEmpty
<1>5. HistoryFits(p, v)
    <2> DEFINE same == [d \in Directions |-> v]
    <2>1. same \in [Directions -> Content] /\ same["undo"] = v /\ same["redo"] = v
        BY DEF Directions
    <2> HIDE DEF same
    <2>2. \A d \in Directions : Chain(store[d], d, p, same[d], same[d])
        BY <1>3, <1>4, <2>1, EmptyTypes DEF Directions, EmptyStore
    <2>3. /\ job.txn.files = <<>> /\ job.direction \in Directions
          /\ Other(job.direction) \in Directions
        BY <1>3, EmptyTypes DEF NoJob, Directions, Other
    <2>4. \A d \in Directions : same[d] = v
        BY <2>1 DEF Directions
    <2>5. Leads(job.txn.files, job.direction, p, same[job.direction], same[Other(job.direction)])
        BY <2>3, <2>4, LeadsEmpty
    <2>6. QED
        BY <1>2, <1>3, <2>1, <2>2, <2>3, <2>4, <2>5 DEF HistoryFits
<1>6. FlightFits(p, v)
    <2>1. \A r \in Runs : WrittenBy(r) = {} /\ runs[r].call.todo = {}
        BY <1>3, EmptyTypes DEF WrittenBy
    <2>2. QED
        BY <1>2, <2>1 DEF FlightFits, Written
<1>7. QED
    BY <1>5, <1>6

LEMMA ChainStep == ASSUME UndoAssumption, TypeInv, ChainInv, [Next]_vars PROVE ChainInv'
<1>1. TypeInv'
    BY TypeStep
<1>2. SUFFICES ASSUME NEW p \in Files, p \notin dirty', p \notin Doomed'
               PROVE  Fitting(p)'
    BY DEF ChainInv, Fitting
<1>3. Fitting(p)
    BY <1>2, DoomedGrows DEF ChainInv, Fitting
<1>4. ASSUME NEW r \in Runs, RunSteps(r)
      PROVE  Fitting(p)'
    BY <1>2, <1>3, <1>4, FitsCallFails, FitsSnapshot, FitsEndRun, FitsFailRun, FitsCapture,
       FitsWriteFile DEF RunSteps
<1>5. ASSUME NEW r \in Runs, Commit(r)
      PROVE  Fitting(p)'
    BY <1>1, <1>3, <1>5, FitsCommit
<1>6. ASSUME NEW d \in Directions, NEW n \in 1..MaxCount, NEW force \in BOOLEAN, Command(d, n, force)
      PROVE  Fitting(p)'
    <2>1. UNCHANGED <<fs, store, runs, base, tip>> /\ job'.txn = NoTransaction
          /\ job.txn = NoTransaction
        BY <1>6 DEF Command, NoJob, ghosts, TypeInv, JobShape
    <2>2. p \notin PathsOf(job.txn.files)
        BY <2>1, EmptyTypes, EmptySeq DEF PathsOf
    <2>3. QED
        BY <1>1, <1>3, <2>1, <2>2, FitsIdleJob
<1>7. CASE NextTransaction
    BY <1>3, <1>7, FitsNextTransaction
<1>8. CASE ApplyFile
    BY <1>1, <1>2, <1>3, <1>8, FitsApplyFile
<1>9. CASE ApplyFails \/ CommandEnds
    <2>1. UNCHANGED <<fs, store, runs, base, tip>> /\ job'.txn = NoTransaction
        BY <1>9 DEF ApplyFails, CommandEnds, NoJob, ghosts
    <2>2. p \notin PathsOf(job.txn.files)
        <3>1. CASE ApplyFails
            BY <1>2, <3>1 DEF ApplyFails
        <3>2. CASE CommandEnds
            BY <3>2, EmptyTypes, EmptySeq DEF CommandEnds, TypeInv, JobShape, PathsOf
        <3>3. QED
            BY <1>9, <3>1, <3>2
    <2>3. QED
        BY <1>1, <1>3, <2>1, <2>2, FitsIdleJob
<1>10. ASSUME NEW q \in Files, NEW c \in Content, ForeignWrite(q, c)
       PROVE  Fitting(p)'
    BY <1>1, <1>2, <1>3, <1>10, FitsForeignWrite
<1>11. CASE Restart
    BY <1>1, <1>2, <1>3, <1>11, FitsRestart
<1>12. CASE UNCHANGED vars
    BY <1>3, <1>12, HistoryKept, FlightKept DEF vars, ghosts, Fitting, Written, WrittenBy
<1>13. QED
    BY <1>4, <1>5, <1>6, <1>7, <1>8, <1>9, <1>10, <1>11, <1>12 DEF Next, JobSteps

\* The contents fit in every state.
LEMMA Chained == Spec => [](TypeInv /\ ChainInv)
<1>1. Init => TypeInv /\ ChainInv
    BY InitTypes, ChainInit, UndoAssumption
<1>2. TypeInv /\ ChainInv /\ [Next]_vars => (TypeInv /\ ChainInv)'
    BY TypeStep, ChainStep, UndoAssumption
<1>3. QED
    BY <1>1, <1>2, PTL DEF Spec

\* What the invariant says of a file that the history answers for now.
LEMMA KnownFits ==
    ASSUME TypeInv, ChainInv, NEW p \in Known
    PROVE  \E far \in [Directions -> Content] :
             /\ far["undo"] = base[p] /\ far["redo"] = tip[p]
             /\ \A d \in Directions : Chain(store[d], d, p, far[d], fs[p])
<1>1. /\ p \in Files /\ p \notin dirty /\ p \notin InFlight /\ p \notin PathsOf(job.txn.files)
      /\ p \notin Written
    BY WrittenInFlight DEF Known
<1>2. p \notin Doomed
    BY <1>1, TwicePaths DEF Written, WrittenBy, Doomed
<1>3. PICK v \in Content : HistoryFits(p, v) /\ FlightFits(p, v)
    BY <1>1, <1>2 DEF ChainInv
<1>4. fs[p] = v
    BY <1>1, <1>3 DEF FlightFits
<1>5. QED
    BY <1>1, <1>3, <1>4, RestFrom DEF AtRest

LEMMA RestoresWell == ASSUME TypeInv, ChainInv PROVE UndoRestores /\ RedoRestores
<1>1. ASSUME NEW p \in Known
      PROVE  /\ p \notin StackPaths(store.undo) => fs[p] = base[p]
             /\ p \notin StackPaths(store.redo) => fs[p] = tip[p]
    <2>1. PICK far \in [Directions -> Content] :
             /\ far["undo"] = base[p] /\ far["redo"] = tip[p]
             /\ \A d \in Directions : Chain(store[d], d, p, far[d], fs[p])
        BY <1>1, KnownFits
    <2>2. Chain(store.undo, "undo", p, base[p], fs[p]) /\ Chain(store.redo, "redo", p, tip[p], fs[p])
        BY <2>1 DEF Directions
    <2>3. store.undo \in Seq(UndoTransaction) /\ store.redo \in Seq(UndoTransaction)
        BY DEF TypeInv, TypeOK, UndoStore
    <2>4. QED
        BY <2>2, <2>3, ChainUntouched
<1>2. QED
    BY <1>1 DEF UndoRestores, RedoRestores

LEMMA FitsWell == ASSUME TypeInv, ChainInv PROVE ChainsFit
<1>1. SUFFICES ASSUME NEW p \in Known, NEW d \in Directions
               PROVE  LET at == Having(store[d], p)
                          leads(n) == Target(SnapshotOf(store[d][n], p), d)
                          leaves(n) == Expected(SnapshotOf(store[d][n], p), d)
                      IN  /\ \A n \in at : (\A m \in at : m <= n) => leaves(n) = fs[p]
                          /\ \A m, n \in at : m < n /\ (\A k \in at : k <= m \/ n <= k) =>
                                leaves(m) = leads(n)
    BY DEF ChainsFit, Fits
<1> DEFINE stack == store[d]
           at == Having(stack, p)
<1>2. stack \in Seq(UndoTransaction) /\ Len(stack) \in Nat /\ DOMAIN stack = 1..Len(stack)
    BY JobTyped, LenProperties
<1>3. PICK held : Holds(stack, d, p, held) /\ held[Len(stack)] = fs[p]
    BY KnownFits DEF Chain, Holds
<1>4. \A n \in at : n \in 1..Len(stack) /\ p \in PathsOf(stack[n].files)
    BY <1>2 DEF Having
<1>5. \A n \in at : /\ Target(SnapshotOf(stack[n], p), d) = held[n - 1]
                    /\ Expected(SnapshotOf(stack[n], p), d) = held[n]
    <2>1. TAKE n \in at
    <2>2. Leads(stack[n].files, d, p, held[n - 1], held[n])
        BY <1>3, <1>4 DEF Holds
    <2> HIDE DEF stack, at
    <2>3. QED
        BY <1>4, <2>2, LeadsSnapshot
<1> HIDE DEF stack, at
<1>6. ASSUME NEW n \in at, \A m \in at : m <= n
      PROVE  Expected(SnapshotOf(stack[n], p), d) = fs[p]
    <2>1. n \in 0..Len(stack) /\ Len(stack) \in n..Len(stack)
          /\ \A k \in n + 1..Len(stack) : k \notin at
        BY <1>2, <1>4, <1>6
    <2>2. held[n] = held[Len(stack)]
        BY <1>2, <1>3, <2>1, HoldsStill DEF at
    <2>3. QED
        BY <1>3, <1>5, <2>2
<1>7. ASSUME NEW m \in at, NEW n \in at, m < n, \A k \in at : k <= m \/ n <= k
      PROVE  Expected(SnapshotOf(stack[m], p), d) = Target(SnapshotOf(stack[n], p), d)
    <2>1. m \in 0..Len(stack) /\ n - 1 \in m..Len(stack)
          /\ \A k \in m + 1..n - 1 : k \notin at
        BY <1>2, <1>4, <1>7
    <2>2. held[m] = held[n - 1]
        BY <1>2, <1>3, <2>1, HoldsStill DEF at
    <2>3. QED
        BY <1>5, <2>2
<1>8. QED
    BY <1>6, <1>7 DEF stack, at

\* UndoGivesBack: a file that no retained transaction is left to undo holds what it
\* held before the oldest of them, if nobody else has changed it, no run edited it
\* twice and no two runs at once, and it held text whenever it was edited.
THEOREM UndoGivesBack == Spec => []UndoRestores
<1>1. TypeInv /\ ChainInv => UndoRestores
    BY RestoresWell
<1>2. QED
    BY <1>1, Chained, PTL

\* RedoGivesBack: with none left to redo, such a file holds what the agent left.
THEOREM RedoGivesBack == Spec => []RedoRestores
<1>1. TypeInv /\ ChainInv => RedoRestores
    BY RestoresWell
<1>2. QED
    BY <1>1, Chained, PTL

\* NeverConflicts: the snapshots of such a file fit its content and each other, so
\* that neither stack conflicts over it.
THEOREM NeverConflicts == Spec => []ChainsFit
<1>1. TypeInv /\ ChainInv => ChainsFit
    BY FitsWell
<1>2. QED
    BY <1>1, Chained, PTL

=============================================================================
