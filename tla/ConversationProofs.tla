-------------------------- MODULE ConversationProofs --------------------------
(***************************************************************************)
(* The order of a history holds for any number of prompts, session         *)
(* commands and turns kept by a compaction, with runs beside one another.  *)
(* Prompts are numbered as they are submitted, wait in one queue, and a    *)
(* run's snapshot is taken when its prompt leaves the queue, so every      *)
(* history anybody holds is older than every prompt still in the queue.    *)
(***************************************************************************)
EXTENDS Conversation, SequenceTheorems, TLAPS

Kinds == {"submit", "cancel", "new", "clear", "fork", "resume", "compact"}
RunKinds == {"state", "completed", "cancelled"}
RunPhases == {"none", "running", "finishing", "recorded", "ended"}
Turns == Seq(Nat)
Commands == {c \in [kind : Kinds, arg : Nat] : c.kind = "resume" => c.arg \in Sessions}
RunTypes == [phase : RunPhases, base : Turns, backlog : Seq(RunKinds), states : Nat,
             cancelled : BOOLEAN]

ConvTypes ==
  /\ commands \in Seq(Commands)
  /\ submitted \in Nat
  /\ runs \in [Prompts -> RunTypes]
  /\ current \in [id : Nat, history : Turns]
  /\ created \in Nat
  /\ disk \in [Sessions -> Turns \cup {NoFile}]
  /\ resuming \in [id : Nat, history : Turns, saved : BOOLEAN]
  /\ compactions \in Seq(Turns)

\* Every history somebody holds.
Held ==
  {current.history, resuming.history}
    \cup {disk[s] : s \in {t \in Sessions : disk[t] # NoFile}}
    \cup {runs[p].base : p \in Prompts}
    \cup {compactions[i] : i \in DOMAIN compactions}

Ordered(h) == \A i, j \in DOMAIN h : i < j /\ h[j] # Summary => h[i] < h[j]
Below(h, n) == \A i \in DOMAIN h : h[i] < n

Submits == {k \in DOMAIN commands : commands[k].kind = "submit"}

HeldOrdered == \A h \in Held : Ordered(h) /\ Below(h, submitted + 1)

\* A prompt in the queue is younger than every history, every run, and every
\* prompt before it.
QueueYounger ==
  \A k \in Submits :
    /\ commands[k].arg \in 1 .. submitted
    /\ \A h \in Held : Below(h, commands[k].arg)
    /\ \A p \in Prompts : runs[p].phase # "none" => p < commands[k].arg
    /\ \A j \in Submits : j < k => commands[j].arg < commands[k].arg

RunsYounger ==
  \A p \in Prompts : runs[p].phase # "none" => p <= submitted /\ Below(runs[p].base, p)

ConvInv == ConvTypes /\ HeldOrdered /\ QueueYounger /\ RunsYounger

-----------------------------------------------------------------------------
(* What a step of any kind may do *)

\* The queue as it is, without its head, or with something else at its end.
QueueMoves ==
  \/ commands' = commands
  \/ commands # <<>> /\ commands' = Tail(commands)
  \/ \E c \in Commands : c.kind # "submit" /\ commands' = Append(commands, c)

LEMMA QueueMoved ==
  ASSUME ConvTypes, QueueMoves
  PROVE  /\ commands' \in Seq(Commands)
         /\ \E d \in {0, 1} : \A k \in Submits' :
              k + d \in Submits /\ commands'[k] = commands[k + d]
<1>1. commands \in Seq(Commands)
  BY DEF ConvTypes
<1>2. CASE commands' = commands
  <2>1. \A k \in Submits' : k + 0 \in Submits /\ commands'[k] = commands[k + 0]
    BY <1>1, <1>2 DEF Submits
  <2> QED
    BY <1>1, <1>2, <2>1
<1>3. CASE commands # <<>> /\ commands' = Tail(commands)
  <2>1. /\ commands' \in Seq(Commands)
        /\ \A k \in DOMAIN commands' :
             k + 1 \in DOMAIN commands /\ commands'[k] = commands[k + 1]
    BY <1>1, <1>3
  <2>2. \A k \in Submits' : k + 1 \in Submits /\ commands'[k] = commands[k + 1]
    BY <2>1 DEF Submits
  <2> QED
    BY <2>1, <2>2
<1>4. CASE \E c \in Commands : c.kind # "submit" /\ commands' = Append(commands, c)
  <2>1. PICK c \in Commands : c.kind # "submit" /\ commands' = Append(commands, c)
    BY <1>4
  <2>2. /\ commands' \in Seq(Commands)
        /\ \A k \in DOMAIN commands' :
             \/ k \in DOMAIN commands /\ commands'[k] = commands[k]
             \/ commands'[k] = c
        /\ DOMAIN commands' \subseteq Nat
    <3>1. Len(commands') = Len(commands) + 1 /\ commands' \in Seq(Commands)
      BY <1>1, <2>1
    <3>2. \A k \in 1 .. Len(commands) : commands'[k] = commands[k]
      BY <1>1, <2>1
    <3>3. commands'[Len(commands) + 1] = c
      BY <1>1, <2>1
    <3>4. \A k \in DOMAIN commands' : k \in 1 .. Len(commands) \/ k = Len(commands) + 1
      BY <1>1, <3>1
    <3> QED
      BY <1>1, <3>1, <3>2, <3>3, <3>4
  <2>3. \A k \in Submits' : k + 0 \in Submits /\ commands'[k] = commands[k + 0]
    BY <2>1, <2>2 DEF Submits
  <2> QED
    BY <2>2, <2>3
<1> QED
  BY <1>2, <1>3, <1>4 DEF QueueMoves

\* No prompt begins; at most one new history appears, and it keeps the order.
LEMMA Keeps ==
  ASSUME ConvInv, ConvTypes', QueueMoves, submitted' = submitted,
         NEW h, Ordered(h), Below(h, submitted + 1),
         \A k \in Submits : Below(h, commands[k].arg),
         Held' \subseteq Held \cup {h},
         \A p \in Prompts : runs'[p].phase # "none" =>
           runs[p].phase # "none" /\ runs'[p].base = runs[p].base
  PROVE  ConvInv'
<1>1. HeldOrdered'
  BY DEF ConvInv, HeldOrdered
<1>2. QueueYounger'
  <2>1. PICK d \in {0, 1} : \A k \in Submits' :
          k + d \in Submits /\ commands'[k] = commands[k + d]
    BY QueueMoved DEF ConvInv
  <2>2. SUFFICES ASSUME NEW k \in Submits'
        PROVE  /\ commands'[k].arg \in 1 .. submitted'
               /\ \A g \in Held' : Below(g, commands'[k].arg)
               /\ \A p \in Prompts : runs'[p].phase # "none" => p < commands'[k].arg
               /\ \A j \in Submits' : j < k => commands'[j].arg < commands'[k].arg
    BY DEF QueueYounger, Below
  <2>3. k + d \in Submits /\ commands'[k] = commands[k + d]
    BY <2>1
  <2>4. /\ commands'[k].arg \in 1 .. submitted
        /\ \A g \in Held : Below(g, commands'[k].arg)
        /\ \A p \in Prompts : runs[p].phase # "none" => p < commands'[k].arg
    BY <2>3 DEF ConvInv, QueueYounger
  <2>5. \A g \in Held' : Below(g, commands'[k].arg)
    BY <2>3, <2>4
  <2>6. ASSUME NEW j \in Submits', j < k PROVE commands'[j].arg < commands'[k].arg
    <3>1. j + d \in Submits /\ commands'[j] = commands[j + d] /\ j \in Nat /\ k \in Nat
      BY <2>1 DEF Submits, ConvTypes
    <3>2. j + d < k + d
      BY <2>6, <3>1
    <3> QED
      BY <2>3, <3>1, <3>2 DEF ConvInv, QueueYounger
  <2> QED
    BY <2>4, <2>5, <2>6
<1>3. RunsYounger'
  BY DEF ConvInv, RunsYounger
<1> QED
  BY <1>1, <1>2, <1>3 DEF ConvInv

-----------------------------------------------------------------------------
(* A prompt begins, and its run starts *)

LEMMA HeldTurns == ASSUME ConvTypes PROVE Held \subseteq Turns
<1>1. \A p \in Prompts : runs[p].base \in Turns
  BY DEF ConvTypes, RunTypes
<1>2. \A i \in DOMAIN compactions : compactions[i] \in Turns
  BY DEF ConvTypes
<1>3. \A s \in Sessions : disk[s] # NoFile => disk[s] \in Turns
  BY DEF ConvTypes
<1> QED
  BY <1>1, <1>2, <1>3 DEF ConvTypes, Held

LEMMA Begins ==
  ASSUME ConvInv, Begin("submit"), UNCHANGED <<runs, current, created, disk, resuming, compactions>>
  PROVE  ConvInv'
<1> DEFINE c == [kind |-> "submit", arg |-> submitted + 1]
<1>1. /\ commands \in Seq(Commands) /\ submitted \in Nat /\ submitted' = submitted + 1
      /\ commands' = Append(commands, c)
  BY DEF ConvInv, ConvTypes, Begin
<1>2. c \in Commands /\ c.arg = submitted + 1
  BY <1>1 DEF Commands, Kinds
<1> HIDE DEF c
<1>3. commands' \in Seq(Commands) /\ Len(commands') = Len(commands) + 1 /\ Len(commands) \in Nat
  BY <1>1, <1>2
<1>4. \A k \in 1 .. Len(commands) : commands'[k] = commands[k]
  BY <1>1, <1>2
<1>5. commands'[Len(commands) + 1] = c
  BY <1>1, <1>2
<1>6. \A k \in Submits' :
        /\ k \in Nat /\ k <= Len(commands) + 1
        /\ k # Len(commands) + 1 => k \in Submits /\ commands'[k] = commands[k]
  BY <1>1, <1>3, <1>4 DEF Submits
<1>7. Held' = Held
  BY DEF Held
<1>8. ConvTypes'
  BY <1>1, <1>3 DEF ConvInv, ConvTypes
<1>9. \A h \in Held : Below(h, submitted + 1)
  BY DEF ConvInv, HeldOrdered
<1>10. \A h \in Held : DOMAIN h \subseteq Nat /\ \A i \in DOMAIN h : h[i] \in Nat
  <2>1. \A h \in Turns : DOMAIN h \subseteq Nat /\ \A i \in DOMAIN h : h[i] \in Nat
    BY DEF Turns
  <2> QED
    BY <2>1, HeldTurns DEF ConvInv
<1>11. HeldOrdered'
  BY <1>1, <1>7, <1>9, <1>10 DEF ConvInv, HeldOrdered, Below, Ordered
<1>12. QueueYounger'
  <2> SUFFICES ASSUME NEW k \in Submits'
      PROVE  /\ commands'[k].arg \in 1 .. submitted'
             /\ \A h \in Held : Below(h, commands'[k].arg)
             /\ \A p \in Prompts : runs[p].phase # "none" => p < commands'[k].arg
             /\ \A j \in Submits' : j < k => commands'[j].arg < commands'[k].arg
    BY <1>7 DEF QueueYounger, Below
  <2>1. CASE k = Len(commands) + 1
    <3>1. commands'[k].arg = submitted + 1
      BY <1>2, <1>5, <2>1
    <3>2. \A p \in Prompts : runs[p].phase # "none" => p < submitted + 1
      BY <1>1 DEF ConvInv, RunsYounger, Prompts
    <3>3. ASSUME NEW j \in Submits', j < k PROVE commands'[j].arg < submitted + 1
      <4>1. j \in Submits /\ commands'[j] = commands[j]
        BY <1>3, <1>6, <2>1, <3>3
      <4> QED
        BY <1>1, <4>1 DEF ConvInv, QueueYounger
    <3>4. commands'[k].arg \in 1 .. submitted'
      BY <1>1, <3>1
    <3>5. \A h \in Held : Below(h, commands'[k].arg)
      BY <1>9, <3>1
    <3> QED
      BY <3>1, <3>2, <3>3, <3>4, <3>5
  <2>2. CASE k # Len(commands) + 1
    <3>1. k \in Submits /\ commands'[k] = commands[k]
      BY <1>6, <2>2
    <3>2. \A j \in Submits' : j < k => j \in Submits /\ commands'[j] = commands[j]
      BY <1>3, <1>6, <2>2
    <3>3. commands'[k].arg \in 1 .. submitted'
      BY <1>1, <3>1 DEF ConvInv, QueueYounger
    <3> QED
      BY <3>1, <3>2, <3>3 DEF ConvInv, QueueYounger
  <2> QED
    BY <2>1, <2>2
<1>13. RunsYounger'
  BY <1>1 DEF ConvInv, RunsYounger, Prompts
<1> QED
  BY <1>8, <1>11, <1>12, <1>13 DEF ConvInv

\* The head of the queue is older than the rest of it, and younger than the history
\* it is given.
LEMMA Submitted ==
  ASSUME ConvInv, SubmitChat
  PROVE  ConvInv'
<1> DEFINE p == Head(commands).arg
           run == Run(current.history)
<1>1. /\ commands # <<>> /\ Head(commands).kind = "submit" /\ commands' = Tail(commands)
      /\ runs' = [runs EXCEPT ![p] = run]
      /\ submitted' = submitted
      /\ UNCHANGED <<current, created, disk, resuming, compactions>>
  BY DEF SubmitChat, Handles, store
<1>2. /\ commands \in Seq(Commands) /\ runs \in [Prompts -> RunTypes]
      /\ current.history \in Turns /\ submitted \in Nat
  BY DEF ConvInv, ConvTypes
<1>3. 1 \in Submits /\ commands[1] = Head(commands) /\ p \in 1 .. submitted
  <2>1. 1 \in DOMAIN commands /\ commands[1] = Head(commands)
    BY <1>1, <1>2
  <2>2. 1 \in Submits
    BY <1>1, <2>1 DEF Submits
  <2> QED
    BY <2>1, <2>2 DEF ConvInv, QueueYounger
<1>4. run \in RunTypes /\ run.base = current.history /\ run.phase = "running"
  <2> DEFINE none == <<>>
  <2>1. none \in Seq(RunKinds)
    OBVIOUS
  <2>2. run = [phase |-> "running", base |-> current.history, backlog |-> none,
               states |-> 0, cancelled |-> FALSE]
    BY DEF Run
  <2> HIDE DEF none, run
  <2> QED
    BY <1>2, <2>1, <2>2 DEF RunTypes, RunPhases
<1> HIDE DEF p, run
<1>5. /\ commands' \in Seq(Commands)
      /\ \A k \in DOMAIN commands' : k + 1 \in DOMAIN commands /\ commands'[k] = commands[k + 1]
  BY <1>1, <1>2
<1>6. \A k \in Submits' : k + 1 \in Submits /\ commands'[k] = commands[k + 1] /\ k \in Nat \ {0}
  BY <1>5 DEF Submits
<1>7. \A q \in Prompts : runs'[q] = IF q = p THEN run ELSE runs[q]
  BY <1>1, <1>2
<1>8. ConvTypes'
  BY <1>1, <1>2, <1>4, <1>5 DEF ConvInv, ConvTypes
<1>9. Held' \subseteq Held
  BY <1>1, <1>4, <1>7 DEF Held
<1>10. HeldOrdered'
  BY <1>1, <1>9 DEF ConvInv, HeldOrdered
<1>11. QueueYounger'
  <2> SUFFICES ASSUME NEW k \in Submits'
      PROVE  /\ commands'[k].arg \in 1 .. submitted
             /\ \A h \in Held : Below(h, commands'[k].arg)
             /\ \A q \in Prompts : runs'[q].phase # "none" => q < commands'[k].arg
             /\ \A j \in Submits' : j < k => commands'[j].arg < commands'[k].arg
    BY <1>1, <1>9 DEF QueueYounger, Below
  <2>1. k + 1 \in Submits /\ commands'[k] = commands[k + 1] /\ 1 < k + 1
    BY <1>6
  <2>2. p < commands'[k].arg
    BY <1>3, <2>1 DEF ConvInv, QueueYounger, p
  <2>3. \A q \in Prompts : runs'[q].phase # "none" => q < commands'[k].arg
    BY <1>7, <2>1, <2>2 DEF ConvInv, QueueYounger
  <2>4. ASSUME NEW j \in Submits', j < k PROVE commands'[j].arg < commands'[k].arg
    <3>1. j + 1 \in Submits /\ commands'[j] = commands[j + 1] /\ j + 1 < k + 1
      BY <1>6, <2>4
    <3> QED
      BY <2>1, <3>1 DEF ConvInv, QueueYounger
  <2> QED
    BY <2>1, <2>3, <2>4 DEF ConvInv, QueueYounger
<1>12. RunsYounger'
  <2> SUFFICES ASSUME NEW q \in Prompts, runs'[q].phase # "none"
               PROVE  q <= submitted /\ Below(runs'[q].base, q)
    BY <1>1 DEF RunsYounger, Below
  <2>1. CASE q = p
    <3>1. current.history \in Held
      BY DEF Held
    <3>2. Below(current.history, p)
      BY <1>3, <3>1 DEF ConvInv, QueueYounger, p
    <3> QED
      BY <1>3, <1>4, <1>7, <2>1, <3>2
  <2>2. CASE q # p
    BY <1>7, <2>2 DEF ConvInv, RunsYounger
  <2> QED
    BY <2>1, <2>2
<1> QED
  BY <1>8, <1>10, <1>11, <1>12 DEF ConvInv

-----------------------------------------------------------------------------
(* Steps that bring no history *)

LEMMA EmptyFits ==
  ASSUME ConvInv
  PROVE  /\ <<>> \in Turns /\ Ordered(<<>>) /\ Below(<<>>, submitted + 1)
         /\ \A k \in Submits : Below(<<>>, commands[k].arg)
  BY DEF Turns, Ordered, Below

LEMMA Quiet ==
  ASSUME ConvInv, QueueMoves,
         UNCHANGED <<submitted, runs, current, created, disk, resuming, compactions>>
  PROVE  ConvInv'
<1>1. ConvTypes'
  BY QueueMoved DEF ConvInv, ConvTypes
<1>2. Held' = Held
  BY DEF Held
<1> QED
  BY <1>1, <1>2, EmptyFits, Keeps

LEMMA Sent ==
  ASSUME NEW kind \in Kinds \ {"submit"}, NEW arg \in Nat, Send(kind, arg),
         kind = "resume" => arg \in Sessions
  PROVE  QueueMoves
<1>1. [kind |-> kind, arg |-> arg] \in Commands
  BY DEF Commands
<1> QED
  BY <1>1 DEF Send, QueueMoves

\* One run moves on, without a new snapshot.
LEMMA RunMoves ==
  ASSUME ConvInv, QueueMoves, NEW p, NEW run,
         p \in Prompts => run \in RunTypes /\ run.base = runs[p].base,
         p \in Prompts /\ run.phase # "none" => runs[p].phase # "none",
         runs' = [runs EXCEPT ![p] = run],
         UNCHANGED <<submitted, current, created, disk, resuming, compactions>>
  PROVE  ConvInv'
<1>1. runs \in [Prompts -> RunTypes]
  BY DEF ConvInv, ConvTypes
<1>2. /\ runs' \in [Prompts -> RunTypes]
      /\ \A q \in Prompts : /\ runs'[q].base = runs[q].base
                            /\ runs'[q].phase # "none" => runs[q].phase # "none"
  <2>1. CASE p \in Prompts
    <3>1. \A q \in Prompts : runs'[q] = IF q = p THEN run ELSE runs[q]
      BY <1>1
    <3>2. run \in RunTypes /\ runs' \in [Prompts -> RunTypes]
      BY <1>1, <2>1
    <3> QED
      BY <2>1, <3>1, <3>2
  <2>2. CASE p \notin Prompts
    <3>1. runs' = runs
      BY <1>1, <2>2
    <3> QED
      BY <1>1, <3>1
  <2> QED
    BY <2>1, <2>2
<1>3. ConvTypes'
  BY <1>2, QueueMoved DEF ConvInv, ConvTypes
<1>4. Held' = Held
  BY <1>2 DEF Held
<1> QED
  BY <1>2, <1>3, <1>4, EmptyFits, Keeps

LEMMA UserStep == ASSUME ConvInv, User PROVE ConvInv'
<1>1. CASE TypePrompt
  <2>1. CASE Begin("submit")
    BY <1>1, <2>1, Begins DEF TypePrompt, store
  <2>2. CASE UNCHANGED <<commands, submitted>>
    <3>1. QueueMoves
      BY <2>2 DEF QueueMoves
    <3> QED
      BY <1>1, <2>2, <3>1, Quiet DEF TypePrompt, store
  <2> QED
    BY <1>1, <2>1, <2>2 DEF TypePrompt
<1>2. CASE TypeReview
  BY <1>2, Begins DEF TypeReview, store
<1>3. CASE Interrupt
  <2>1. QueueMoves
    BY <1>3, Sent DEF Interrupt, Kinds
  <2> QED
    BY <1>3, <2>1, Quiet DEF Interrupt, store
<1>4. CASE TypeSession
  <2>1. QueueMoves
    BY <1>4, Sent DEF TypeSession, Kinds, Sessions
  <2> QED
    BY <1>4, <2>1, Quiet DEF TypeSession, store
<1> QED
  BY <1>1, <1>2, <1>3, <1>4 DEF User

LEMMA InterfaceStep == ASSUME ConvInv, Interface PROVE ConvInv'
<1>1. CASE Begin("submit") /\ ReceiveEnd
  BY <1>1, Begins DEF ReceiveEnd, store
<1>2. CASE UNCHANGED <<commands, submitted>>
  <2>1. QueueMoves
    BY <1>2 DEF QueueMoves
  <2>2. UNCHANGED <<runs, current, created, disk, resuming, compactions>>
    BY DEF Interface, ReceiveState, ReceiveEnd, ReceiveBlocking, store
  <2> QED
    BY <1>2, <2>1, <2>2, Quiet
<1>3. \/ Begin("submit") /\ ReceiveEnd
      \/ UNCHANGED <<commands, submitted>>
  BY DEF Interface, ReceiveState, ReceiveEnd, ReceiveBlocking
<1> QED
  BY <1>1, <1>2, <1>3

LEMMA RunStep ==
  ASSUME ConvInv, NEW p \in Prompts, RunState(p) \/ Ends(p) \/ Bridge(p)
  PROVE  ConvInv'
<1> DEFINE r == runs[p]
<1>1. runs \in [Prompts -> RunTypes] /\ r \in RunTypes
  BY DEF ConvInv, ConvTypes
<1>2. r.backlog \in Seq(RunKinds) /\ r.states \in Nat /\ r.phase \in RunPhases
  BY <1>1 DEF RunTypes
<1>3. /\ QueueMoves
      /\ UNCHANGED <<submitted, current, created, disk, resuming, compactions>>
  BY DEF RunState, Ends, RunCompletes, RunCancelled, RunFails, Bridge, store, tui, QueueMoves
<1>4. PICK run : /\ run \in RunTypes /\ run.base = r.base
                 /\ r.phase = "none" => run.phase = "none"
                 /\ runs' = [runs EXCEPT ![p] = run]
  <2>1. CASE RunState(p)
    <3> DEFINE backlog == Append(r.backlog, "state")
               run == [r EXCEPT !.phase = r.phase, !.backlog = backlog, !.states = r.states + 1]
    <3>1. backlog \in Seq(RunKinds) /\ r.states + 1 \in Nat
      BY <1>2 DEF RunKinds
    <3>2. run \in RunTypes /\ run.base = r.base /\ run.phase = r.phase
      <4> HIDE DEF backlog
      <4> QED
        BY <1>1, <1>2, <3>1 DEF RunTypes
    <3>3. run = [r EXCEPT !.states = @ + 1, !.backlog = Append(@, "state")]
      BY <1>1 DEF RunTypes
    <3>4. runs' = [runs EXCEPT ![p] = run]
      BY <2>1, <3>3 DEF RunState, Step
    <3> QED
      BY <3>2, <3>4
  <2>2. CASE RunCompletes(p) \/ RunCancelled(p)
    <3>1. PICK phase \in {"finishing", "ended"}, kind \in {"completed", "cancelled"} :
            runs' = [runs EXCEPT ![p] = [r EXCEPT !.phase = phase, !.backlog = Append(@, kind)]]
      BY <2>2 DEF RunCompletes, RunCancelled, Step
    <3> DEFINE backlog == Append(r.backlog, kind)
               run == [r EXCEPT !.phase = phase, !.backlog = backlog, !.states = r.states]
    <3>2. backlog \in Seq(RunKinds) /\ phase \in RunPhases /\ phase # "none"
      BY <1>2 DEF RunKinds, RunPhases
    <3>3. run \in RunTypes /\ run.base = r.base
      <4> HIDE DEF backlog
      <4> QED
        BY <1>1, <1>2, <3>2 DEF RunTypes
    <3>4. run = [r EXCEPT !.phase = phase, !.backlog = Append(@, kind)]
      BY <1>1 DEF RunTypes
    <3>5. r.phase = "running"
      BY <2>2 DEF RunCompletes, RunCancelled
    <3> QED
      BY <3>1, <3>3, <3>4, <3>5
  <2>3. CASE RunFails(p)
    <3> DEFINE run == [r EXCEPT !.phase = "ended", !.backlog = r.backlog, !.states = r.states]
    <3>1. run \in RunTypes /\ run.base = r.base
      BY <1>1, <1>2 DEF RunTypes, RunPhases
    <3>2. run = [r EXCEPT !.phase = "ended"]
      BY <1>1 DEF RunTypes
    <3>3. r.phase = "running" /\ runs' = [runs EXCEPT ![p] = run]
      BY <2>3, <3>2 DEF RunFails, Step
    <3> QED
      BY <3>1, <3>3
  <2>4. CASE Bridge(p)
    <3> DEFINE backlog == Tail(r.backlog)
               run == [r EXCEPT !.phase = r.phase, !.backlog = backlog, !.states = r.states]
    <3>1. backlog \in Seq(RunKinds)
      BY <1>2, <2>4 DEF Bridge
    <3>2. run \in RunTypes /\ run.base = r.base /\ run.phase = r.phase
      <4> HIDE DEF backlog
      <4> QED
        BY <1>1, <1>2, <3>1 DEF RunTypes
    <3>3. run = [r EXCEPT !.backlog = Tail(@)]
      BY <1>1 DEF RunTypes
    <3>4. runs' = [runs EXCEPT ![p] = run]
      BY <2>4, <3>3 DEF Bridge, Step
    <3> QED
      BY <3>2, <3>4
  <2> QED
    BY <2>1, <2>2, <2>3, <2>4 DEF Ends
<1> QED
  BY <1>3, <1>4, RunMoves

LEMMA CancelStep == ASSUME ConvInv, CancelProviderRequest PROVE ConvInv'
<1>1. /\ QueueMoves
      /\ UNCHANGED <<submitted, current, created, disk, resuming, compactions>>
  BY DEF CancelProviderRequest, Handles, QueueMoves, store
<1>2. CASE runs' = runs
  BY <1>1, <1>2, Quiet
<1>3. CASE runs' = [runs EXCEPT ![active].cancelled = TRUE]
  <2> DEFINE run == [runs[active] EXCEPT !.cancelled = TRUE]
  <2>1. runs' = [runs EXCEPT ![active] = run]
    BY <1>3
  <2>2. active \in Prompts => runs[active] \in RunTypes
    BY DEF ConvInv, ConvTypes
  <2>3. active \in Prompts =>
          /\ run \in RunTypes /\ run.base = runs[active].base
          /\ run.phase = runs[active].phase
    BY <2>2 DEF RunTypes
  <2> HIDE DEF run
  <2> QED
    BY <1>1, <2>1, <2>3, RunMoves
<1> QED
  BY <1>2, <1>3 DEF CancelProviderRequest

-----------------------------------------------------------------------------
(* Steps that change the session, its files or a compaction's history *)

Fits(h) ==
  /\ h \in Turns /\ Ordered(h) /\ Below(h, submitted + 1)
  /\ \A k \in Submits : Below(h, commands[k].arg)

LEMMA HeldFits == ASSUME ConvInv, NEW h \in Held PROVE Fits(h)
  BY HeldTurns DEF ConvInv, HeldOrdered, QueueYounger, Fits

\* Whoever holds a history after the step held it before, or holds the new one.
LEMMA StoreMoves ==
  ASSUME ConvInv, QueueMoves, submitted' = submitted, NEW h, Fits(h),
         runs' \in [Prompts -> RunTypes], created' \in Nat,
         \A p \in Prompts : runs'[p].base = runs[p].base,
         \A p \in Prompts : runs'[p].phase # "none" => runs[p].phase # "none",
         current' \in [id : Nat, history : Turns], current'.history \in Held \cup {h},
         resuming' \in [id : Nat, history : Turns, saved : BOOLEAN],
         resuming'.history \in Held \cup {h},
         disk' \in [Sessions -> Turns \cup {NoFile}],
         \A s \in Sessions : disk'[s] # NoFile => disk'[s] \in Held \cup {h},
         compactions' \in Seq(Turns),
         \A i \in DOMAIN compactions' : compactions'[i] \in Held \cup {h}
  PROVE  ConvInv'
<1>1. commands' \in Seq(Commands)
  BY QueueMoved DEF ConvInv
<1>2. ConvTypes'
  BY <1>1 DEF ConvInv, ConvTypes
<1>3. \A p \in Prompts : runs'[p].base \in Held
  BY DEF Held
<1>4. Held' \subseteq Held \cup {h}
  BY <1>3 DEF Held
<1> QED
  BY <1>2, <1>4, Keeps DEF Fits

\* What stays as it is fits the lemma above.
LEMMA Unmoved ==
  ASSUME ConvInv
  PROVE  /\ runs \in [Prompts -> RunTypes] /\ created \in Nat
         /\ current \in [id : Nat, history : Turns] /\ current.history \in Held
         /\ resuming \in [id : Nat, history : Turns, saved : BOOLEAN]
         /\ resuming.history \in Held
         /\ disk \in [Sessions -> Turns \cup {NoFile}]
         /\ \A s \in Sessions : disk[s] # NoFile => disk[s] \in Held
         /\ compactions \in Seq(Turns)
         /\ \A i \in DOMAIN compactions : compactions[i] \in Held
         /\ Nothing \in [id : Nat, history : Turns, saved : BOOLEAN]
         /\ Fits(<<>>) /\ Nothing.history = <<>>
<1>1. Fits(<<>>)
  BY EmptyFits DEF Fits
<1>2. Nothing \in [id : Nat, history : Turns, saved : BOOLEAN] /\ Nothing.history = <<>>
  <2> DEFINE none == <<>>
  <2>1. none \in Turns
    BY EmptyFits
  <2>2. Nothing = [id |-> 0, history |-> none, saved |-> FALSE]
    BY DEF Nothing
  <2> HIDE DEF none
  <2>3. Nothing \in [id : Nat, history : Turns, saved : BOOLEAN] /\ Nothing.history = none
    BY <2>1, <2>2
  <2> USE DEF none
  <2> QED
    BY <2>3
<1> QED
  BY <1>1, <1>2 DEF ConvInv, ConvTypes, Held

LEMMA Stored ==
  ASSUME NEW d \in [Sessions -> Turns \cup {NoFile}], NEW s, NEW h \in Turns \cup {NoFile}
  PROVE  /\ [d EXCEPT ![s] = h] \in [Sessions -> Turns \cup {NoFile}]
         /\ \A t \in Sessions : [d EXCEPT ![s] = h][t] = IF t = s THEN h ELSE d[t]
  OBVIOUS

LEMMA SessionStep ==
  ASSUME ConvInv,
         NewSession \/ ClearConversation \/ ForkSession \/ ResumeSession \/ SaveResumed
           \/ InstallResumed
  PROVE  ConvInv'
<1>1. /\ QueueMoves
      /\ UNCHANGED <<submitted, runs, compactions>>
  BY DEF NewSession, ClearConversation, ForkSession, ResumeSession, SaveResumed,
         InstallResumed, Handles, QueueMoves
<1> DEFINE new == [id |-> created + 1, history |-> <<>>]
<1>2. created + 1 \in Nat /\ <<>> \in Turns
  BY Unmoved, EmptyFits
<1>3. CASE NewSession
  <2>1. /\ current' = new /\ created' = created + 1 /\ UNCHANGED <<disk, resuming>>
    BY <1>3 DEF NewSession, Create, Fresh
  <2>2. new \in [id : Nat, history : Turns] /\ new.history = <<>>
    BY <1>2
  <2> HIDE DEF new
  <2> QED
    BY <1>1, <1>2, <2>1, <2>2, Unmoved, StoreMoves
<1>4. CASE ClearConversation
  <2>1. /\ current' = new /\ created' = created + 1 /\ UNCHANGED resuming
        /\ disk' = [disk EXCEPT ![current.id] = NoFile]
    BY <1>4 DEF ClearConversation, Create, Fresh
  <2>2. new \in [id : Nat, history : Turns] /\ new.history = <<>>
    BY <1>2
  <2>3. /\ disk' \in [Sessions -> Turns \cup {NoFile}]
        /\ \A s \in Sessions : disk'[s] = NoFile \/ disk'[s] = disk[s]
    BY <2>1, Unmoved
  <2> HIDE DEF new
  <2> QED
    BY <1>1, <1>2, <2>1, <2>2, <2>3, Unmoved, StoreMoves
<1>5. CASE ForkSession
  <2> DEFINE fork == [id |-> created + 1, history |-> current.history]
  <2>1. /\ current' = fork /\ created' = created + 1 /\ UNCHANGED resuming
        /\ disk' = [disk EXCEPT ![current.id] = current.history,
                                ![created + 1] = current.history]
    BY <1>5 DEF ForkSession, Create, Fresh
  <2>2. fork \in [id : Nat, history : Turns] /\ fork.history = current.history
    BY <1>2, Unmoved
  <2>3. /\ disk' \in [Sessions -> Turns \cup {NoFile}]
        /\ \A s \in Sessions : disk'[s] = current.history \/ disk'[s] = disk[s]
    BY <2>1, Unmoved
  <2> HIDE DEF fork
  <2> QED
    BY <1>1, <1>2, <2>1, <2>2, <2>3, Unmoved, StoreMoves
<1>6. CASE ResumeSession
  <2> DEFINE s == Head(commands).arg
             loaded == [id |-> s, history |-> disk[s], saved |-> FALSE]
  <2>1. /\ resuming' = IF disk[s] = NoFile THEN Nothing ELSE loaded
        /\ commands # <<>> /\ UNCHANGED <<current, created, disk>>
    BY <1>6 DEF ResumeSession, Handles
  <2>2. s \in Sessions /\ s \in Nat
    <3>1. Head(commands) \in Commands /\ Head(commands).kind = "resume"
      BY <1>6 DEF ResumeSession, Handles, ConvInv, ConvTypes
    <3> QED
      BY <3>1 DEF Commands
  <2>3. /\ resuming' \in [id : Nat, history : Turns, saved : BOOLEAN]
        /\ resuming'.history \in Held \cup {<<>>}
    <3>1. CASE disk[s] = NoFile
      BY <2>1, <3>1, Unmoved
    <3>2. CASE disk[s] # NoFile
      <4>1. disk[s] \in Turns /\ disk[s] \in Held
        BY <2>2, <3>2, Unmoved
      <4> QED
        BY <2>1, <2>2, <3>2, <4>1
    <3> QED
      BY <3>1, <3>2
  <2> QED
    BY <1>1, <2>1, <2>3, Unmoved, StoreMoves
<1>7. CASE SaveResumed
  <2>1. /\ disk' = [disk EXCEPT ![resuming.id] = resuming.history]
        /\ resuming' = [resuming EXCEPT !.saved = TRUE]
        /\ UNCHANGED <<current, created>>
    BY <1>7 DEF SaveResumed
  <2>2. /\ disk' \in [Sessions -> Turns \cup {NoFile}]
        /\ \A s \in Sessions : disk'[s] = resuming.history \/ disk'[s] = disk[s]
    BY <2>1, Unmoved
  <2>3. /\ resuming' \in [id : Nat, history : Turns, saved : BOOLEAN]
        /\ resuming'.history = resuming.history
    BY <2>1, Unmoved
  <2> QED
    BY <1>1, <2>1, <2>2, <2>3, Unmoved, StoreMoves
<1>8. CASE InstallResumed
  <2>1. /\ current' = [id |-> resuming.id, history |-> resuming.history]
        /\ resuming' = Nothing /\ UNCHANGED <<created, disk>>
    BY <1>8 DEF InstallResumed
  <2>2. /\ current' \in [id : Nat, history : Turns] /\ current'.history = resuming.history
    BY <2>1, Unmoved
  <2> QED
    BY <1>1, <2>1, <2>2, Unmoved, StoreMoves
<1> QED
  BY <1>3, <1>4, <1>5, <1>6, <1>7, <1>8

-----------------------------------------------------------------------------
(* A run's end and a compaction replace the history *)

LEMMA Appended ==
  ASSUME NEW S, NEW s \in Seq(S), NEW e \in S
  PROVE  /\ Append(s, e) \in Seq(S)
         /\ \A i \in DOMAIN Append(s, e) :
              \/ i = Len(s) + 1 /\ Append(s, e)[i] = e
              \/ i \in 1 .. Len(s) /\ i \in DOMAIN s /\ Append(s, e)[i] = s[i]
<1>1. /\ Append(s, e) \in Seq(S) /\ Len(Append(s, e)) = Len(s) + 1 /\ Len(s) \in Nat
      /\ Append(s, e)[Len(s) + 1] = e
      /\ \A i \in 1 .. Len(s) : Append(s, e)[i] = s[i]
      /\ DOMAIN s = 1 .. Len(s) /\ DOMAIN Append(s, e) = 1 .. Len(s) + 1
  OBVIOUS
<1>2. \A i \in 1 .. Len(s) + 1 : i = Len(s) + 1 \/ i \in 1 .. Len(s)
  BY <1>1
<1> QED
  BY <1>1, <1>2

\* A compaction begins over the history in memory, or none does.
LEMMA Compacts ==
  ASSUME ConvInv,
         compactions' = compactions \/ compactions' = Append(compactions, current.history)
  PROVE  /\ compactions' \in Seq(Turns)
         /\ \A i \in DOMAIN compactions' : compactions'[i] \in Held
<1> DEFINE h == current.history
<1>1. compactions \in Seq(Turns) /\ h \in Turns /\ h \in Held
  BY Unmoved
<1>2. CASE compactions' = compactions
  BY <1>2, Unmoved
<1>3. CASE compactions' = Append(compactions, h)
  <2> HIDE DEF h
  <2>1. /\ Append(compactions, h) \in Seq(Turns)
        /\ \A i \in DOMAIN Append(compactions, h) :
             \/ Append(compactions, h)[i] = h
             \/ i \in DOMAIN compactions /\ Append(compactions, h)[i] = compactions[i]
    BY <1>1, Appended
  <2> QED
    BY <1>1, <1>3, <2>1, Unmoved
<1> QED
  BY <1>2, <1>3

LEMMA Remembers ==
  ASSUME ConvInv, QueueMoves, submitted' = submitted, NEW h, Fits(h),
         NEW saved, Remember(h, saved),
         runs' \in [Prompts -> RunTypes],
         \A p \in Prompts : runs'[p].base = runs[p].base,
         \A p \in Prompts : runs'[p].phase # "none" => runs[p].phase # "none",
         compactions' \in Seq(Turns),
         \A i \in DOMAIN compactions' : compactions'[i] \in Held
  PROVE  ConvInv'
<1>1. h \in Turns
  BY DEF Fits
<1>2. current' \in [id : Nat, history : Turns] /\ current'.history = h
  BY <1>1, Unmoved DEF Remember
<1>3. /\ disk' \in [Sessions -> Turns \cup {NoFile}]
      /\ \A s \in Sessions : disk'[s] # NoFile => disk'[s] \in Held \cup {h}
  <2>1. CASE disk' = disk
    BY <2>1, Unmoved
  <2>2. CASE disk' = [disk EXCEPT ![current.id] = h]
    BY <1>1, <2>2, Stored, Unmoved
  <2> QED
    BY <2>1, <2>2 DEF Remember
<1>4. UNCHANGED <<created, resuming>>
  BY DEF Remember
<1> QED
  BY <1>2, <1>3, <1>4, Unmoved, StoreMoves

LEMMA CompactStep == ASSUME ConvInv, CompactContext PROVE ConvInv'
<1>1. /\ QueueMoves
      /\ UNCHANGED <<submitted, runs, current, created, disk, resuming>>
  BY DEF CompactContext, Handles, QueueMoves, store
<1>2. /\ compactions' \in Seq(Turns)
      /\ \A i \in DOMAIN compactions' : compactions'[i] \in Held
  BY Compacts DEF CompactContext
<1> QED
  BY <1>1, <1>2, StoreMoves, Unmoved

\* The snapshot a run took is older than its prompt, and so is every prompt it holds.
LEMMA TurnFits ==
  ASSUME ConvInv, NEW p \in Prompts, runs[p].phase # "none"
  PROVE  Fits(Append(runs[p].base, p))
<1> DEFINE base == runs[p].base
           h == Append(base, p)
<1>1. base \in Turns /\ base \in Held /\ p \in Nat /\ submitted \in Nat
  BY DEF ConvInv, ConvTypes, RunTypes, Held, Prompts
<1>2. p <= submitted /\ Below(base, p)
  BY DEF ConvInv, RunsYounger
<1>3. Ordered(base)
  BY <1>1 DEF ConvInv, HeldOrdered
<1>4. \A k \in Submits : p < commands[k].arg /\ commands[k].arg \in Nat
  BY DEF ConvInv, QueueYounger
<1> HIDE DEF base
<1>5. /\ h \in Turns
      /\ \A i \in DOMAIN h : \/ i = Len(base) + 1 /\ h[i] = p
                             \/ i \in 1 .. Len(base) /\ i \in DOMAIN base /\ h[i] = base[i]
  BY <1>1, Appended DEF Turns
<1>6. \A i \in DOMAIN base : base[i] \in Nat
  BY <1>1 DEF Turns
<1>7. Len(base) \in Nat
  BY <1>1 DEF Turns
<1> HIDE DEF h
<1>8. Ordered(h)
  <2> SUFFICES ASSUME NEW i \in DOMAIN h, NEW j \in DOMAIN h, i < j, h[j] # Summary
               PROVE  h[i] < h[j]
    BY DEF Ordered
  <2>1. i \in DOMAIN base /\ h[i] = base[i] /\ i \in 1 .. Len(base)
    BY <1>5, <1>7
  <2>2. CASE j = Len(base) + 1 /\ h[j] = p
    BY <1>2, <2>1, <2>2 DEF Below
  <2>3. CASE j \in DOMAIN base /\ h[j] = base[j]
    BY <1>3, <2>1, <2>3 DEF Ordered
  <2> QED
    BY <1>5, <2>2, <2>3
<1>9. \A n \in Nat : p < n => Below(h, n)
  BY <1>1, <1>2, <1>5, <1>6 DEF Below
<1>10. Fits(h)
  BY <1>1, <1>2, <1>4, <1>5, <1>8, <1>9 DEF Fits
<1> QED
  BY <1>10 DEF h, base

LEMMA FinisherStep == ASSUME ConvInv, NEW p \in Prompts, Finisher(p) PROVE ConvInv'
<1> DEFINE r == runs[p]
<1>1. runs \in [Prompts -> RunTypes] /\ r \in RunTypes
  BY DEF ConvInv, ConvTypes
<1>2. QueueMoves /\ submitted' = submitted
  BY DEF Finisher, HandleCompletedRun, AutoCompact, QueueMoves
<1>3. PICK phase \in {"recorded", "ended"} : runs' = [runs EXCEPT ![p] = [r EXCEPT !.phase = phase]]
  BY DEF Finisher, HandleCompletedRun, AutoCompact, Step
<1>4. r.phase # "none"
  BY DEF Finisher, HandleCompletedRun, AutoCompact
<1>5. /\ runs' \in [Prompts -> RunTypes]
      /\ \A q \in Prompts : /\ runs'[q].base = runs[q].base
                            /\ runs'[q].phase # "none" => runs[q].phase # "none"
  <2> DEFINE run == [r EXCEPT !.phase = phase]
  <2>1. run \in RunTypes /\ run.base = r.base
    BY <1>1 DEF RunTypes, RunPhases
  <2> HIDE DEF run
  <2>2. runs' = [runs EXCEPT ![p] = run]
    BY <1>3 DEF run
  <2>3. \A q \in Prompts : runs'[q] = IF q = p THEN run ELSE runs[q]
    BY <1>1, <2>2
  <2>4. runs' \in [Prompts -> RunTypes]
    BY <1>1, <2>1, <2>2
  <2> QED
    BY <1>4, <2>1, <2>3, <2>4
<1>6. CASE HandleCompletedRun(p)
  <2>1. PICK saved \in Saves : Remember(Append(r.base, p), saved)
    BY <1>6 DEF HandleCompletedRun
  <2>2. compactions' = compactions
    BY <1>6 DEF HandleCompletedRun
  <2>3. Fits(Append(r.base, p))
    BY <1>4, TurnFits
  <2> DEFINE h == Append(r.base, p)
  <2> HIDE DEF h
  <2>4. Fits(h) /\ Remember(h, saved)
    BY <2>1, <2>3 DEF h
  <2> QED
    BY <1>2, <1>5, <2>2, <2>4, Remembers, Unmoved
<1>7. CASE AutoCompact(p)
  <2>1. /\ compactions' = compactions \/ compactions' = Append(compactions, current.history)
        /\ UNCHANGED <<current, created, disk, resuming>>
    BY <1>7 DEF AutoCompact, store
  <2>2. /\ compactions' \in Seq(Turns)
        /\ \A i \in DOMAIN compactions' : compactions'[i] \in Held
    BY <2>1, Compacts
  <2> QED
    BY <1>2, <1>5, <2>1, <2>2, Unmoved, StoreMoves
<1> QED
  BY <1>6, <1>7 DEF Finisher

\* What compaction leaves is a suffix of what it was given, after the summary that
\* stands below every turn.
LEMMA CompactedFits ==
  ASSUME ConvInv, NEW g \in Held
  PROVE  Fits(CompactConversation(g))
<1> DEFINE d == Len(g) - KeepRecent
           tail == SubSeq(g, d + 1, Len(g))
           h == <<Summary>> \o tail
<1>1. g \in Turns /\ Fits(g) /\ Len(g) \in Nat /\ KeepRecent \in Nat \ {0}
  <2>1. g \in Turns
    BY HeldTurns DEF ConvInv
  <2>2. Len(g) \in Nat
    BY <2>1 DEF Turns
  <2>3. KeepRecent \in Nat \ {0}
    BY ConversationAssumption
  <2> QED
    BY <2>1, <2>2, <2>3, HeldFits
<1>2. CASE Len(g) <= KeepRecent
  BY <1>1, <1>2 DEF CompactConversation
<1>3. CASE ~ Len(g) <= KeepRecent
  <2>1. d \in Nat \ {0} /\ d + 1 \in 1 .. Len(g)
    BY <1>1, <1>3
  <2>2. /\ tail \in Turns /\ Len(tail) = Len(g) - d
        /\ \A i \in 1 .. Len(tail) : tail[i] = g[d + i] /\ d + i \in DOMAIN g
    <3>1. d + 1 \in 1 .. Len(g) /\ Len(g) \in 1 .. Len(g)
      BY <1>1, <2>1
    <3>2. tail \in Turns
      BY <1>1, <3>1, SubSeqProperties DEF Turns
    <3>3. Len(tail) = Len(g) - d
      BY <1>1, <2>1, <3>1, SubSeqProperties DEF Turns
    <3>4. \A i \in 1 .. Len(g) - d : tail[i] = g[d + i] /\ d + i \in DOMAIN g
      BY <1>1, <2>1, <3>1, SubSeqProperties DEF Turns
    <3> QED
      BY <3>2, <3>3, <3>4
  <2> HIDE DEF tail, d
  <2>3. /\ h \in Turns /\ Len(h) = Len(tail) + 1 /\ Len(tail) \in Nat
        /\ h[1] = Summary
        /\ \A i \in 2 .. Len(tail) + 1 : h[i] = tail[i - 1]
    BY <2>2 DEF Turns, Summary
  <2>4. \A i \in DOMAIN h : \/ i = 1 /\ h[i] = Summary
                            \/ /\ i \in 2 .. Len(tail) + 1
                               /\ d + (i - 1) \in DOMAIN g /\ h[i] = g[d + (i - 1)]
    BY <2>2, <2>3 DEF Turns
  <2>5. \A i \in DOMAIN g : g[i] \in Nat
    BY <1>1 DEF Turns
  <2> HIDE DEF h
  <2>6. \A n \in Nat \ {0} : Below(g, n) => Below(h, n)
    BY <2>4 DEF Below, Summary
  <2>7. Ordered(h)
    <3> SUFFICES ASSUME NEW i \in DOMAIN h, NEW j \in DOMAIN h, i < j, h[j] # Summary
                 PROVE  h[i] < h[j]
      BY DEF Ordered
    <3>1. j \in 2 .. Len(tail) + 1 /\ d + (j - 1) \in DOMAIN g /\ h[j] = g[d + (j - 1)]
      BY <2>4
    <3>2. CASE i = 1 /\ h[i] = Summary
      BY <2>5, <3>1, <3>2 DEF Summary
    <3>3. CASE i \in 2 .. Len(tail) + 1 /\ d + (i - 1) \in DOMAIN g /\ h[i] = g[d + (i - 1)]
      <4>1. d + (i - 1) < d + (j - 1)
        BY <2>1, <2>3, <3>1, <3>3
      <4> QED
        BY <1>1, <3>1, <3>3, <4>1 DEF Fits, Ordered
    <3> QED
      BY <2>4, <3>2, <3>3
  <2>8. submitted + 1 \in Nat \ {0} /\ \A k \in Submits : commands[k].arg \in Nat \ {0}
    BY DEF ConvInv, ConvTypes, QueueYounger
  <2>9. Fits(h)
    BY <1>1, <2>3, <2>6, <2>7, <2>8 DEF Fits
  <2> QED
    BY <1>3, <2>9 DEF CompactConversation, h, tail, d
<1> QED
  BY <1>2, <1>3

LEMMA CompactionStep == ASSUME ConvInv, CompactAndReport PROVE ConvInv'
<1>1. /\ QueueMoves /\ UNCHANGED <<submitted, runs>>
  BY DEF CompactAndReport, QueueMoves
<1>2. PICK i \in DOMAIN compactions, done \in BOOLEAN, saved \in Saves :
        /\ compactions' = [j \in 1 .. Len(compactions) - 1 |->
                             compactions[IF j < i THEN j ELSE j + 1]]
        /\ IF done THEN Remember(CompactConversation(compactions[i]), saved)
           ELSE UNCHANGED store
  BY DEF CompactAndReport
<1>3. /\ compactions \in Seq(Turns) /\ \A j \in DOMAIN compactions : compactions[j] \in Held
      /\ DOMAIN compactions = 1 .. Len(compactions) /\ Len(compactions) \in Nat \ {0}
  <2>1. compactions \in Seq(Turns) /\ compactions # <<>>
    BY Unmoved DEF CompactAndReport
  <2> QED
    BY <2>1, Unmoved
<1>4. \A j \in 1 .. Len(compactions) - 1 : (IF j < i THEN j ELSE j + 1) \in DOMAIN compactions
  BY <1>3
<1>5. /\ compactions' \in Seq(Turns)
      /\ \A j \in DOMAIN compactions' : compactions'[j] \in Held
  <2>1. Len(compactions) - 1 \in Nat
    BY <1>3
  <2>2. \A j \in 1 .. Len(compactions) - 1 :
          compactions'[j] = compactions[IF j < i THEN j ELSE j + 1]
    BY <1>2
  <2>3. \A j \in 1 .. Len(compactions) - 1 : compactions'[j] \in Turns /\ compactions'[j] \in Held
    BY <1>3, <1>4, <2>2, HeldTurns DEF ConvInv
  <2>4. compactions' \in [1 .. Len(compactions) - 1 -> Turns]
    BY <1>2, <2>3
  <2> QED
    BY <2>1, <2>3, <2>4
<1>6. CASE done
  <2> DEFINE h == CompactConversation(compactions[i])
  <2>1. Fits(h) /\ Remember(h, saved)
    BY <1>2, <1>3, <1>6, CompactedFits
  <2> HIDE DEF h
  <2> QED
    BY <1>1, <1>5, <2>1, Remembers, Unmoved
<1>7. CASE ~done
  BY <1>1, <1>2, <1>5, <1>7, Unmoved, StoreMoves DEF store
<1> QED
  BY <1>6, <1>7

-----------------------------------------------------------------------------
(* The invariant, and what it gives *)

LEMMA ConvStarts == ASSUME Init PROVE ConvInv
<1> DEFINE none == <<>>
           first == [id |-> 1, history |-> none]
<1>1. none \in Turns /\ none \in Seq(Commands) /\ none \in Seq(Turns) /\ none \in Seq(RunKinds)
  BY DEF Turns
<1>2. Unstarted \in RunTypes /\ Unstarted.base = none /\ Unstarted.phase = "none"
  <2> DEFINE fresh == Run(none)
  <2>1. Unstarted = [fresh EXCEPT !.phase = "none"]
    BY DEF Unstarted
  <2>2. fresh = [phase |-> "running", base |-> none, backlog |-> none, states |-> 0,
                 cancelled |-> FALSE]
    BY DEF Run
  <2> HIDE DEF none, fresh
  <2>3. fresh \in RunTypes /\ fresh.base = none
    BY <1>1, <2>2 DEF RunTypes, RunPhases
  <2> QED
    BY <2>1, <2>3 DEF RunTypes, RunPhases
<1>3. /\ Nothing \in [id : Nat, history : Turns, saved : BOOLEAN] /\ Nothing.history = none
  <2>1. Nothing = [id |-> 0, history |-> none, saved |-> FALSE]
    BY DEF Nothing
  <2> HIDE DEF none
  <2> QED
    BY <1>1, <2>1
<1>4. current = first /\ commands = none /\ compactions = none
  BY DEF Init
<1>5. /\ resuming = Nothing /\ submitted = 0 /\ created = 1
      /\ runs = [p \in Prompts |-> Unstarted] /\ disk = [s \in Sessions |-> NoFile]
  BY DEF Init
<1>6. DOMAIN none = {}
  OBVIOUS
<1>7. first \in [id : Nat, history : Turns] /\ first.history = none
  <2> HIDE DEF none
  <2> QED
    BY <1>1
<1> HIDE DEF none, first
<1>8. ConvTypes
  BY <1>1, <1>2, <1>3, <1>4, <1>5, <1>7 DEF ConvTypes
<1>9. Held \subseteq {none}
  BY <1>2, <1>3, <1>4, <1>5, <1>6, <1>7 DEF Held
<1>10. Submits = {}
  BY <1>4, <1>6 DEF Submits
<1>11. HeldOrdered
  BY <1>6, <1>9 DEF HeldOrdered, Ordered, Below
<1>12. QueueYounger
  BY <1>10 DEF QueueYounger
<1>13. RunsYounger
  BY <1>2, <1>5 DEF RunsYounger
<1> QED
  BY <1>8, <1>11, <1>12, <1>13 DEF ConvInv

LEMMA ConvSteps == ASSUME ConvInv, [Next]_vars PROVE ConvInv'
<1>1. CASE User
  BY <1>1, UserStep
<1>2. CASE Interface
  BY <1>2, InterfaceStep
<1>3. CASE CommandLoop
  BY <1>3, Submitted, CancelStep, SessionStep, CompactStep DEF CommandLoop
<1>4. CASE \E p \in Prompts : RunState(p) \/ Ends(p) \/ Bridge(p) \/ Finisher(p)
  BY <1>4, RunStep, FinisherStep
<1>5. CASE CompactAndReport
  BY <1>5, CompactionStep
<1>6. CASE UNCHANGED vars
  <2>1. QueueMoves /\ UNCHANGED <<submitted, runs, current, created, disk, resuming, compactions>>
    BY <1>6 DEF vars, QueueMoves
  <2> QED
    BY <2>1, Quiet
<1> QED
  BY <1>1, <1>2, <1>3, <1>4, <1>5, <1>6 DEF Next

LEMMA ConvHolds == Spec => []ConvInv
  BY ConvStarts, ConvSteps, PTL DEF Spec

\* No history, in memory or on disk, shows two turns the other way round than they
\* were submitted, nor one turn twice, for any number of prompts and commands.
THEOREM HistoriesOrdered == Spec => []OrderKept
<1>1. ASSUME ConvInv PROVE OrderKept
  <2>1. Histories \subseteq Held
    BY DEF Histories, Held
  <2> QED
    BY <1>1, <2>1 DEF ConvInv, HeldOrdered, Ordered, OrderKept
<1> QED
  BY <1>1, ConvHolds, PTL

\* No step writes or removes the file of a session that is neither the one in
\* memory, nor the one a fork or a resume is about to make so.
THEOREM OthersUntouched == Spec => OnlyCurrentWritten
<1>1. ASSUME ConvInv, [Next]_vars
      PROVE  [\A s \in Sessions :
                disk'[s] # disk[s] => s \in {current.id, current'.id, resuming.id}]_vars
  <2> SUFFICES ASSUME Next, NEW s \in Sessions, disk'[s] # disk[s]
               PROVE  s \in {current.id, current'.id, resuming.id}
    BY <1>1
  <2>1. disk \in [Sessions -> Turns \cup {NoFile}]
    BY <1>1 DEF ConvInv, ConvTypes
  <2>2. \/ ClearConversation \/ ForkSession \/ SaveResumed \/ CompactAndReport
        \/ \E p \in Prompts : HandleCompletedRun(p)
    BY DEF Next, User, TypePrompt, TypeReview, Interrupt, TypeSession, Interface, ReceiveState,
           ReceiveEnd, ReceiveBlocking, CommandLoop, SubmitChat, CancelProviderRequest,
           NewSession, ResumeSession, InstallResumed, CompactContext, RunState, Ends,
           RunCompletes, RunCancelled, RunFails, Bridge, Finisher, AutoCompact, store
  <2>3. CASE ClearConversation
    BY <2>1, <2>3 DEF ClearConversation
  <2>4. CASE ForkSession
    <3>1. current'.id = created + 1
      BY <2>4 DEF ForkSession, Create, Fresh
    <3> QED
      BY <2>1, <2>4, <3>1 DEF ForkSession
  <2>5. CASE SaveResumed
    BY <2>1, <2>5 DEF SaveResumed
  <2>6. ASSUME NEW h, NEW saved, Remember(h, saved) PROVE s = current.id
    BY <2>1, <2>6 DEF Remember
  <2>7. CASE CompactAndReport
    <3>1. \E h, saved : Remember(h, saved)
      BY <2>7 DEF CompactAndReport, store
    <3> QED
      BY <2>6, <3>1
  <2>8. CASE \E p \in Prompts : HandleCompletedRun(p)
    <3>1. \E h, saved : Remember(h, saved)
      BY <2>8 DEF HandleCompletedRun
    <3> QED
      BY <2>6, <3>1
  <2> QED
    BY <2>2, <2>3, <2>4, <2>5, <2>7, <2>8
<1> QED
  BY <1>1, ConvHolds, PTL DEF OnlyCurrentWritten, Spec

=============================================================================
