---------------------------- MODULE Conversation ----------------------------
(***************************************************************************)
(* One conversation: the interface submits prompts, or keeps one of them   *)
(* back while a run is active; the command loop starts runs over a         *)
(* snapshot of the session's history; a run, its event bridge and its      *)
(* finisher proceed on their own; compaction and the session commands      *)
(* change the session under their feet.                                    *)
(*                                                                         *)
(* Messages are kept as sequences of their kinds; a turn of a history is   *)
(* the number of the prompt that began it, and Summary stands for the one  *)
(* message a compaction leaves of everything older.                        *)
(***************************************************************************)
EXTENDS Naturals, Sequences, FiniteSets

CONSTANTS
  MaxPrompts,       \* prompts submitted in one behaviour
  MaxActs,          \* interrupts and session commands in one behaviour
  MaxCommands,      \* user commands that may wait for the command loop
  MaxStates,        \* activity events one run reports before it ends
  KeepRecent,       \* COMPACT_KEEP_RECENT_TURNS
  Overlap,          \* TRUE: /review and /init may start a run beside another
  Overtake,         \* TRUE: an error's report may pass events the bridge holds
  Saves,            \* results of storing a session, a subset of BOOLEAN
  NoFile            \* what the store holds for a session never saved

ASSUME ConversationAssumption ==
  /\ MaxPrompts \in Nat /\ MaxActs \in Nat /\ MaxCommands \in Nat \ {0}
  /\ MaxStates \in Nat /\ KeepRecent \in Nat \ {0}
  /\ Saves \in (SUBSET BOOLEAN) \ {{}} /\ Overlap \in BOOLEAN /\ Overtake \in BOOLEAN
  /\ NoFile \notin Seq(Nat)

VARIABLES
  busy,       \* the interface's activity is some
  queued,     \* a prompt waits in the interface's one slot
  blocked,    \* the interface shows a blocking error
  commands,   \* interface to command loop
  events,     \* everyone to interface
  submitted,  \* prompts begun so far
  acts,       \* interrupts and session commands so far
  runs,       \* prompt -> its run
  active,     \* the run whose token active_cancellation holds, 0 for none
  current,    \* the session in memory
  created,    \* sessions created so far
  disk,       \* session -> its stored history
  resuming,   \* a session /resume has loaded and not yet installed
  compactions \* histories being summarised

vars == <<busy, queued, blocked, commands, events, submitted, acts, runs, active,
          current, created, disk, resuming, compactions>>

tui == <<busy, queued, blocked>>
store == <<current, created, disk, resuming>>

Sessions == 1 .. MaxActs + 1   \* each act creates one session at most
Prompts == 1 .. MaxPrompts
Summary == 0
Nothing == [id |-> 0, history |-> <<>>, saved |-> FALSE]
Run(base) == [phase |-> "running", base |-> base, backlog |-> <<>>,
              states |-> 0, cancelled |-> FALSE]
Unstarted == [Run(<<>>) EXCEPT !.phase = "none"]

-----------------------------------------------------------------------------
(* The interface *)

\* The bound leaves room for the prompt kept back.
Room == submitted + (IF queued THEN 1 ELSE 0) < MaxPrompts

Begin(kind) ==
  /\ submitted' = submitted + 1
  /\ busy' = TRUE
  /\ commands' = Append(commands, [kind |-> kind, arg |-> submitted + 1])

Send(kind, arg) ==
  /\ acts < MaxActs
  /\ acts' = acts + 1
  /\ commands' = Append(commands, [kind |-> kind, arg |-> arg])

MayType == ~blocked /\ Len(commands) < MaxCommands

TypePrompt ==
  /\ MayType
  /\ \/ /\ ~busy /\ Room
        /\ Begin("submit")
        /\ UNCHANGED queued
     \/ /\ busy /\ Room
        /\ queued' = TRUE
        /\ UNCHANGED <<busy, commands, submitted>>
  /\ UNCHANGED <<acts, blocked, events, runs, active, store, compactions>>

TypeReview ==
  /\ MayType
  /\ Overlap \/ ~busy
  /\ Room
  /\ Begin("submit")
  /\ UNCHANGED <<acts, queued, blocked, events, runs, active, store, compactions>>

Interrupt ==
  /\ MayType
  /\ busy
  /\ Send("cancel", 0)
  /\ UNCHANGED <<tui, events, submitted, runs, active, store, compactions>>

TypeSession ==
  /\ MayType
  /\ \/ Send("new", 0)
     \/ Send("clear", 0)
     \/ Send("fork", 0)
     \/ \E s \in Sessions : disk[s] # NoFile /\ Send("resume", s)
     \/ ~busy /\ Send("compact", 0)
  /\ UNCHANGED <<tui, events, submitted, runs, active, store, compactions>>

ReceiveState ==
  /\ events # <<>> /\ Head(events) = "state"
  /\ events' = Tail(events)
  /\ busy' = TRUE
  /\ UNCHANGED <<acts, queued, blocked, commands, submitted, runs, active, store, compactions>>

\* Mutant: AgentStopped leaves the kept prompt where it is.
ReceiveEndUnlessStopped ==
  /\ events # <<>> /\ Head(events) \in {"completed", "cancelled", "stopped", "failed"}
  /\ events' = Tail(events)
  /\ IF queued /\ Head(events) # "stopped"
     THEN queued' = FALSE /\ Begin("submit")
     ELSE busy' = FALSE /\ UNCHANGED <<queued, commands, submitted>>
  /\ UNCHANGED <<acts, blocked, runs, active, store, compactions>>

\* AgentCompleted, AgentCancelled, AgentStopped and ProviderFailed free the slot.
ReceiveEnd ==
  /\ events # <<>> /\ Head(events) \in {"completed", "cancelled", "stopped", "failed"}
  /\ events' = Tail(events)
  /\ queued' = FALSE
  /\ \/ queued /\ Begin("submit")
     \/ ~queued /\ busy' = FALSE /\ UNCHANGED <<commands, submitted>>
  /\ UNCHANGED <<acts, blocked, runs, active, store, compactions>>

ReceiveBlocking ==
  /\ events # <<>> /\ Head(events) = "blocking"
  /\ events' = Tail(events)
  /\ busy' = FALSE
  /\ blocked' = TRUE
  /\ UNCHANGED <<acts, queued, commands, submitted, runs, active, store, compactions>>

-----------------------------------------------------------------------------
(* The command loop: one command at a time *)

Handles(kind) ==
  /\ resuming = Nothing
  /\ commands # <<>> /\ Head(commands).kind = kind
  /\ commands' = Tail(commands)

SubmitChat ==
  /\ Handles("submit")
  /\ LET p == Head(commands).arg
     IN  runs' = [runs EXCEPT ![p] = Run(current.history)] /\ active' = p
  /\ UNCHANGED <<acts, tui, events, submitted, store, compactions>>

CancelProviderRequest ==
  /\ Handles("cancel")
  /\ runs' = IF active = 0 THEN runs ELSE [runs EXCEPT ![active].cancelled = TRUE]
  /\ active' = 0
  /\ UNCHANGED <<acts, tui, events, submitted, store, compactions>>

Fresh(history) == [id |-> created + 1, history |-> history]

Create(history) ==
  /\ created' = created + 1
  /\ current' = Fresh(history)

NewSession ==
  /\ Handles("new")
  /\ Create(<<>>)
  /\ UNCHANGED <<acts, tui, events, submitted, runs, active, disk, resuming, compactions>>

ClearConversation ==
  /\ Handles("clear")
  /\ Create(<<>>)
  /\ disk' = [disk EXCEPT ![current.id] = NoFile]
  /\ UNCHANGED <<acts, tui, events, submitted, runs, active, resuming, compactions>>

\* Mutant: the fork is stored and the conversation goes on in the original.
ForkStays ==
  /\ Handles("fork")
  /\ created' = created + 1
  /\ disk' = [disk EXCEPT ![created + 1] = current.history]
  /\ UNCHANGED <<acts, tui, events, submitted, runs, active, current, resuming, compactions>>

ForkSession ==
  /\ Handles("fork")
  /\ Create(current.history)
  /\ disk' = [disk EXCEPT ![current.id] = current.history,
                          ![created + 1] = current.history]
  /\ UNCHANGED <<acts, tui, events, submitted, runs, active, resuming, compactions>>

\* /resume reads the file, stores it with a new date, and only then takes the
\* session's lock to install what it read.
ResumeSession ==
  /\ Handles("resume")
  /\ LET s == Head(commands).arg
     IN  resuming' = IF disk[s] = NoFile THEN Nothing
                     ELSE [id |-> s, history |-> disk[s], saved |-> FALSE]
  /\ UNCHANGED <<acts, tui, events, submitted, runs, active, current, created, disk, compactions>>

SaveResumed ==
  /\ resuming # Nothing /\ ~resuming.saved
  /\ disk' = [disk EXCEPT ![resuming.id] = resuming.history]
  /\ resuming' = [resuming EXCEPT !.saved = TRUE]
  /\ UNCHANGED <<tui, commands, events, submitted, acts, runs, active, current, created, compactions>>

InstallResumed ==
  /\ resuming.saved
  /\ current' = [id |-> resuming.id, history |-> resuming.history]
  /\ resuming' = Nothing
  /\ UNCHANGED <<tui, commands, events, submitted, acts, runs, active, created, disk, compactions>>

CompactContext ==
  /\ Handles("compact")
  /\ compactions' = IF current.history = <<>> THEN compactions
                    ELSE Append(compactions, current.history)
  /\ UNCHANGED <<acts, tui, events, submitted, runs, active, store>>

-----------------------------------------------------------------------------
(* A run: the agent, the bridge that forwards its events, the finisher *)

Step(p, next) == runs' = [runs EXCEPT ![p] = next]

RunState(p) ==
  /\ runs[p].phase = "running" /\ runs[p].states < MaxStates
  /\ Step(p, [runs[p] EXCEPT !.states = @ + 1, !.backlog = Append(@, "state")])
  /\ UNCHANGED <<tui, commands, events, submitted, acts, active, store, compactions>>

RunCompletes(p) ==
  /\ runs[p].phase = "running"
  /\ Step(p, [runs[p] EXCEPT !.phase = "finishing", !.backlog = Append(@, "completed")])
  /\ UNCHANGED <<tui, commands, events, submitted, acts, active, store, compactions>>

RunCancelled(p) ==
  /\ runs[p].phase = "running" /\ runs[p].cancelled
  /\ Step(p, [runs[p] EXCEPT !.phase = "ended", !.backlog = Append(@, "cancelled")])
  /\ UNCHANGED <<tui, commands, events, submitted, acts, active, store, compactions>>

\* The task that awaited the run reports its error on the interface's channel,
\* past whatever the bridge still holds.
RunFails(p) ==
  /\ runs[p].phase = "running"
  /\ Overtake \/ runs[p].backlog = <<>>
  /\ Step(p, [runs[p] EXCEPT !.phase = "ended"])
  /\ \E kind \in {"failed", "blocking", "stopped"} : events' = Append(events, kind)
  /\ UNCHANGED <<acts, tui, commands, submitted, active, store, compactions>>

Bridge(p) ==
  /\ runs[p].backlog # <<>>
  /\ events' = Append(events, Head(runs[p].backlog))
  /\ Step(p, [runs[p] EXCEPT !.backlog = Tail(@)])
  /\ UNCHANGED <<acts, tui, commands, submitted, active, store, compactions>>

\* A failed save is ignored.
Remember(history, saved) ==
  /\ current' = [current EXCEPT !.history = history]
  /\ disk' = IF saved THEN [disk EXCEPT ![current.id] = history] ELSE disk
  /\ UNCHANGED <<created, resuming>>

\* Mutant: the turn is appended to whatever the history is by now.
HandleCompletedAppends(p) ==
  /\ runs[p].phase = "finishing"
  /\ \E saved \in Saves : Remember(Append(current.history, p), saved)
  /\ Step(p, [runs[p] EXCEPT !.phase = "recorded"])
  /\ UNCHANGED <<tui, commands, events, submitted, acts, active, compactions>>

HandleCompletedRun(p) ==
  /\ runs[p].phase = "finishing"
  /\ \E saved \in Saves : Remember(Append(runs[p].base, p), saved)
  /\ Step(p, [runs[p] EXCEPT !.phase = "recorded"])
  /\ UNCHANGED <<tui, commands, events, submitted, acts, active, compactions>>

\* The threshold on the last turn's input tokens is either reached or not; the
\* history to summarise is read under the lock a second time.
AutoCompact(p) ==
  /\ runs[p].phase = "recorded"
  /\ Step(p, [runs[p] EXCEPT !.phase = "ended"])
  /\ \E over \in BOOLEAN :
       compactions' = IF over /\ current.history # <<>>
                      THEN Append(compactions, current.history) ELSE compactions
  /\ UNCHANGED <<tui, commands, events, submitted, acts, active, store>>

CompactConversation(history) ==
  IF Len(history) <= KeepRecent THEN history
  ELSE <<Summary>> \o SubSeq(history, Len(history) - KeepRecent + 1, Len(history))

CompactAndReport ==
  /\ compactions # <<>>
  /\ \E i \in DOMAIN compactions, done \in BOOLEAN, saved \in Saves :
       /\ compactions' = [j \in 1 .. Len(compactions) - 1 |->
                            compactions[IF j < i THEN j ELSE j + 1]]
       /\ IF done THEN Remember(CompactConversation(compactions[i]), saved)
          ELSE UNCHANGED store
  /\ UNCHANGED <<tui, commands, events, submitted, acts, runs, active>>

-----------------------------------------------------------------------------
Init ==
  /\ busy = FALSE /\ queued = FALSE /\ blocked = FALSE
  /\ commands = <<>> /\ events = <<>> /\ submitted = 0 /\ acts = 0
  /\ runs = [p \in Prompts |-> Unstarted]
  /\ active = 0
  /\ current = [id |-> 1, history |-> <<>>]
  /\ created = 1
  /\ disk = [s \in Sessions |-> NoFile]
  /\ resuming = Nothing
  /\ compactions = <<>>

User == TypePrompt \/ TypeReview \/ Interrupt \/ TypeSession

Interface == ReceiveState \/ ReceiveEnd \/ ReceiveBlocking

CommandLoop ==
  \/ SubmitChat \/ CancelProviderRequest \/ NewSession \/ ClearConversation
  \/ ForkSession \/ CompactContext
  \/ ResumeSession \/ SaveResumed \/ InstallResumed

Ends(p) == RunCompletes(p) \/ RunCancelled(p) \/ RunFails(p)

Finisher(p) == HandleCompletedRun(p) \/ AutoCompact(p)

Next ==
  \/ User
  \/ Interface
  \/ CommandLoop
  \/ \E p \in Prompts : RunState(p) \/ Ends(p) \/ Bridge(p) \/ Finisher(p)
  \/ CompactAndReport

\* The terminal loop and the command loop never stop polling, and the runtime
\* schedules every spawned task; that a run ends is the agent loop's promise.
Fairness ==
  /\ WF_vars(Interface) /\ WF_vars(CommandLoop)
  /\ \A p \in Prompts : WF_vars(Ends(p)) /\ WF_vars(Bridge(p)) /\ WF_vars(Finisher(p))

Spec == Init /\ [][Next]_vars /\ Fairness

-----------------------------------------------------------------------------
(* Properties *)

Histories == {current.history} \cup {disk[s] : s \in {t \in Sessions : disk[t] # NoFile}}

\* OrderKept: whatever finishes in whatever order, a history never shows two
\* turns the other way round than they were submitted, nor one turn twice.
\* handle_completed_run replaces the history by the run's own snapshot and turn.
OrderKept ==
  \A h \in Histories : \A i, j \in DOMAIN h : i < j /\ h[j] # Summary => h[i] < h[j]

\* OnlyCurrentWritten: /fork leaves the original session untouched, and so does
\* every run, compaction and session command: a stored session changes only
\* while it is the one in memory, or is being made so by /fork or /resume.
OnlyCurrentWritten ==
  [][\A s \in Sessions :
       disk'[s] # disk[s] => s \in {current.id, current'.id, resuming.id}]_vars

\* QueueDrains: a prompt kept back while a run is active is submitted (or
\* replaced by the user), unless a blocking error shows: every run reports one
\* end after its last activity, and each end hands the slot out.
QueueDrains == queued ~> ~queued \/ blocked

\* TailSurvives: "The tail survives untouched", says the comment on
\* COMPACT_KEEP_RECENT_TURNS: when a compaction changes the history, the most
\* recent turns of the session it changes are still there.
TailSurvives ==
  [][CompactAndReport =>
       LET h == current.history
       IN  \A i \in DOMAIN h : i > Len(h) - KeepRecent =>
             \E j \in DOMAIN current'.history : current'.history[j] = h[i]]_vars

\* OneTask: "Only one task executes at a time", docs/SECURITY.md says.
OneTask == Cardinality({p \in Prompts : runs[p].phase = "running"}) <= 1

\* TurnsKept: a run that finishes never takes a recorded turn out of a history.
TurnsKept ==
  [][(\E p \in Prompts : HandleCompletedRun(p)) =>
       \A i \in DOMAIN current.history :
         \E j \in DOMAIN current'.history : current'.history[j] = current.history[i]]_vars

=============================================================================
