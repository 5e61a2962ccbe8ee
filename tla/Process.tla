------------------------------ MODULE Process ------------------------------
(***************************************************************************)
(* A command run for a tool or for the user: the child, a process it may   *)
(* leave behind with its pipes, and the runner that reads both pipes until *)
(* they end, the run is cancelled or the deadline passes, and then reaps   *)
(* the child.                                                              *)
(***************************************************************************)
EXTENDS Naturals

CONSTANT
  ClosesEarly   \* TRUE: a child may close its output and go on running

ASSUME ProcessAssumption == ClosesEarly \in BOOLEAN

VARIABLES
  child,       \* the process started: none, running, exited, killed
  leftover,    \* a process the child started: none, running, exited
  holders,     \* pipe -> the processes that hold its writing end
  unread,      \* pipe -> TRUE while written output was not read
  isOpen,      \* pipe -> the runner has not seen its end
  runner,      \* none, reading, waiting, killing, done
  outcome,
  tokenSet,    \* the run's cancellation
  late,        \* the deadline has passed
  owner        \* who started it: none, the agent's tool, the user

processVars == <<child, leftover, holders, unread, isOpen, runner, outcome, tokenSet, late, owner>>
childVars == <<child, leftover, holders, unread>>

Pipes == {"stdout", "stderr"}

-----------------------------------------------------------------------------
(* The child and what it leaves behind *)

Writes1(s) ==
  /\ holders[s] # {} /\ ~unread[s]
  /\ unread' = [unread EXCEPT ![s] = TRUE]
  /\ UNCHANGED <<child, leftover, holders, isOpen, runner, outcome, tokenSet, late, owner>>

Forks ==
  /\ child = "running" /\ leftover = "none"
  /\ leftover' = "running"
  /\ holders' = [s \in Pipes |-> IF "child" \in holders[s] THEN holders[s] \cup {"leftover"} ELSE {}]
  /\ UNCHANGED <<child, unread, isOpen, runner, outcome, tokenSet, late, owner>>

Closes1(s) ==
  /\ ClosesEarly /\ child = "running" /\ "child" \in holders[s]
  /\ holders' = [holders EXCEPT ![s] = @ \ {"child"}]
  /\ UNCHANGED <<child, leftover, unread, isOpen, runner, outcome, tokenSet, late, owner>>

ChildExits ==
  /\ child = "running"
  /\ child' = "exited"
  /\ holders' = [s \in Pipes |-> holders[s] \ {"child"}]
  /\ UNCHANGED <<leftover, unread, isOpen, runner, outcome, tokenSet, late, owner>>

LeftoverExits ==
  /\ leftover = "running"
  /\ leftover' = "exited"
  /\ holders' = [s \in Pipes |-> holders[s] \ {"leftover"}]
  /\ UNCHANGED <<child, unread, isOpen, runner, outcome, tokenSet, late, owner>>

-----------------------------------------------------------------------------
(* run_process *)

Spawns(whose) ==
  /\ runner = "none"
  /\ owner' = whose
  /\ \/ /\ child' = "running" /\ runner' = "reading"
        /\ holders' = [s \in Pipes |-> {"child"}]
        /\ isOpen' = [s \in Pipes |-> TRUE]
        /\ UNCHANGED outcome
     \/ /\ runner' = "done" /\ outcome' = "notspawned"
        /\ UNCHANGED <<child, holders, isOpen>>
  /\ UNCHANGED <<leftover, unread, tokenSet, late>>

RunCommandTool == Spawns("tool")
RunShellCommand == Spawns("user")

\* The user's own command runs under a token that nobody keeps.
CancelCommand ==
  /\ owner = "tool" /\ ~tokenSet
  /\ tokenSet' = TRUE
  /\ UNCHANGED <<childVars, isOpen, runner, outcome, late, owner>>

DeadlinePasses ==
  /\ runner # "none" /\ ~late
  /\ late' = TRUE
  /\ UNCHANGED <<childVars, isOpen, runner, outcome, tokenSet, owner>>

AllEnded == \A s \in Pipes : ~isOpen[s]

\* The select is biased: cancellation, then the deadline, then the pipes.
ReadPipe(s) ==
  /\ runner = "reading" /\ isOpen[s] /\ ~tokenSet /\ ~late
  /\ \/ unread[s] /\ unread' = [unread EXCEPT ![s] = FALSE] /\ UNCHANGED isOpen
     \/ /\ ~unread[s] /\ holders[s] = {}
        /\ isOpen' = [isOpen EXCEPT ![s] = FALSE] /\ UNCHANGED unread
  /\ UNCHANGED <<child, leftover, holders, runner, outcome, tokenSet, late, owner>>

\* Mutant: the timer is part of no branch.
StopsOnlyCancelled ==
  /\ runner = "reading" /\ ~AllEnded /\ tokenSet
  /\ runner' = "killing" /\ outcome' = "cancelled"
  /\ UNCHANGED <<childVars, isOpen, tokenSet, late, owner>>

StopsReading ==
  /\ runner = "reading" /\ ~AllEnded /\ (tokenSet \/ late)
  /\ runner' = "killing"
  /\ outcome' = IF tokenSet THEN "cancelled" ELSE "timedout"
  /\ UNCHANGED <<childVars, isOpen, tokenSet, late, owner>>

\* Only the child itself is killed.
KillChild ==
  /\ runner = "killing"
  /\ child' = IF child = "running" THEN "killed" ELSE child
  /\ holders' = [s \in Pipes |-> holders[s] \ {"child"}]
  /\ runner' = "done"
  /\ UNCHANGED <<leftover, unread, isOpen, outcome, tokenSet, late, owner>>

\* Neither the deadline nor the token is looked at once both pipes have ended.
WaitsForExit ==
  /\ runner = "reading" /\ AllEnded
  /\ runner' = "waiting"
  /\ UNCHANGED <<childVars, isOpen, outcome, tokenSet, late, owner>>

ChildReaped ==
  /\ runner = "waiting" /\ child # "running"
  /\ runner' = "done" /\ outcome' = "completed"
  /\ UNCHANGED <<childVars, isOpen, tokenSet, late, owner>>

-----------------------------------------------------------------------------
ProcessInit ==
  /\ child = "none" /\ leftover = "none"
  /\ holders = [s \in Pipes |-> {}]
  /\ unread = [s \in Pipes |-> FALSE] /\ isOpen = [s \in Pipes |-> FALSE]
  /\ runner = "none" /\ outcome = "none" /\ tokenSet = FALSE /\ late = FALSE
  /\ owner = "none"

ProcessNext ==
  \/ RunCommandTool \/ RunShellCommand
  \/ Forks \/ ChildExits \/ LeftoverExits \/ CancelCommand \/ DeadlinePasses
  \/ StopsReading \/ KillChild \/ WaitsForExit \/ ChildReaped
  \/ \E s \in Pipes : Writes1(s) \/ Closes1(s) \/ ReadPipe(s)

\* The clock moves on and the runner is scheduled; the child promises nothing.
ProcessFairness ==
  /\ WF_processVars(DeadlinePasses) /\ WF_processVars(StopsReading) /\ WF_processVars(KillChild)
  /\ WF_processVars(WaitsForExit) /\ WF_processVars(ChildReaped)

ProcessSpec == ProcessInit /\ [][ProcessNext]_processVars /\ ProcessFairness

-----------------------------------------------------------------------------
(* Properties *)

\* CommandEnds: "Commands must support cancellation and timeouts" (SECURITY.md:353):
\* whatever a command and what it leaves behind do, the call returns.
CommandEnds == runner = "reading" ~> runner = "done"

\* TreeGone: a command that was stopped leaves nothing of it running; cancellation
\* terminates "the relevant process tree ... not only the immediate parent process"
\* (SECURITY.md:353).
TreeGone == runner = "done" /\ outcome # "completed" => leftover # "running"

\* TimedOutWasRunning: TimedOut is "terminated because it exceeded its timeout"
\* (process.rs 121), so a command that had exited is not reported so.
TimedOutWasRunning == runner = "done" /\ outcome = "timedout" => child = "killed"
=============================================================================
