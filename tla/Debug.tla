-------------------------------- MODULE Debug --------------------------------
(***************************************************************************)
(* /debug: an investigation that belongs to the session.  The command loop *)
(* changes it, the interface keeps a copy that decides whether a text the  *)
(* user enters is an answer or a prompt, and the two are told of each      *)
(* other's steps by queues.                                                *)
(*                                                                         *)
(* An answer is the number of the question that was shown when it was      *)
(* entered.  Evidence, hypothesis and commands are never written.          *)
(***************************************************************************)
EXTENDS Naturals, Sequences

CONSTANTS
  QuestionCount,   \* DebugInvestigation::QUESTIONS.len(): 6 in the code
  MaxEntered,      \* lines the user enters
  Clears           \* TRUE: /clear is one of them

ASSUME DebugAssumption ==
  QuestionCount \in Nat \ {0} /\ MaxEntered \in Nat /\ Clears \in BOOLEAN

VARIABLES
  shown,           \* the interface's copy of the investigation
  investigated,    \* the session in memory: its number and its investigation
  debugFiles,      \* session -> the investigation in its file, or NoInvestigation
  entered,         \* lines on their way to the command loop
  debugNews,       \* events on their way to the interface
  investigations,  \* the investigations whose run the interface began
  starts, created, linesEntered

debugVars == <<shown, investigated, debugFiles, entered, debugNews, investigations,
               starts, created, linesEntered>>

SessionIds == 1 .. MaxEntered + 1
\* number tells the investigations apart.
Uninvestigated == [number |-> 0, described |-> FALSE, answers |-> <<>>, stopped |-> FALSE]
NoInvestigation == [Uninvestigated EXCEPT !.answers = <<0>>]

Started(d) == d.number # 0
Asking(d) == Started(d) /\ ~d.described /\ Len(d.answers) < QuestionCount
Complete(d) == Started(d) /\ (d.described \/ Len(d.answers) = QuestionCount)

-----------------------------------------------------------------------------
(* What the user enters *)

Enters(kind, arg) ==
  /\ linesEntered < MaxEntered
  /\ linesEntered' = linesEntered + 1
  /\ entered' = Append(entered, [kind |-> kind, arg |-> arg])
  /\ UNCHANGED <<shown, investigated, debugFiles, debugNews, investigations, starts, created>>

\* Without a description, an investigation in progress is only shown again.
EnterDebug ==
  \/ ~(Started(shown) /\ ~shown.stopped) /\ Enters("start", 0)
  \/ Enters("start", 1)
  \/ Enters("stop", 0)

\* Any text, while the copy has a question open.
EnterAnswer == Asking(shown) /\ Enters("answer", Len(shown.answers) + 1)

EnterSession ==
  \/ Enters("new", 0)
  \/ Enters("fork", 0)
  \/ Clears /\ Enters("clear", 0)
  \/ \E s \in SessionIds : debugFiles[s] # NoInvestigation /\ Enters("resume", s)

-----------------------------------------------------------------------------
(* The command loop *)

TakesLine(kind) == entered # <<>> /\ Head(entered).kind = kind /\ entered' = Tail(entered)

DebugEvent(kind, d) == [kind |-> kind, debug |-> d]
Published(d) == debugNews' = Append(debugNews, DebugEvent("updated", d))

\* The change is saved, published, and followed by the run it may be ready for.
Investigates(d) ==
  /\ investigated' = [investigated EXCEPT !.debug = d]
  /\ debugFiles' = [debugFiles EXCEPT ![investigated.id] = d]
  /\ debugNews' = debugNews \o <<DebugEvent("updated", d)>>
                    \o (IF Complete(d) THEN <<DebugEvent("ready", d)>> ELSE <<>>)
  /\ UNCHANGED <<shown, investigations, created, linesEntered>>

DebugStart ==
  /\ TakesLine("start")
  /\ starts' = starts + 1
  /\ Investigates([Uninvestigated EXCEPT !.number = starts + 1, !.described = Head(entered).arg = 1])

DebugAnswer ==
  /\ TakesLine("answer")
  /\ LET d == investigated.debug
     IN  Investigates(IF Asking(d) THEN [d EXCEPT !.answers = Append(@, Head(entered).arg)] ELSE d)
  /\ UNCHANGED starts

DebugStop ==
  /\ TakesLine("stop")
  /\ LET d == [investigated.debug EXCEPT !.stopped = TRUE]
     IN  /\ investigated' = [investigated EXCEPT !.debug = d]
         /\ debugFiles' = [debugFiles EXCEPT ![investigated.id] = d]
         /\ Published(d)
  /\ UNCHANGED <<shown, investigations, starts, created, linesEntered>>

Installs(id, d) == investigated' = [id |-> id, debug |-> d]

NewDebugSession ==
  /\ TakesLine("new")
  /\ Installs(created + 1, Uninvestigated) /\ created' = created + 1
  /\ Published(Uninvestigated)
  /\ UNCHANGED <<shown, debugFiles, investigations, starts, linesEntered>>

\* The file goes, and nobody is told of the new investigation.
ClearDebugSession ==
  /\ TakesLine("clear")
  /\ Installs(created + 1, Uninvestigated) /\ created' = created + 1
  /\ debugFiles' = [debugFiles EXCEPT ![investigated.id] = NoInvestigation]
  /\ UNCHANGED <<shown, debugNews, investigations, starts, linesEntered>>

ForkDebugSession ==
  /\ TakesLine("fork")
  /\ Installs(created + 1, investigated.debug) /\ created' = created + 1
  /\ debugFiles' = [debugFiles EXCEPT ![investigated.id] = investigated.debug,
                                      ![created + 1] = investigated.debug]
  /\ Published(investigated.debug)
  /\ UNCHANGED <<shown, investigations, starts, linesEntered>>

\* Mutant: the resumed session's investigation is installed and not published.
ResumeSilently ==
  /\ TakesLine("resume")
  /\ LET s == Head(entered).arg
     IN  IF debugFiles[s] = NoInvestigation THEN UNCHANGED investigated
         ELSE Installs(s, debugFiles[s])
  /\ UNCHANGED <<shown, debugFiles, debugNews, investigations, starts, created, linesEntered>>

ResumeDebugSession ==
  /\ TakesLine("resume")
  /\ LET s == Head(entered).arg
     IN  IF debugFiles[s] = NoInvestigation THEN UNCHANGED <<investigated, debugNews>>
         ELSE Installs(s, debugFiles[s]) /\ Published(debugFiles[s])
  /\ UNCHANGED <<shown, debugFiles, investigations, starts, created, linesEntered>>

-----------------------------------------------------------------------------
(* The interface *)

ReceiveUpdated ==
  /\ debugNews # <<>> /\ Head(debugNews).kind = "updated"
  /\ shown' = Head(debugNews).debug
  /\ debugNews' = Tail(debugNews)
  /\ UNCHANGED <<investigated, debugFiles, entered, investigations, starts, created, linesEntered>>

\* The prompt begins a run at once, whatever else is running.
ReceiveReady ==
  /\ debugNews # <<>> /\ Head(debugNews).kind = "ready"
  /\ investigations' = Append(investigations, Head(debugNews).debug)
  /\ debugNews' = Tail(debugNews)
  /\ UNCHANGED <<shown, investigated, debugFiles, entered, starts, created, linesEntered>>

-----------------------------------------------------------------------------
DebugInit ==
  /\ shown = Uninvestigated /\ investigated = [id |-> 1, debug |-> Uninvestigated]
  /\ debugFiles = [s \in SessionIds |-> NoInvestigation]
  /\ entered = <<>> /\ debugNews = <<>> /\ investigations = <<>>
  /\ starts = 0 /\ created = 1 /\ linesEntered = 0

DebugNext ==
  \/ EnterDebug \/ EnterAnswer \/ EnterSession
  \/ DebugStart \/ DebugAnswer \/ DebugStop
  \/ NewDebugSession \/ ClearDebugSession \/ ForkDebugSession \/ ResumeDebugSession
  \/ ReceiveUpdated \/ ReceiveReady

DebugSpec == DebugInit /\ [][DebugNext]_debugVars

-----------------------------------------------------------------------------
(* Properties *)

\* InvestigationShown: "The investigation is persisted with its session, including
\* when a session is resumed or forked" (docs/DEBUG.md 16): once nothing is on the
\* way, the interface asks the question the session has open, and a file of the
\* session holds its answers.
InvestigationShown ==
  /\ entered = <<>> /\ debugNews = <<>> => shown = investigated.debug
  /\ debugFiles[investigated.id] \in {NoInvestigation, investigated.debug}
  /\ Started(investigated.debug) => debugFiles[investigated.id] = investigated.debug

\* StopHolds: "`/debug stop` cancels the active investigation" (docs/DEBUG.md 13),
\* so none begins after it.
StopHolds == \A i \in DOMAIN investigations : ~investigations[i].stopped

\* BegunOnce: an investigation begins one run.
BegunOnce ==
  \A i, j \in DOMAIN investigations :
    investigations[i].number = investigations[j].number => i = j

\* AnswersFit: an answer is to the question it is kept for: they are answered "one at
\* a time" (docs/DEBUG.md 7).
AnswersFit == \A i \in DOMAIN investigated.debug.answers : investigated.debug.answers[i] = i

=============================================================================
