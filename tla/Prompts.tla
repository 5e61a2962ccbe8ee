------------------------------- MODULE Prompts -------------------------------
(***************************************************************************)
(* Permission prompts and model-requested decisions.  A run asks the       *)
(* policy it was started under; an Ask stores the asker's reply channel in *)
(* the one slot the command loop answers through, sends the card to the    *)
(* interface and waits.  The user answers the card on the screen, which    *)
(* the loop hands to whoever the slot holds by then.                       *)
(***************************************************************************)
EXTENDS Naturals, Sequences

CONSTANTS
  MaxRuns,       \* runs submitted in one behaviour
  MaxAsks,       \* tool calls of one run
  MaxWaiting,    \* commands that may wait for the loop
  MaxModes,      \* mode changes in one behaviour
  Together,      \* TRUE: a run may start while another is active
  SubagentAsks   \* TRUE: a subagent, which shares the tool registry, may call ask_user

ASSUME PromptsAssumption ==
  /\ MaxRuns \in Nat \ {0} /\ MaxAsks \in Nat \ {0} /\ MaxWaiting \in Nat \ {0}
  /\ MaxModes \in Nat /\ Together \in BOOLEAN /\ SubagentAsks \in BOOLEAN

VARIABLES
  permissionMode, modeChanges,
  alwaysAllowed,   \* the scopes allowed for the session
  askers,          \* run -> where it stands
  pending,         \* slot -> whose sender it holds, Nobody for None
  cards,           \* slot -> the request on the screen
  asked, posted,   \* interface to command loop; everyone to interface
  begun, ended,    \* runs the interface submitted and saw end
  agreed           \* requests the user accepted while looking at them

promptsVars == <<permissionMode, modeChanges, alwaysAllowed, askers, pending,
                 cards, asked, posted, begun, ended, agreed>>

Modes == {"auto", "plan", "approve", "manual"}
ToolActions == {"read", "code", "doc", "low", "medium", "high", "question"}
Slots == {"permission", "guided"}
Subagent == MaxRuns + 1
Askers == 1 .. MaxRuns + 1
Nobody == 0
NoRequest == <<Nobody, 0>>

SlotOf(action) == IF action = "question" THEN "guided" ELSE "permission"
ScopeOf(action) == IF action \in {"code", "doc"} THEN "write" ELSE action
RequestOf(r) == <<r, askers[r].calls>>
Asker(mode, phase) ==
  [phase |-> phase, mode |-> mode, action |-> "read", calls |-> 0, reply |-> "none",
   cancelled |-> FALSE]

-----------------------------------------------------------------------------
(* Policies *)

\* The command decides alone when the program may be told by its arguments.
Risk(command) ==
  CASE command.shell -> "high"
    [] command.program = "git" -> IF command.reads THEN "low" ELSE "high"
    [] command.program = "dangerous" \/ command.destructive -> "high"
    [] command.program = "development" /\ command.hinted -> "low"
    [] OTHER -> "medium"

Commands == [program : {"git", "dangerous", "development", "other"}, shell : BOOLEAN,
             reads : BOOLEAN, destructive : BOOLEAN, hinted : BOOLEAN]

CommandActions == {Risk(c) : c \in Commands}

Asks(mode, action) ==
  CASE mode = "manual" -> ScopeOf(action) \notin alwaysAllowed
    [] mode = "approve" -> /\ action \in CommandActions \ {"low"}
                           /\ ScopeOf(action) \notin alwaysAllowed
    [] mode = "plan" -> action = "medium"
    [] OTHER -> FALSE

Denies(mode, action) == mode = "plan" /\ action \in {"code", "high"}

-----------------------------------------------------------------------------
(* A run: choose, register, show, wait *)

Moves(r, next) == askers' = [askers EXCEPT ![r] = next]
CallEnds(r) == [askers[r] EXCEPT !.phase = "idle", !.calls = @ + 1, !.reply = "none"]

MayCall(r) ==
  /\ askers[r].phase = "idle" /\ ~askers[r].cancelled
  /\ askers[r].calls < MaxAsks

\* Allowed or refused by the policy alone: nobody is asked.
Decided(r) ==
  /\ MayCall(r) /\ r # Subagent
  /\ \E a \in ToolActions \ {"question"} :
       Denies(askers[r].mode, a) \/ ~Asks(askers[r].mode, a)
  /\ Moves(r, CallEnds(r))
  /\ UNCHANGED <<permissionMode, modeChanges, alwaysAllowed, pending, cards, asked,
                 posted, begun, ended, agreed>>

\* The sender the slot held is dropped, which answers its asker with a refusal.
Register(r) ==
  /\ MayCall(r)
  /\ \E a \in ToolActions :
       /\ a = "question" \/ (Asks(askers[r].mode, a) /\ r # Subagent)
       /\ LET held == pending[SlotOf(a)]
              waits == [askers[r] EXCEPT !.phase = "registered", !.action = a]
          IN  askers' = [x \in Askers |->
                          IF x = r THEN waits
                          ELSE IF x = held THEN [askers[x] EXCEPT !.reply = "dropped"]
                          ELSE askers[x]]
       /\ pending' = [pending EXCEPT ![SlotOf(a)] = r]
  /\ UNCHANGED <<permissionMode, modeChanges, alwaysAllowed, cards, asked, posted,
                 begun, ended, agreed>>

ShowCard(r) ==
  /\ askers[r].phase = "registered"
  /\ posted' = Append(posted, [kind |-> SlotOf(askers[r].action), request |-> RequestOf(r)])
  /\ Moves(r, [askers[r] EXCEPT !.phase = "waiting"])
  /\ UNCHANGED <<permissionMode, modeChanges, alwaysAllowed, pending, cards, asked,
                 begun, ended, agreed>>

\* "once" and "always" proceed with the call, anything else refuses it.
Resolved(r) ==
  /\ askers[r].phase = "waiting" /\ askers[r].reply # "none"
  /\ alwaysAllowed' = alwaysAllowed \cup
       (IF askers[r].reply = "always" THEN {ScopeOf(askers[r].action)} ELSE {})
  /\ Moves(r, CallEnds(r))
  /\ UNCHANGED <<permissionMode, modeChanges, pending, cards, asked, posted, begun,
                 ended, agreed>>

\* Cancellation is looked at between calls only: a call that waits is answered first.
RunReturns(r) ==
  /\ askers[r].phase = "idle"
  /\ Moves(r, [askers[r] EXCEPT !.phase = "over"])
  /\ posted' = IF r = Subagent THEN posted
               ELSE Append(posted, [kind |-> "end", request |-> RequestOf(r)])
  /\ UNCHANGED <<permissionMode, modeChanges, alwaysAllowed, pending, cards, asked,
                 begun, ended, agreed>>

-----------------------------------------------------------------------------
(* The interface *)

Waits(command) ==
  /\ Len(asked) < MaxWaiting
  /\ asked' = Append(asked, command)

TypeRun ==
  /\ begun < MaxRuns
  /\ (begun = ended \/ Together)
  /\ Waits([kind |-> "submit", arg |-> begun + 1])
  /\ begun' = begun + 1
  /\ UNCHANGED <<permissionMode, modeChanges, alwaysAllowed, askers, pending, cards,
                 posted, ended, agreed>>

PressInterrupt ==
  /\ begun > ended
  /\ Waits([kind |-> "cancel", arg |-> ""])
  /\ UNCHANGED <<permissionMode, modeChanges, alwaysAllowed, askers, pending, cards,
                 posted, begun, ended, agreed>>

ChooseMode ==
  /\ modeChanges < MaxModes
  /\ modeChanges' = modeChanges + 1
  /\ \E m \in Modes : Waits([kind |-> "mode", arg |-> m])
  /\ UNCHANGED <<permissionMode, alwaysAllowed, askers, pending, cards, posted, begun,
                 ended, agreed>>

\* Mutant: a key press answers and leaves the card up.
AnswerKeepsCard(slot) ==
  /\ cards[slot] # NoRequest
  /\ \E c \in IF slot = "permission" THEN {"once", "always", "refused"} ELSE {"once"} :
       /\ Waits([kind |-> slot, arg |-> c])
       /\ agreed' = IF c = "refused" THEN agreed ELSE agreed \cup {cards[slot]}
  /\ UNCHANGED <<permissionMode, modeChanges, alwaysAllowed, askers, pending, cards,
                 posted, begun, ended>>

AnswerCard(slot) ==
  /\ cards[slot] # NoRequest
  /\ \E c \in IF slot = "permission" THEN {"once", "always", "refused"} ELSE {"once"} :
       /\ Waits([kind |-> slot, arg |-> c])
       /\ agreed' = IF c = "refused" THEN agreed ELSE agreed \cup {cards[slot]}
  /\ cards' = [cards EXCEPT ![slot] = NoRequest]
  /\ UNCHANGED <<permissionMode, modeChanges, alwaysAllowed, askers, pending, posted,
                 begun, ended>>

\* A new card replaces the one shown. The end of a run takes the permission card
\* away, whoever it belongs to, and leaves the decision card.
ReceivePosted ==
  /\ posted # <<>>
  /\ posted' = Tail(posted)
  /\ LET e == Head(posted)
     IN  /\ cards' = IF e.kind = "end" THEN [cards EXCEPT !.permission = NoRequest]
                     ELSE [cards EXCEPT ![e.kind] = e.request]
         /\ ended' = IF e.kind = "end" THEN ended + 1 ELSE ended
  /\ UNCHANGED <<permissionMode, modeChanges, alwaysAllowed, askers, pending, asked,
                 begun, agreed>>

-----------------------------------------------------------------------------
(* The command loop *)

TakesCommand(kind) == asked # <<>> /\ Head(asked).kind = kind /\ asked' = Tail(asked)

BeginWaiting ==
  /\ TakesCommand("submit")
  /\ Moves(Head(asked).arg, Asker(permissionMode, "idle"))
  /\ UNCHANGED <<permissionMode, modeChanges, alwaysAllowed, pending, cards, posted,
                 begun, ended, agreed>>

SetPermissionMode ==
  /\ TakesCommand("mode")
  /\ permissionMode' = Head(asked).arg
  /\ UNCHANGED <<modeChanges, alwaysAllowed, askers, pending, cards, posted, begun,
                 ended, agreed>>

\* The last run's token fires; whoever waits in either slot is refused.
CancelRuns ==
  /\ TakesCommand("cancel")
  /\ LET started == {r \in 1 .. MaxRuns : askers[r].phase # "none"}
         last(r) == r \in started /\ \A x \in started : x <= r
     IN  askers' = [r \in Askers |->
           [askers[r] EXCEPT
              !.cancelled = @ \/ last(r),
              !.reply = IF \E s \in Slots : pending[s] = r THEN "refused" ELSE @]]
  /\ pending' = [s \in Slots |-> Nobody]
  /\ UNCHANGED <<permissionMode, modeChanges, alwaysAllowed, cards, posted, begun,
                 ended, agreed>>

\* An answer nobody waits for is dropped.
PermissionResponse(slot) ==
  /\ TakesCommand(slot)
  /\ askers' = [r \in Askers |->
       IF r = pending[slot] THEN [askers[r] EXCEPT !.reply = Head(asked).arg] ELSE askers[r]]
  /\ pending' = [pending EXCEPT ![slot] = Nobody]
  /\ UNCHANGED <<permissionMode, modeChanges, alwaysAllowed, cards, posted, begun,
                 ended, agreed>>

-----------------------------------------------------------------------------
PromptsInit ==
  /\ permissionMode = "auto" /\ modeChanges = 0 /\ alwaysAllowed = {}
  /\ askers = [r \in Askers |->
       Asker("auto", IF SubagentAsks /\ r = Subagent THEN "idle" ELSE "none")]
  /\ pending = [s \in Slots |-> Nobody]
  /\ cards = [s \in Slots |-> NoRequest]
  /\ asked = <<>> /\ posted = <<>> /\ begun = 0 /\ ended = 0 /\ agreed = {}

PromptsNext ==
  \/ \E r \in Askers : Decided(r) \/ Register(r) \/ ShowCard(r) \/ Resolved(r) \/ RunReturns(r)
  \/ TypeRun \/ PressInterrupt \/ ChooseMode \/ ReceivePosted
  \/ BeginWaiting \/ SetPermissionMode \/ CancelRuns
  \/ \E s \in Slots : AnswerCard(s) \/ PermissionResponse(s)

PromptsSpec == PromptsInit /\ [][PromptsNext]_promptsVars

-----------------------------------------------------------------------------
(* Properties *)

Accepted(r) == askers[r].reply \in {"once", "always"}

\* ApprovedAsShown: a call that needed the user's permission proceeds only if the
\* user accepted a card that showed this very call, whatever cancellations and
\* late answers the slot saw (main.rs 86-112, 1857-1881).
ApprovedAsShown ==
  \A r \in Askers :
    askers[r].action # "question" /\ Accepted(r) => RequestOf(r) \in agreed

\* AnsweredAsShown: an answer to a decision reaches the run that asked it
\* (main.rs 47-82, 1882-1886).
AnsweredAsShown ==
  \A r \in Askers :
    askers[r].action = "question" /\ Accepted(r) => RequestOf(r) \in agreed

\* WaiterSeen: a run that waits in a slot is waiting for something the user can
\* see or has done: its card, on the screen or on the way, or an answer.
WaiterSeen ==
  \A s \in Slots, r \in Askers :
    pending[s] = r /\ askers[r].phase = "waiting" =>
      \/ cards[s] = RequestOf(r)
      \/ \E i \in 1 .. Len(posted) : posted[i].kind = s
      \/ \E i \in 1 .. Len(asked) : asked[i].kind \in {s, "cancel"}

\* PermissionSlotSafe: both promises of the permission slot.
PermissionSlotSafe == ApprovedAsShown /\ WaiterSeen
=============================================================================
