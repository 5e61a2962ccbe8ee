------------------------------ MODULE Channels ------------------------------
(***************************************************************************)
(* The two bounded channels between the terminal's thread and the command  *)
(* loop.  The terminal empties the event channel, then waits for a key or  *)
(* a resize, and sends the commands of that input, two at most, each with  *)
(* a call that blocks its thread; the loop answers each command with       *)
(* events, and its sends wait for room too.  A run in the background, or   *)
(* the progress of a download, puts its events into the same channel.      *)
(*                                                                         *)
(* What a command or an event says is left out.                            *)
(***************************************************************************)
EXTENDS Naturals

CONSTANTS
  ChannelSize,    \* of either channel
  MaxReplies,     \* events the loop sends for one command, or as it starts
  Background      \* events come that answer no command

ASSUME ChannelsAssumption ==
  /\ ChannelSize \in Nat \ {0}
  /\ MaxReplies \in Nat \ {0} /\ 2 * MaxReplies <= ChannelSize
  /\ Background \in BOOLEAN

VARIABLES
  commandCount,   \* commands in the channel
  eventCount,     \* events in the channel
  terminal,       \* where the terminal's thread is
  owed            \* events the loop has yet to send for its command

channelsVars == <<commandCount, eventCount, terminal, owed>>

Sending == {"sendPrompt", "sendKey", "sendBoth"}

\* Mutant: a frame takes one event and goes on to the keys.
DrainOne ==
  /\ terminal = "drain"
  /\ eventCount' = IF eventCount = 0 THEN 0 ELSE eventCount - 1
  /\ terminal' = "poll"
  /\ UNCHANGED <<commandCount, owed>>

\* The end of a run may release a prompt, sent before the next event is taken.
Drain ==
  /\ terminal = "drain"
  /\ \/ eventCount = 0 /\ terminal' = "poll" /\ UNCHANGED eventCount
     \/ /\ eventCount > 0
        /\ eventCount' = eventCount - 1
        /\ \/ UNCHANGED terminal
           \/ Background /\ terminal' = "sendPrompt"
  /\ UNCHANGED <<commandCount, owed>>

\* Fifty milliseconds without input, or an input with no command, one, or two: the
\* effort picker that ends the choice of a model, and a new default personality.
Poll ==
  /\ terminal = "poll"
  /\ terminal' \in {"drain", "sendKey", "sendBoth"}
  /\ UNCHANGED <<commandCount, eventCount, owed>>

\* No event is taken between the two.
BlockingSend ==
  /\ terminal \in Sending
  /\ commandCount < ChannelSize
  /\ commandCount' = commandCount + 1
  /\ terminal' = IF terminal = "sendBoth" THEN "sendKey" ELSE "drain"
  /\ UNCHANGED <<eventCount, owed>>

\* A command that answers at once, or after a connection it waits for.
TakeCommand ==
  /\ owed = 0 /\ commandCount > 0
  /\ commandCount' = commandCount - 1
  /\ owed' \in 1 .. MaxReplies
  /\ UNCHANGED <<eventCount, terminal>>

Reply ==
  /\ owed > 0 /\ eventCount < ChannelSize
  /\ owed' = owed - 1
  /\ eventCount' = eventCount + 1
  /\ UNCHANGED <<commandCount, terminal>>

RunReports ==
  /\ Background /\ eventCount < ChannelSize
  /\ eventCount' = eventCount + 1
  /\ UNCHANGED <<commandCount, terminal, owed>>

\* The loop tells the terminal what it loaded before it takes a command.
ChannelsInit ==
  commandCount = 0 /\ eventCount = 0 /\ terminal = "drain" /\ owed \in 0 .. MaxReplies

ChannelsNext == Drain \/ Poll \/ BlockingSend \/ TakeCommand \/ Reply \/ RunReports

ChannelsSpec == ChannelsInit /\ [][ChannelsNext]_channelsVars

-----------------------------------------------------------------------------
(* Properties *)

\* Unstuck: "streaming does not freeze" (docs/TUI.md 2392): the terminal never waits
\* for room among the commands while the loop waits for room among the events, for
\* nobody else would make either (tui lib.rs 4291-4297, core lib.rs 624-638).
Unstuck ==
  ~ /\ terminal \in Sending /\ commandCount = ChannelSize
    /\ owed > 0 /\ eventCount = ChannelSize

=============================================================================
