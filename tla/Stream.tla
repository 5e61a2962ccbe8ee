------------------------------- MODULE Stream -------------------------------
(***************************************************************************)
(* One turn's response stream: the server's lines cut into network chunks  *)
(* anywhere, the reader task that joins them, decodes each chunk, and maps *)
(* the lines to events on a bounded channel, and the turn that collects    *)
(* text and tool-call fragments until the channel ends, fails or the run   *)
(* is cancelled.                                                           *)
(***************************************************************************)
EXTENDS Naturals, SequencesExt

CONSTANTS
  MaxLines,     \* lines the server sends
  MaxPending,   \* MAX_PENDING_SSE_BYTES, in bytes of this model (a line has three)
  Capacity,     \* of the event channel (32)
  MaxPendingCalls, MaxPieces,  \* MAX_PENDING_CALLS and MAX_FIELD_BYTES, in fragments
  Wide,         \* TRUE: the two bytes of a text are one character's
  Cut           \* TRUE: the body may end before the server's last line does

ASSUME StreamAssumption ==
  /\ {MaxLines, MaxPending, Capacity, MaxPendingCalls, MaxPieces} \subseteq Nat \ {0}
  /\ {Wide, Cut} \subseteq BOOLEAN

VARIABLES
  sseLines,   \* the lines the server has sent
  wire,       \* bytes under way: <<line, part>>, part 0 the newline
  partial,    \* bytes the reader has received after its last newline taken
  reader,     \* the reader task: select, lines, gone
  channel,    \* events and errors between the two
  turn,       \* the collecting side
  stopping    \* the run's cancellation token

streamVars == <<sseLines, wire, partial, reader, channel, turn, stopping>>

Indices == 1 .. MaxPendingCalls + 1
Line(kind, index) == [kind |-> kind, index |-> index]
Kinds == {Line(kind, 0) : kind \in {"text", "finish", "noise", "junk"}}
           \cup {Line("call", i) : i \in Indices}
Event(line, k) == [kind |-> line.kind, index |-> line.index, of |-> k]
Failure == Event(Line("error", 0), 0)
Newline(k) == <<k, 0>>
Garbled == <<0, 1>>
NoTurn == [phase |-> "collecting", text |-> <<>>, got |-> <<>>, calls |-> [i \in Indices |-> <<>>]]

-----------------------------------------------------------------------------
(* The server and the network *)

ServerSends ==
  /\ Len(sseLines) < MaxLines
  /\ ~(\E k \in DOMAIN sseLines : sseLines[k].kind = "finish")
  /\ \E kind \in Kinds :
       LET k == Len(sseLines) + 1
       IN  /\ sseLines' = Append(sseLines, kind)
           /\ wire' = wire \o <<<<k, 1>>, <<k, 2>>, Newline(k)>>
  /\ UNCHANGED <<partial, reader, channel, turn, stopping>>

\* from_utf8_lossy, chunk by chunk: half a character becomes a replacement.
Halved(bytes, n) ==
  /\ Wide /\ bytes[n][1] # 0 /\ bytes[n][1] \in DOMAIN sseLines
  /\ sseLines[bytes[n][1]].kind = "text"
  /\ \/ bytes[n][2] = 1 /\ (n = Len(bytes) \/ bytes[n + 1] # <<bytes[n][1], 2>>)
     \/ bytes[n][2] = 2 /\ (n = 1 \/ bytes[n - 1] # <<bytes[n][1], 1>>)
Decoded(bytes) == [n \in DOMAIN bytes |-> IF Halved(bytes, n) THEN Garbled ELSE bytes[n]]

\* Mutant: what was left of the last chunk is forgotten.
OnlyThisChunk(bytes) == Decoded(bytes)

Joined(bytes) == partial \o Decoded(bytes)

ReceiveChunk ==
  /\ reader = "select"
  /\ \E n \in 1 .. Len(wire) :
       LET bytes == Joined(SubSeq(wire, 1, n))
       IN  /\ wire' = SubSeq(wire, n + 1, Len(wire))
           /\ partial' = bytes
           /\ IF Len(bytes) > MaxPending
              THEN channel' = Append(channel, Failure) /\ reader' = "gone"
              ELSE reader' = "lines" /\ UNCHANGED channel
  /\ UNCHANGED <<sseLines, turn, stopping>>

\* The body ends: what is partial without a newline is dropped with the task.
BodyEnds ==
  /\ reader = "select"
  /\ \/ wire = <<>> /\ (\E k \in DOMAIN sseLines : sseLines[k].kind = "finish") /\ UNCHANGED channel
     \/ Cut /\ UNCHANGED channel
     \/ channel' = Append(channel, Failure)
  /\ reader' = "gone"
  /\ UNCHANGED <<sseLines, wire, partial, turn, stopping>>

ReaderCancelled ==
  /\ reader = "select" /\ stopping
  /\ reader' = "gone"
  /\ UNCHANGED <<sseLines, wire, partial, channel, turn, stopping>>

-----------------------------------------------------------------------------
(* Lines to events *)

HasLine == \E n \in DOMAIN partial : partial[n][2] = 0 /\ partial[n][1] # 0
NewlineAt == CHOOSE n \in DOMAIN partial : partial[n][2] = 0 /\ \A m \in 1 .. n - 1 : partial[m][2] # 0
\* A line is what it was sent as when all its bytes are there.
LineAt(bytes) ==
  LET k == bytes[Len(bytes)][1]
  IN  IF bytes = <<<<k, 1>>, <<k, 2>>, Newline(k)>> THEN Event(sseLines[k], k)
      ELSE IF Len(bytes) = 3 /\ sseLines[k].kind = "text" THEN Event(sseLines[k], 0)
      ELSE Event(Line("noise", 0), k)

TakeLine ==
  /\ reader = "lines" /\ HasLine /\ Len(channel) < Capacity
  /\ LET line == LineAt(SubSeq(partial, 1, NewlineAt))
     IN  /\ channel' = CASE line.kind = "noise" -> channel
                         [] line.kind = "junk" -> Append(channel, Failure)
                         [] OTHER -> Append(channel, line)
         /\ reader' = IF line.kind = "junk" THEN "gone" ELSE "lines"
  /\ partial' = SubSeq(partial, NewlineAt + 1, Len(partial))
  /\ UNCHANGED <<sseLines, wire, turn, stopping>>

LinesOver ==
  /\ reader = "lines" /\ ~HasLine
  /\ reader' = "select"
  /\ UNCHANGED <<sseLines, wire, partial, channel, turn, stopping>>

ReceiverGone ==
  /\ reader = "lines" /\ turn.phase # "collecting"
  /\ reader' = "gone"
  /\ UNCHANGED <<sseLines, wire, partial, channel, turn, stopping>>

-----------------------------------------------------------------------------
(* run_turn and the ToolCallAssembler *)

\* Mutant: a fragment replaces what its call had.
ApplyReplaces(calls, i, k) == [calls EXCEPT ![i] = <<k>>]

ApplyFragment(calls, i, k) == [calls EXCEPT ![i] = Append(@, k)]

Refused(calls, i) ==
  \/ calls[i] = <<>> /\ Cardinality({j \in Indices : calls[j] # <<>>}) >= MaxPendingCalls
  \/ Len(calls[i]) >= MaxPieces

Collect ==
  /\ turn.phase = "collecting" /\ channel # <<>>
  /\ LET e == Head(channel)
     IN  turn' =
           IF e.kind = "error" THEN [turn EXCEPT !.phase = "failed"]
           ELSE IF e.kind = "text"
           THEN [turn EXCEPT !.text = Append(@, e.of), !.got = Append(@, e.of)]
           ELSE IF e.kind = "finish" THEN [turn EXCEPT !.got = Append(@, e.of)]
           ELSE IF Refused(turn.calls, e.index) THEN [turn EXCEPT !.phase = "refused"]
           ELSE [turn EXCEPT !.calls = ApplyFragment(@, e.index, e.of), !.got = Append(@, e.of)]
  /\ channel' = Tail(channel)
  /\ UNCHANGED <<sseLines, wire, partial, reader, stopping>>

TurnCompletes ==
  /\ turn.phase = "collecting" /\ channel = <<>> /\ reader = "gone"
  /\ turn' = [turn EXCEPT !.phase = "complete"]
  /\ UNCHANGED <<sseLines, wire, partial, reader, channel, stopping>>

StopTurn ==
  /\ turn.phase = "collecting" /\ ~stopping
  /\ stopping' = TRUE
  /\ UNCHANGED <<sseLines, wire, partial, reader, channel, turn>>

TurnCancelled ==
  /\ turn.phase = "collecting" /\ stopping
  /\ turn' = [turn EXCEPT !.phase = "cancelled"]
  /\ UNCHANGED <<sseLines, wire, partial, reader, channel, stopping>>

-----------------------------------------------------------------------------
StreamInit ==
  /\ sseLines = <<>> /\ wire = <<>> /\ partial = <<>> /\ channel = <<>>
  /\ reader = "select" /\ turn = NoTurn /\ stopping = FALSE

StreamNext ==
  \/ ServerSends \/ ReceiveChunk \/ BodyEnds \/ ReaderCancelled \/ TakeLine \/ LinesOver
  \/ ReceiverGone \/ Collect \/ TurnCompletes \/ StopTurn \/ TurnCancelled

StreamSpec == StreamInit /\ [][StreamNext]_streamVars

-----------------------------------------------------------------------------
(* Properties *)

\* The numbers of S, in order.
InOrder(numbers, S) ==
  /\ \A i, j \in DOMAIN numbers : i < j => numbers[i] < numbers[j]
  /\ {numbers[i] : i \in DOMAIN numbers} = S

\* The lines that carry an event, and those of one call.
Useful(n) == {k \in 1 .. n : sseLines[k].kind \notin {"noise", "junk"}}
SentTo(i) == {k \in DOMAIN sseLines : sseLines[k] = Line("call", i)}

\* EventsInOrder: wherever the network cuts the bytes, the turn gets the server's events
\* whole, in order, none twice and none left out (provider lib.rs 124-160).
EventsInOrder == \E n \in 0 .. Len(sseLines) : InOrder(turn.got, Useful(n))

\* CallsWhole: "No partial call is ever handed to a tool" (toolcalls.rs 15): the calls
\* of a turn that completes have every fragment the server sent for them.
CallsWhole ==
  turn.phase = "complete" /\ ~stopping => \A i \in Indices : InOrder(turn.calls[i], SentTo(i))

StreamFaithful == EventsInOrder /\ CallsWhole

\* TextAsSent: "Text content should stream as normalized UTF-8 strings"
\* (PROVIDER.md:729), so no character of it is lost.
TextAsSent == \A n \in DOMAIN turn.text : turn.text[n] # 0
=============================================================================
