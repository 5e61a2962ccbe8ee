---------------------------- MODULE OutputBuffer ----------------------------
(***************************************************************************)
(* BoundedBuffer: the first and the last `limit` bytes of what a command   *)
(* wrote, pushed a chunk at a time; a character is never split.            *)
(***************************************************************************)
EXTENDS Naturals, SequencesExt

CONSTANTS
  Limit,      \* DEFAULT_OUTPUT_LIMIT, in bytes
  MaxOutput,  \* characters a command writes
  MaxWidth    \* bytes of its widest character

ASSUME OutputBufferAssumption ==
  Limit \in Nat \ {0} /\ MaxOutput \in Nat /\ MaxWidth \in Nat \ {0}

VARIABLES
  output,     \* everything pushed: characters numbered in order, with their width
  head, tail, truncated

outputBufferVars == <<output, head, tail, truncated>>

Bytes(s) == FoldLeft(LAMBDA n, c : n + c.width, 0, s)
\* The longest beginning of at most n bytes, the longest end.
Split(s, n) ==
  CHOOSE m \in 0 .. Len(s) :
    Bytes(SubSeq(s, 1, m)) <= n /\ (m = Len(s) \/ Bytes(SubSeq(s, 1, m + 1)) > n)
EndOf(s, n) ==
  LET whole(m) == Bytes(SubSeq(s, m, Len(s))) <= n
  IN  SubSeq(s, CHOOSE m \in 1 .. Len(s) + 1 : whole(m) /\ (m = 1 \/ ~whole(m - 1)), Len(s))

\* Mutant: the excess is taken off the end.
KeepsBeginning(chunk) == SubSeq(tail \o chunk, 1, Split(tail \o chunk, Limit))

PushTail(chunk) == EndOf(tail \o chunk, Limit)

Push(chunk) ==
  LET remaining == Limit - Bytes(head)
      split == Split(chunk, remaining)
  IN  IF Bytes(head) < Limit /\ Bytes(chunk) <= remaining
      THEN head' = head \o chunk /\ UNCHANGED <<tail, truncated>>
      ELSE /\ truncated' = TRUE
           /\ IF Bytes(head) < Limit
              THEN /\ head' = head \o SubSeq(chunk, 1, split)
                   /\ tail' = PushTail(SubSeq(chunk, split + 1, Len(chunk)))
              ELSE tail' = PushTail(chunk) /\ UNCHANGED head

Chunks ==
  {[n \in 1 .. size |-> [at |-> Len(output) + n, width |-> w[n]]] :
     size \in 1 .. MaxOutput - Len(output), w \in [1 .. MaxOutput -> 1 .. MaxWidth]}

OutputBufferInit == output = <<>> /\ head = <<>> /\ tail = <<>> /\ truncated = FALSE

OutputBufferNext == \E chunk \in Chunks : output' = output \o chunk /\ Push(chunk)

OutputBufferSpec == OutputBufferInit /\ [][OutputBufferNext]_outputBufferVars

-----------------------------------------------------------------------------
(* Properties *)

\* EndsKept: whatever the chunks, the buffer "Retains the first and last `limit`
\* bytes of pushed content" (process.rs 358): a beginning and an end of it, in order,
\* that overlap nowhere, and all of it unless it says otherwise.
EndsKept ==
  /\ IsPrefix(head, output) /\ IsSuffix(tail, output)
  /\ Len(head) + Len(tail) <= Len(output)
  /\ ~truncated => head = output

\* EndsFull: neither end is larger than the limit, and nothing that fits is dropped:
\* when something is left out, both ends are full (process.rs 376-406; characters of
\* one byte, a wider one may leave a byte unused).
EndsFull ==
  /\ Bytes(head) <= Limit /\ Bytes(tail) <= Limit
  /\ \/ Len(head) + Len(tail) = Len(output)
     \/ Bytes(head) = Limit /\ Bytes(tail) = Limit

\* TruncatedOmits: the flag tells "Whether `stdout` omits part of the full output"
\* (process.rs 136).
TruncatedOmits == truncated => Len(head) + Len(tail) < Len(output)
=============================================================================
