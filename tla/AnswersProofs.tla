----------------------------- MODULE AnswersProofs -----------------------------
(***************************************************************************)
(* Every answer reaches what asked for it: that of an MCP server the call  *)
(* (Mcp), for any number of links and calls, and that of the user the run  *)
(* (Prompts), for any number of runs, calls, waiting commands and mode     *)
(* changes.                                                                *)
(***************************************************************************)
EXTENDS Mcp, Prompts, SequenceTheorems, TLAPS

-----------------------------------------------------------------------------
(* MCP: the ids of one link are all different                              *)

Purposes == {"", "tool", "initialize", "tools/list"}
CallPhases == {"none", "sent", "done", "failed"}
Pairs == Nat \X (Calls \cup {0})
LinkTypes == [kind : {"none", "stdio", "http"}, process : {"up", "exited"},
              reader : {"reads", "gone"}, next : Nat, pending : SUBSET Pairs,
              sent : SUBSET Pairs, lines : Seq(Pairs)]
CallTypes == [phase : CallPhases, link : Nat, id : Nat, purpose : Purposes, got : Pairs]

McpTypes ==
  /\ links \in [Links -> LinkTypes]
  /\ mcpCalls \in [Calls -> CallTypes]
  /\ connecting \in Links \cup {0}
  /\ connected \in Links \cup {0}

\* Calls are sent in the order of their numbers, so no link has given out more ids
\* than there were calls before the ones that are left.
IdsCounted ==
  \A l \in Links :
    /\ links[l].next <= MaxCalls + 1
    /\ \A c \in Calls : mcpCalls[c].phase = "none" => links[l].next <= c

Babble == <<MaxCalls + 2, 0>>

\* The requests and answers a link holds.
Held(l) == links[l].pending \cup links[l].sent
             \cup {links[l].lines[i] : i \in DOMAIN links[l].lines}

IdsGiven == \A l \in Links : \A p \in Held(l) : p = Babble \/ p[1] < links[l].next

IdsDistinct == \A l \in Links : \A p, q \in Held(l) : p[1] = q[1] => p = q

McpInv == McpTypes /\ IdsCounted /\ IdsGiven /\ IdsDistinct /\ OwnAnswer

-----------------------------------------------------------------------------
(* What a step of any kind may do *)

\* A link that gives out no id holds what it held or less, or babble, or is new.
LEMMA Shrinks ==
  ASSUME McpInv, McpTypes', OwnAnswer',
         \A l \in Links :
           \/ Held(l)' \subseteq Held(l) \cup {Babble} /\ links'[l].next = links[l].next
           \/ Held(l)' = {} /\ links'[l].next = 1,
         \A c \in Calls : mcpCalls'[c].phase = "none" => mcpCalls[c].phase = "none"
  PROVE  McpInv'
<1> USE DEF McpInv
<1>1. IdsCounted'
  <2> SUFFICES ASSUME NEW l \in Links
               PROVE  /\ links'[l].next <= MaxCalls + 1
                      /\ \A c \in Calls : mcpCalls'[c].phase = "none" => links'[l].next <= c
    BY DEF IdsCounted
  <2>1. CASE links'[l].next = links[l].next
    BY <2>1 DEF IdsCounted
  <2>2. CASE links'[l].next = 1
    BY <2>2, McpAssumption DEF Calls
  <2> QED
    BY <2>1, <2>2
<1>2. IdsGiven'
  BY DEF IdsGiven, Babble
<1>3. IdsDistinct'
  <2> SUFFICES ASSUME NEW l \in Links, NEW p \in Held(l)', NEW q \in Held(l)', p[1] = q[1]
               PROVE  p = q
    BY DEF IdsDistinct
  <2>1. p \in Held(l) \cup {Babble} /\ q \in Held(l) \cup {Babble}
    OBVIOUS
  <2>2. \A r \in Held(l) : r[1] = Babble[1] => r = Babble
    <3>1. links[l].next \in Nat /\ links[l].next <= MaxCalls + 1
      BY DEF McpTypes, LinkTypes, IdsCounted
    <3> QED
      BY <3>1, McpAssumption DEF IdsGiven, Babble
  <2> QED
    BY <2>1, <2>2 DEF IdsDistinct
<1> QED
  BY <1>1, <1>2, <1>3

\* Only the counter moves.
LEMMA Counted ==
  ASSUME NEW r \in LinkTypes, NEW n \in Nat, NEW new, new = [r EXCEPT !.next = n]
  PROVE  /\ new \in LinkTypes
         /\ new.next = n /\ new.pending = r.pending /\ new.sent = r.sent
         /\ new.lines = r.lines
  BY DEF LinkTypes

\* A request gets an id its link has not used.
LEMMA Sends ==
  ASSUME McpInv, NEW l \in Links, NEW purpose \in Purposes, SendRequest(l, purpose),
         connecting' \in Links \cup {0}, connected' \in Links \cup {0}
  PROVE  McpInv'
<1> USE DEF McpInv
<1>1. PICK c \in Calls :
        /\ mcpCalls[c].phase = "none" /\ \A b \in Calls : b < c => mcpCalls[b].phase # "none"
        /\ LET id == NextRequestId(l)
               request == [Unsent EXCEPT !.link = l, !.id = id, !.purpose = purpose]
           IN  IF links[l].process = "exited"
               THEN /\ mcpCalls' = [mcpCalls EXCEPT ![c] = [request EXCEPT !.phase = "failed"]]
                    /\ links' = [links EXCEPT ![l].next = @ + 1]
               ELSE /\ mcpCalls' = [mcpCalls EXCEPT ![c] = [request EXCEPT !.phase = "sent"]]
                    /\ links' = [links EXCEPT ![l].next = @ + 1,
                                              ![l].pending = @ \cup {<<id, c>>},
                                              ![l].sent = @ \cup {<<id, c>>}]
  BY DEF SendRequest
<1> DEFINE pair == <<links[l].next, c>>
           base == [Unsent EXCEPT !.link = l, !.id = links[l].next, !.purpose = purpose]
<1>2. /\ links \in [Links -> LinkTypes] /\ mcpCalls \in [Calls -> CallTypes]
      /\ c \in Nat /\ l \in Nat /\ links[l] \in LinkTypes
  BY McpAssumption DEF McpTypes, Calls, Links
<1>3. pair \in Pairs
  BY <1>2 DEF Pairs, LinkTypes
<1> DEFINE failed == [links[l] EXCEPT !.next = @ + 1]
           held == [links[l] EXCEPT !.next = @ + 1, !.pending = @ \cup {pair},
                                    !.sent = @ \cup {pair}]
<1>4. /\ failed \in LinkTypes /\ failed.next = links[l].next + 1
      /\ failed.lines = links[l].lines
      /\ failed.pending = links[l].pending /\ failed.sent = links[l].sent
  <2>1. links[l].next + 1 \in Nat
    BY <1>2 DEF LinkTypes
  <2> QED
    BY <1>2, <2>1, Counted
<1>5. /\ held \in LinkTypes /\ held.next = links[l].next + 1
      /\ held.lines = links[l].lines
      /\ held.pending = links[l].pending \cup {pair}
      /\ held.sent = links[l].sent \cup {pair}
  <2> DEFINE n == links[l].next + 1
             P == links[l].pending \cup {pair}
             S == links[l].sent \cup {pair}
  <2>1. links[l].next \in Nat /\ links[l].pending \subseteq Pairs /\ links[l].sent \subseteq Pairs
    BY <1>2 DEF LinkTypes
  <2>2. n \in Nat /\ P \in SUBSET Pairs /\ S \in SUBSET Pairs
    <3> HIDE DEF pair
    <3> QED
      BY <1>3, <2>1
  <2>3. held = [links[l] EXCEPT !.next = n, !.pending = P, !.sent = S]
    OBVIOUS
  <2>4. /\ held \in LinkTypes /\ held.next = n /\ held.lines = links[l].lines
        /\ held.pending = P /\ held.sent = S
    <3> HIDE DEF held, n, P, S
    <3> QED
      BY <1>2, <2>2, <2>3 DEF LinkTypes
  <2> HIDE DEF held
  <2> QED
    BY <2>4
<1>6. /\ links' \in [Links -> LinkTypes]
      /\ \A k \in Links : k # l => links'[k] = links[k]
      /\ links'[l].next = links[l].next + 1
      /\ links'[l].lines = links[l].lines
      /\ links'[l].pending \subseteq links[l].pending \cup {pair}
      /\ links'[l].sent \subseteq links[l].sent \cup {pair}
  <2>1. links' = [links EXCEPT ![l] = failed] \/ links' = [links EXCEPT ![l] = held]
    BY <1>1 DEF NextRequestId
  <2>2. links'[l] = failed \/ links'[l] = held
    BY <1>2, <2>1
  <2>3. links' \in [Links -> LinkTypes] /\ \A k \in Links : k # l => links'[k] = links[k]
    BY <1>2, <1>4, <1>5, <2>1
  <2> QED
    BY <1>4, <1>5, <2>2, <2>3
<1>7. /\ base \in CallTypes
      /\ [base EXCEPT !.phase = "failed"] \in CallTypes
      /\ [base EXCEPT !.phase = "sent"] \in CallTypes
      /\ [base EXCEPT !.phase = "failed"].phase = "failed"
      /\ [base EXCEPT !.phase = "sent"].phase = "sent"
  BY <1>2 DEF Unsent, CallTypes, CallPhases, Purposes, Pairs, LinkTypes
<1>8. /\ mcpCalls' \in [Calls -> CallTypes]
      /\ \A b \in Calls : b # c => mcpCalls'[b] = mcpCalls[b]
      /\ mcpCalls'[c].phase \in {"failed", "sent"}
  <2>1. \/ mcpCalls' = [mcpCalls EXCEPT ![c] = [base EXCEPT !.phase = "failed"]]
        \/ mcpCalls' = [mcpCalls EXCEPT ![c] = [base EXCEPT !.phase = "sent"]]
    BY <1>1 DEF NextRequestId
  <2> HIDE DEF base
  <2> QED
    BY <1>2, <1>7, <2>1
<1>9. McpTypes'
  BY <1>6, <1>8 DEF McpTypes
<1>10. links[l].next <= c /\ links[l].next <= MaxCalls
  BY <1>1, <1>2, McpAssumption DEF IdsCounted, Calls, LinkTypes
<1>11. IdsCounted'
  <2> SUFFICES ASSUME NEW k \in Links
               PROVE  /\ links'[k].next <= MaxCalls + 1
                      /\ \A b \in Calls : mcpCalls'[b].phase = "none" => links'[k].next <= b
    BY DEF IdsCounted
  <2>1. \A b \in Calls : mcpCalls'[b].phase = "none" => mcpCalls[b].phase = "none" /\ c < b
    BY <1>1, <1>8, McpAssumption DEF Calls
  <2>2. links[k].next \in Nat
    BY <1>2 DEF LinkTypes
  <2> QED
    BY <1>2, <1>6, <1>10, <2>1, <2>2, McpAssumption DEF IdsCounted, Calls
<1>12. \A k \in Links : k # l => Held(k)' = Held(k)
  BY <1>6 DEF Held
<1>13. Held(l)' \subseteq Held(l) \cup {pair}
  BY <1>6 DEF Held
<1>14. \A p \in Held(l) : p[1] # links[l].next
  BY <1>2, <1>10, McpAssumption DEF IdsGiven, Babble, LinkTypes
<1>15. IdsGiven'
  <2> SUFFICES ASSUME NEW k \in Links, NEW p \in Held(k)'
               PROVE  p = Babble \/ p[1] < links'[k].next
    BY DEF IdsGiven, Babble
  <2>1. CASE k # l
    BY <1>6, <1>12, <2>1 DEF IdsGiven
  <2>2. CASE k = l /\ p \in Held(l)
    <3>1. p = Babble \/ p[1] < links[l].next
      BY <2>2 DEF IdsGiven
    <3>2. p \in Pairs
      BY <1>2, <2>2 DEF Held, LinkTypes
    <3> QED
      BY <1>2, <1>6, <2>2, <3>1, <3>2 DEF LinkTypes, Pairs
  <2>3. CASE k = l /\ p = pair
    BY <1>2, <1>6, <2>3 DEF LinkTypes
  <2> QED
    BY <1>13, <2>1, <2>2, <2>3
<1>16. IdsDistinct'
  <2> SUFFICES ASSUME NEW k \in Links, NEW p \in Held(k)', NEW q \in Held(k)', p[1] = q[1]
               PROVE  p = q
    BY DEF IdsDistinct
  <2>1. CASE k # l
    BY <1>12, <2>1 DEF IdsDistinct
  <2>2. CASE k = l
    BY <1>13, <1>14, <2>2 DEF IdsDistinct
  <2> QED
    BY <2>1, <2>2
<1>17. OwnAnswer'
  BY <1>8 DEF OwnAnswer
<1> QED
  BY <1>9, <1>11, <1>15, <1>16, <1>17

-----------------------------------------------------------------------------
(* Lines *)

LEMMA Appended ==
  ASSUME NEW s \in Seq(Pairs), NEW r \in Pairs
  PROVE  /\ Append(s, r) \in Seq(Pairs)
         /\ \A i \in DOMAIN Append(s, r) :
              Append(s, r)[i] = r \/ Append(s, r)[i] \in {s[k] : k \in DOMAIN s}
<1>1. Append(s, r) \in Seq(Pairs) /\ Len(Append(s, r)) = Len(s) + 1
  OBVIOUS
<1>2. SUFFICES ASSUME NEW i \in DOMAIN Append(s, r)
               PROVE  Append(s, r)[i] = r \/ Append(s, r)[i] \in {s[k] : k \in DOMAIN s}
  BY <1>1
<1>3. i \in 1 .. Len(s) + 1
  BY <1>1
<1>4. CASE i = Len(s) + 1
  BY <1>4
<1>5. CASE i # Len(s) + 1
  BY <1>3, <1>5
<1> QED
  BY <1>4, <1>5

LEMMA Shortened ==
  ASSUME NEW s \in Seq(Pairs), s # <<>>
  PROVE  /\ Tail(s) \in Seq(Pairs) /\ Head(s) \in Pairs
         /\ Head(s) \in {s[k] : k \in DOMAIN s}
         /\ \A i \in DOMAIN Tail(s) : Tail(s)[i] \in {s[k] : k \in DOMAIN s}
<1>1. Len(s) \in Nat \ {0} /\ DOMAIN s = 1 .. Len(s)
  OBVIOUS
<1>2. Tail(s) \in Seq(Pairs) /\ Head(s) = s[1] /\ Head(s) \in Pairs
  BY <1>1
<1>3. \A i \in DOMAIN Tail(s) : i + 1 \in DOMAIN s /\ Tail(s)[i] = s[i + 1]
  BY <1>1
<1> QED
  BY <1>1, <1>2, <1>3

-----------------------------------------------------------------------------
(* One lemma for each kind of step *)

\* One link changes, to a record that holds no more than before and babble.
LEMMA OneLink ==
  ASSUME McpInv, NEW l \in Links, NEW new \in LinkTypes,
         links' = [links EXCEPT ![l] = new],
         \/ /\ new.next = links[l].next
            /\ new.pending \subseteq Held(l) /\ new.sent \subseteq Held(l)
            /\ \A i \in DOMAIN new.lines : new.lines[i] \in Held(l) \cup {Babble}
         \/ new.next = 1 /\ new.pending = {} /\ new.sent = {} /\ new.lines = <<>>,
         mcpCalls' \in [Calls -> CallTypes], OwnAnswer',
         \A c \in Calls : mcpCalls'[c].phase = "none" => mcpCalls[c].phase = "none",
         connecting' \in Links \cup {0}, connected' \in Links \cup {0}
  PROVE  McpInv'
<1>1. links \in [Links -> LinkTypes]
  BY DEF McpInv, McpTypes
<1>2. /\ links' \in [Links -> LinkTypes] /\ links'[l] = new
      /\ \A k \in Links : k # l => links'[k] = links[k]
  BY <1>1
<1>3. McpTypes'
  BY <1>2 DEF McpTypes
<1>4. ASSUME NEW k \in Links
      PROVE  \/ Held(k)' \subseteq Held(k) \cup {Babble} /\ links'[k].next = links[k].next
             \/ Held(k)' = {} /\ links'[k].next = 1
  <2>1. CASE k # l
    BY <1>2, <2>1 DEF Held
  <2>2. CASE k = l
    BY <1>2, <2>2 DEF Held
  <2> QED
    BY <2>1, <2>2
<1> QED
  BY <1>3, <1>4, Shrinks

LEMMA AnswersStep ==
  ASSUME McpInv, NEW l \in Links, ServerAnswers(l)
  PROVE  McpInv'
<1>1. PICK r \in links[l].sent :
        links' = [links EXCEPT ![l].sent = @ \ {r}, ![l].lines = Append(@, r)]
  BY DEF ServerAnswers
<1> DEFINE old == links[l]
           new == [old EXCEPT !.sent = @ \ {r}, !.lines = Append(@, r)]
<1>2. old \in LinkTypes
  BY DEF McpInv, McpTypes
<1>3. old.sent \subseteq Pairs /\ old.lines \in Seq(Pairs) /\ r \in Pairs
  BY <1>1, <1>2 DEF LinkTypes
<1>4. /\ Append(old.lines, r) \in Seq(Pairs)
      /\ \A i \in DOMAIN Append(old.lines, r) :
           \/ Append(old.lines, r)[i] = r
           \/ Append(old.lines, r)[i] \in {old.lines[k] : k \in DOMAIN old.lines}
  BY <1>3, Appended
<1>5. /\ new \in LinkTypes /\ new.next = old.next /\ new.pending = old.pending
      /\ new.sent = old.sent \ {r} /\ new.lines = Append(old.lines, r)
  <2> HIDE DEF old
  <2>1. old.sent \ {r} \in SUBSET Pairs
    BY <1>3
  <2> DEFINE S == old.sent \ {r}
             L == Append(old.lines, r)
  <2>2. new = [old EXCEPT !.sent = S, !.lines = L]
    OBVIOUS
  <2>3. S \in SUBSET Pairs /\ L \in Seq(Pairs)
    BY <1>4, <2>1
  <2> HIDE DEF S, L, new
  <2>4. /\ new \in LinkTypes /\ new.next = old.next /\ new.pending = old.pending
        /\ new.sent = S /\ new.lines = L
    BY <1>2, <2>2, <2>3 DEF LinkTypes
  <2> USE DEF S, L
  <2> QED
    BY <2>4
<1>6. links' = [links EXCEPT ![l] = new]
  BY <1>1
<1> HIDE DEF new
<1>7. /\ new.pending \subseteq Held(l) /\ new.sent \subseteq Held(l)
      /\ \A i \in DOMAIN new.lines : new.lines[i] \in Held(l)
  BY <1>1, <1>4, <1>5 DEF Held
<1>8. /\ mcpCalls' = mcpCalls /\ connecting' = connecting /\ connected' = connected
      /\ mcpCalls \in [Calls -> CallTypes] /\ OwnAnswer'
      /\ connecting \in Links \cup {0} /\ connected \in Links \cup {0}
  BY DEF ServerAnswers, McpInv, McpTypes, OwnAnswer
<1> QED
  BY <1>5, <1>6, <1>7, <1>8, OneLink

LEMMA BabblesStep ==
  ASSUME McpInv, NEW l \in Links, ServerBabbles(l)
  PROVE  McpInv'
<1> DEFINE old == links[l]
           new == [old EXCEPT !.lines = <<Babble>>]
<1>1. old \in LinkTypes
  BY DEF McpInv, McpTypes
<1>2. Babble \in Pairs
  BY McpAssumption DEF Babble, Pairs
<1>3. /\ new \in LinkTypes /\ new.next = old.next /\ new.pending = old.pending
      /\ new.sent = old.sent /\ new.lines = <<Babble>>
  <2> DEFINE L == <<Babble>>
  <2>1. L \in Seq(Pairs)
    BY <1>2
  <2>2. new = [old EXCEPT !.lines = L]
    OBVIOUS
  <2> HIDE DEF L, old, new
  <2>3. /\ new \in LinkTypes /\ new.next = old.next /\ new.pending = old.pending
        /\ new.sent = old.sent /\ new.lines = L
    BY <1>1, <2>1, <2>2 DEF LinkTypes
  <2> USE DEF L
  <2> QED
    BY <2>3
<1>4. links' = [links EXCEPT ![l] = new]
  BY DEF ServerBabbles, Babble
<1> HIDE DEF new
<1>5. /\ new.pending \subseteq Held(l) /\ new.sent \subseteq Held(l)
      /\ \A i \in DOMAIN new.lines : new.lines[i] = Babble
  BY <1>3 DEF Held
<1>6. /\ mcpCalls' = mcpCalls /\ connecting' = connecting /\ connected' = connected
      /\ mcpCalls \in [Calls -> CallTypes] /\ OwnAnswer'
      /\ connecting \in Links \cup {0} /\ connected \in Links \cup {0}
  BY DEF ServerBabbles, McpInv, McpTypes, OwnAnswer
<1> QED
  BY <1>3, <1>4, <1>5, <1>6, OneLink

LEMMA ExitsStep ==
  ASSUME McpInv, NEW l \in Links, ServerExits(l) \/ ReaderEnds(l)
  PROVE  McpInv'
<1> DEFINE old == links[l]
<1>1. old \in LinkTypes
  BY DEF McpInv, McpTypes
<1>2. PICK new :
        /\ links' = [links EXCEPT ![l] = new]
        /\ \/ new = [old EXCEPT !.process = "exited", !.sent = {}]
           \/ new = [old EXCEPT !.reader = "gone", !.lines = <<>>]
  BY DEF ServerExits, ReaderEnds
<1>3. /\ new \in LinkTypes /\ new.next = old.next /\ new.pending = old.pending
      /\ new.sent \subseteq old.sent
      /\ new.lines = old.lines \/ new.lines = <<>>
  <2> HIDE DEF old
  <2>1. CASE new = [old EXCEPT !.process = "exited", !.sent = {}]
    <3> DEFINE S == {}
    <3>1. S \in SUBSET Pairs /\ S \subseteq old.sent
      OBVIOUS
    <3>2. new = [old EXCEPT !.process = "exited", !.sent = S]
      BY <2>1
    <3> HIDE DEF S
    <3> QED
      BY <1>1, <3>1, <3>2 DEF LinkTypes
  <2>2. CASE new = [old EXCEPT !.reader = "gone", !.lines = <<>>]
    <3>1. <<>> \in Seq(Pairs)
      OBVIOUS
    <3> QED
      BY <1>1, <2>2, <3>1 DEF LinkTypes
  <2> QED
    BY <1>2, <2>1, <2>2
<1>4. /\ new.pending \subseteq Held(l) /\ new.sent \subseteq Held(l)
      /\ \A i \in DOMAIN new.lines : new.lines[i] \in Held(l)
  BY <1>3 DEF Held
<1>5. /\ mcpCalls' = mcpCalls /\ connecting' = connecting /\ connected' = connected
      /\ mcpCalls \in [Calls -> CallTypes] /\ OwnAnswer'
      /\ connecting \in Links \cup {0} /\ connected \in Links \cup {0}
  BY DEF ServerExits, ReaderEnds, McpInv, McpTypes, OwnAnswer
<1> QED
  BY <1>2, <1>3, <1>4, <1>5, OneLink

\* The call that waits under the id of a line is the one the line answers.
LEMMA ReadStep ==
  ASSUME McpInv, NEW l \in Links, ReadLine(l)
  PROVE  McpInv'
<1> DEFINE old == links[l]
           line == Head(old.lines)
           waiting == {p \in old.pending : p[1] = line[1]}
           new == [old EXCEPT !.pending = @ \ waiting, !.lines = Tail(@)]
<1>1. /\ old \in LinkTypes /\ links \in [Links -> LinkTypes]
      /\ mcpCalls \in [Calls -> CallTypes]
      /\ connecting \in Links \cup {0} /\ connected \in Links \cup {0}
  BY DEF McpInv, McpTypes
<1>2. /\ old.lines # <<>> /\ old.lines \in Seq(Pairs)
      /\ old.pending \subseteq Pairs
      /\ links' = [links EXCEPT ![l] = new]
      /\ mcpCalls' = [c \in Calls |->
           IF \E p \in waiting : p[2] = c
           THEN [mcpCalls[c] EXCEPT !.phase = "done", !.got = line] ELSE mcpCalls[c]]
      /\ connecting' = connecting /\ connected' = connected
  BY <1>1 DEF ReadLine, Resolve, LinkTypes
<1>3. /\ Tail(old.lines) \in Seq(Pairs) /\ line \in Pairs
      /\ line \in {old.lines[k] : k \in DOMAIN old.lines}
      /\ \A i \in DOMAIN Tail(old.lines) :
           Tail(old.lines)[i] \in {old.lines[k] : k \in DOMAIN old.lines}
  BY <1>2, Shortened
<1>4. \A p \in waiting : p = line
  BY <1>3 DEF Held, IdsDistinct, McpInv
<1>5. /\ new \in LinkTypes /\ new.next = old.next /\ new.sent = old.sent
      /\ new.pending \subseteq old.pending /\ new.lines = Tail(old.lines)
  <2> DEFINE P == old.pending \ waiting
             L == Tail(old.lines)
  <2>1. new = [old EXCEPT !.pending = P, !.lines = L]
    OBVIOUS
  <2>2. P \in SUBSET Pairs /\ P \subseteq old.pending /\ L \in Seq(Pairs)
    BY <1>2, <1>3
  <2> HIDE DEF P, L, new, old
  <2>3. /\ new \in LinkTypes /\ new.next = old.next /\ new.sent = old.sent
        /\ new.pending = P /\ new.lines = L
    BY <1>1, <2>1, <2>2 DEF LinkTypes
  <2> USE DEF P, L
  <2> QED
    BY <2>2, <2>3
<1>6. /\ new.pending \subseteq Held(l) /\ new.sent \subseteq Held(l)
      /\ \A i \in DOMAIN new.lines : new.lines[i] \in Held(l)
  <2> HIDE DEF new
  <2> QED
    BY <1>3, <1>5 DEF Held
<1>7. \A c \in Calls : [mcpCalls[c] EXCEPT !.phase = "done", !.got = line] \in CallTypes
  BY <1>1, <1>3 DEF CallTypes, CallPhases
<1>8. mcpCalls' \in [Calls -> CallTypes]
  BY <1>1, <1>2, <1>7
<1>9. OwnAnswer'
  <2> SUFFICES ASSUME NEW c \in Calls, mcpCalls'[c].phase = "done"
               PROVE  mcpCalls'[c].got[2] = c
    BY DEF OwnAnswer
  <2>1. CASE \E p \in waiting : p[2] = c
    <3>1. line[2] = c
      BY <1>4, <2>1
    <3>2. mcpCalls'[c].got = line
      BY <1>1, <1>2, <2>1 DEF CallTypes
    <3> QED
      BY <3>1, <3>2
  <2>2. CASE ~\E p \in waiting : p[2] = c
    BY <1>2, <2>2 DEF McpInv, OwnAnswer
  <2> QED
    BY <2>1, <2>2
<1>10. \A c \in Calls : mcpCalls'[c].phase = "none" => mcpCalls[c].phase = "none"
  BY <1>1, <1>2 DEF CallTypes
<1> HIDE DEF new
<1> QED
  BY <1>1, <1>2, <1>5, <1>6, <1>8, <1>9, <1>10, OneLink

LEMMA HttpEndsStep ==
  ASSUME McpInv, NEW c \in Calls, HttpEnds(c)
  PROVE  McpInv'
<1> DEFINE l == mcpCalls[c].link
           old == links[l]
           new == [old EXCEPT !.pending = {p \in @ : p[2] # c}]
<1>1. /\ links \in [Links -> LinkTypes] /\ mcpCalls \in [Calls -> CallTypes]
      /\ connecting \in Links \cup {0} /\ connected \in Links \cup {0}
  BY DEF McpInv, McpTypes
<1>2. /\ mcpCalls[c].phase = "sent"
      /\ mcpCalls' = [mcpCalls EXCEPT ![c].phase = "failed"]
      /\ links' = [links EXCEPT ![l] = new]
      /\ connecting' = connecting /\ connected' = connected
  BY DEF HttpEnds
<1>3. [mcpCalls[c] EXCEPT !.phase = "failed"] \in CallTypes
  BY <1>1 DEF CallTypes, CallPhases
<1>4. mcpCalls' \in [Calls -> CallTypes]
  BY <1>1, <1>2, <1>3
<1>5. /\ mcpCalls'[c].phase = "failed"
      /\ \A b \in Calls : b # c => mcpCalls'[b] = mcpCalls[b]
  BY <1>1, <1>2 DEF CallTypes
<1>6. OwnAnswer'
  BY <1>5 DEF McpInv, OwnAnswer
<1>7. \A b \in Calls : mcpCalls'[b].phase = "none" => mcpCalls[b].phase = "none"
  BY <1>5
<1>8. CASE l \in Links
  <2>1. old \in LinkTypes
    BY <1>1, <1>8
  <2>2. old.pending \subseteq Pairs
    BY <2>1 DEF LinkTypes
  <2>3. /\ new \in LinkTypes /\ new.next = old.next /\ new.sent = old.sent
        /\ new.pending \subseteq old.pending /\ new.lines = old.lines
    <3> DEFINE P == {p \in old.pending : p[2] # c}
    <3>1. new = [old EXCEPT !.pending = P]
      OBVIOUS
    <3>2. P \in SUBSET Pairs /\ P \subseteq old.pending
      BY <2>2
    <3> HIDE DEF P, new, old
    <3> QED
      BY <2>1, <3>1, <3>2 DEF LinkTypes
  <2>4. /\ new.pending \subseteq Held(l) /\ new.sent \subseteq Held(l)
        /\ \A i \in DOMAIN new.lines : new.lines[i] \in Held(l)
    <3> HIDE DEF new
    <3> QED
      BY <2>3 DEF Held
  <2> HIDE DEF new, old, l
  <2>5. new.next = links[l].next
    BY <2>3 DEF old
  <2> QED
    BY <1>1, <1>2, <1>4, <1>6, <1>7, <1>8, <2>3, <2>4, <2>5, OneLink
<1>9. CASE l \notin Links
  <2>1. links' = links
    BY <1>1, <1>2, <1>9
  <2>2. McpTypes'
    BY <1>1, <1>2, <1>4, <2>1 DEF McpTypes
  <2>3. \A k \in Links : Held(k)' = Held(k)
    BY <2>1 DEF Held
  <2> QED
    BY <1>6, <1>7, <2>1, <2>2, <2>3, Shrinks
<1> QED
  BY <1>8, <1>9

LEMMA OpensStep ==
  ASSUME McpInv, NEW kind \in {"stdio", "http"}, Opens(kind)
  PROVE  McpInv'
<1>1. PICK l \in Links : links' = [links EXCEPT ![l] = Link(kind)] /\ connecting' = l
  BY DEF Opens
<1>2. Link(kind) \in LinkTypes
  <2> DEFINE E == {}
             L == <<>>
  <2>1. E \in SUBSET Pairs /\ L \in Seq(Pairs)
    OBVIOUS
  <2>2. Link(kind) = [kind |-> kind, process |-> "up", reader |-> "reads", next |-> 1,
                      pending |-> E, sent |-> E, lines |-> L]
    BY DEF Link
  <2> HIDE DEF E, L
  <2> QED
    BY <2>1, <2>2 DEF LinkTypes
<1>3. /\ Link(kind).next = 1 /\ Link(kind).pending = {} /\ Link(kind).sent = {}
      /\ Link(kind).lines = <<>>
  BY DEF Link
<1>4. /\ mcpCalls' = mcpCalls /\ connected' = connected
      /\ mcpCalls \in [Calls -> CallTypes] /\ OwnAnswer'
      /\ connected \in Links \cup {0}
  BY DEF Opens, McpInv, McpTypes, OwnAnswer
<1> QED
  BY <1>1, <1>2, <1>3, <1>4, OneLink

\* Steps of the command loop and of tokens, which leave links and calls alone.
LEMMA LoopStep ==
  ASSUME McpInv, UNCHANGED <<links, mcpCalls>>,
         connecting' \in Links \cup {0}, connected' \in Links \cup {0}
  PROVE  McpInv'
  BY DEF McpInv, McpTypes, IdsCounted, IdsGiven, IdsDistinct, OwnAnswer, Held

-----------------------------------------------------------------------------
LEMMA McpStarts == McpInit => McpInv
<1> SUFFICES ASSUME McpInit PROVE McpInv
  OBVIOUS
<1>1. /\ NoLink \in LinkTypes /\ NoLink.next = 1
      /\ NoLink.pending = {} /\ NoLink.sent = {} /\ NoLink.lines = <<>>
  <2> DEFINE E == {}
             L == <<>>
             link == Link("none")
  <2>1. E \in SUBSET Pairs /\ L \in Seq(Pairs)
    OBVIOUS
  <2>2. link = [kind |-> "none", process |-> "up", reader |-> "reads", next |-> 1,
                pending |-> E, sent |-> E, lines |-> L]
    BY DEF Link
  <2>3. NoLink = [link EXCEPT !.process = "exited", !.reader = "gone"]
    BY DEF NoLink
  <2> HIDE DEF E, L, link
  <2>4. NoLink = [kind |-> "none", process |-> "exited", reader |-> "gone", next |-> 1,
                  pending |-> E, sent |-> E, lines |-> L]
    BY <2>2, <2>3
  <2>5. /\ NoLink \in LinkTypes /\ NoLink.next = 1
        /\ NoLink.pending = E /\ NoLink.sent = E /\ NoLink.lines = L
    BY <2>1, <2>4 DEF LinkTypes
  <2> USE DEF E, L
  <2> QED
    BY <2>5
<1>2. Unsent \in CallTypes
  BY DEF Unsent, CallTypes, CallPhases, Purposes, Pairs
<1>3. McpTypes
  BY <1>1, <1>2 DEF McpInit, McpTypes
<1>4. \A l \in Links : links[l].next = 1 /\ Held(l) = {}
  BY <1>1 DEF McpInit, Held
<1>5. IdsCounted
  BY <1>4, McpAssumption DEF IdsCounted, Calls
<1>6. IdsGiven /\ IdsDistinct
  BY <1>4 DEF IdsGiven, IdsDistinct
<1>7. OwnAnswer
  BY DEF McpInit, OwnAnswer, Unsent
<1> QED
  BY <1>3, <1>5, <1>6, <1>7 DEF McpInv

LEMMA McpSteps == McpInv /\ [McpNext]_mcpVars => McpInv'
<1> SUFFICES ASSUME McpInv, [McpNext]_mcpVars PROVE McpInv'
  OBVIOUS
<1>1. connecting \in Links \cup {0} /\ connected \in Links \cup {0}
  BY DEF McpInv, McpTypes
<1>2. CASE CallTool
  <2>1. connected \in Links
    BY <1>1, <1>2 DEF CallTool
  <2>2. /\ SendRequest(connected, "tool") /\ "tool" \in Purposes
        /\ connecting' = connecting /\ connected' = connected
    BY <1>2 DEF CallTool, Purposes
  <2> QED
    BY <1>1, <2>1, <2>2, Sends
<1>3. CASE ConnectStdio \/ ConnectHttp
  BY <1>3, OpensStep DEF ConnectStdio, ConnectHttp
<1>4. CASE Handshake
  <2>1. connecting \in Links
    BY <1>1, <1>4 DEF Handshake
  <2>2. /\ SendRequest(connecting, "initialize") \/ SendRequest(connecting, "tools/list")
        /\ "initialize" \in Purposes /\ "tools/list" \in Purposes
        /\ connecting' = connecting /\ connected' = connected
    BY <1>4 DEF Handshake, Purposes
  <2> QED
    BY <1>1, <2>1, <2>2, Sends
<1>5. CASE AccessExpires \/ Authorize \/ ConnectReturns \/ DisconnectServer \/ UNCHANGED mcpVars
  BY <1>1, <1>5, LoopStep
     DEF AccessExpires, Authorize, ConnectReturns, DisconnectServer, mcpVars
<1>6. ASSUME NEW l \in Links,
             ServerAnswers(l) \/ ServerBabbles(l) \/ ServerExits(l) \/ ReadLine(l) \/ ReaderEnds(l)
      PROVE  McpInv'
  BY <1>6, AnswersStep, BabblesStep, ExitsStep, ReadStep
<1>7. ASSUME NEW c \in Calls, HttpEnds(c) PROVE McpInv'
  BY <1>7, HttpEndsStep
<1> QED
  BY <1>2, <1>3, <1>4, <1>5, <1>6, <1>7 DEF McpNext

\* Concurrent calls over one link each get the response to their own request, for any
\* number of links and requests, in whatever order a server answers, babbles or
\* exits (mcp stdio.rs 92-98, 119-139, http.rs 138-170).
THEOREM AnswersAreOwn == McpSpec => []OwnAnswer
<1>1. McpInit => McpInv
  BY McpStarts
<1>2. McpInv /\ [McpNext]_mcpVars => McpInv'
  BY McpSteps
<1>3. McpInv => OwnAnswer
  BY DEF McpInv
<1> QED
  BY <1>1, <1>2, <1>3, PTL DEF McpSpec

-----------------------------------------------------------------------------
(* Prompts: the slots a run waits at and the commands that answer it       *)

USE PromptsAssumption

-----------------------------------------------------------------------------
(* Types                                                                   *)

Phases == {"none", "idle", "registered", "waiting", "over"}
Answers == {"once", "always", "refused"}
Requests == (0 .. MaxRuns + 1) \X Nat

Command == [kind : {"submit"}, arg : 1 .. MaxRuns] \cup [kind : {"cancel"}, arg : {""}]
           \cup [kind : {"mode"}, arg : Modes] \cup [kind : Slots, arg : Answers]

Notice == [kind : Slots \cup {"end"}, request : Requests]

AskerType == [phase : Phases, mode : Modes, action : ToolActions, calls : Nat,
              reply : Answers \cup {"none", "dropped"}, cancelled : BOOLEAN]

PromptsTypeOK ==
  /\ askers \in [Askers -> AskerType]
  /\ pending \in [Slots -> Askers \cup {Nobody}]
  /\ cards \in [Slots -> Requests]
  /\ permissionMode \in Modes
  /\ asked \in Seq(Command) /\ posted \in Seq(Notice)
  /\ begun \in 0 .. MaxRuns /\ ended \in 0 .. begun
  /\ agreed \subseteq Requests

-----------------------------------------------------------------------------
(* What a queue holds of one kind                                          *)

None(s, k) == \A i \in 1 .. Len(s) : s[i].kind # k
Once(s, k) ==
  \E i \in 1 .. Len(s) : s[i].kind = k /\ \A j \in 1 .. Len(s) : s[j].kind = k => j = i
Precedes(s, k, l) ==
  \A i, j \in 1 .. Len(s) : s[i].kind = k /\ s[j].kind = l => i < j

-----------------------------------------------------------------------------
(* The inductive invariant                                                 *)

\* A sender in a slot belongs to a call of that slot without a reply yet, and
\* only a call under way has a reply.
SlotInv ==
  /\ \A s \in Slots : pending[s] # Nobody =>
       LET a == askers[pending[s]]
       IN  a.phase \in {"registered", "waiting"} /\ SlotOf(a.action) = s /\ a.reply = "none"
  /\ \A r \in Askers : askers[r].phase \in {"none", "idle", "over"} => askers[r].reply = "none"
  /\ askers[Subagent].phase \in {"registered", "waiting"} =>
       SubagentAsks /\ askers[Subagent].action = "question"
  /\ ~SubagentAsks => askers[Subagent].phase = "none"

\* The runs come one after another: the last one is on its way to the command
\* loop, active, or on its way back.
Queued == begun > ended /\ askers[begun].phase = "none"
Active == begun > ended /\ askers[begun].phase \in {"idle", "registered", "waiting"}
Ending == begun > ended /\ askers[begun].phase = "over"

RunInv ==
  /\ begun <= ended + 1
  /\ \A r \in 1 .. MaxRuns :
       /\ r > begun => askers[r].phase = "none"
       /\ r <= ended => askers[r].phase = "over"
  /\ IF Queued THEN Once(asked, "submit") ELSE None(asked, "submit")
  /\ IF Ending THEN Once(posted, "end") ELSE None(posted, "end")
  /\ \A i \in 1 .. Len(asked) : asked[i].kind = "submit" => asked[i].arg = begun

\* No permission card is under way, on the screen or answered.
NoCard ==
  /\ None(posted, "permission")
  /\ cards["permission"] = NoRequest
  /\ None(asked, "permission")

\* The one permission card that is, is about request q.
OneCard(q) ==
  /\ \/ Once(posted, "permission") /\ cards["permission"] = NoRequest
        /\ None(asked, "permission")
     \/ None(posted, "permission") /\ cards["permission"] = q
        /\ None(asked, "permission")
     \/ None(posted, "permission") /\ cards["permission"] = NoRequest
        /\ Once(asked, "permission")
  /\ \A i \in 1 .. Len(posted) : posted[i].kind = "permission" => posted[i].request = q
  /\ \A i \in 1 .. Len(asked) :
       asked[i].kind = "permission" /\ asked[i].arg # "refused" => q \in agreed

\* An active run that has not been cancelled has at most the card of the call it
\* waits with, and its sender stays in the slot until the card is shown. What a
\* cancelled run leaves behind is gone when the next begins.
CardInv ==
  /\ pending["permission"] # Nobody =>
       Active /\ pending["permission"] = begun /\ ~askers[begun].cancelled
  /\ Active /\ ~askers[begun].cancelled /\ askers[begun].phase = "registered"
       /\ askers[begun].action # "question" => pending["permission"] # Nobody
  /\ Active /\ ~askers[begun].cancelled =>
       IF pending["permission"] # Nobody /\ askers[begun].phase = "waiting"
       THEN OneCard(RequestOf(begun)) ELSE NoCard
  /\ ~Active /\ ~Ending =>
       None(posted, "permission") /\ cards["permission"] = NoRequest
  /\ Precedes(posted, "permission", "end")
  /\ Precedes(asked, "permission", "submit")

\* The last decision card posted is the one of the call that waits.
DecisionInv ==
  pending["guided"] # Nobody /\ askers[pending["guided"]].phase = "waiting" =>
    LET q == RequestOf(pending["guided"])
    IN  \/ \E i \in 1 .. Len(posted) :
             /\ posted[i].kind = "guided" /\ posted[i].request = q
             /\ \A j \in i + 1 .. Len(posted) : posted[j].kind # "guided"
        \/ /\ None(posted, "guided")
           /\ cards["guided"] = q \/ ~None(asked, "guided")

BaseInv == PromptsTypeOK /\ SlotInv /\ RunInv /\ CardInv /\ ApprovedAsShown

-----------------------------------------------------------------------------
(* The queues                                                              *)

LEMMA AppendFacts ==
  ASSUME NEW S, NEW s \in Seq(S), NEW e \in S
  PROVE  /\ Append(s, e) \in Seq(S) /\ Len(s) \in Nat
         /\ Len(Append(s, e)) = Len(s) + 1
         /\ \A i \in 1 .. Len(s) : Append(s, e)[i] = s[i]
         /\ Append(s, e)[Len(s) + 1] = e
OBVIOUS

LEMMA TailFacts ==
  ASSUME NEW S, NEW s \in Seq(S), s # <<>>
  PROVE  /\ Head(s) \in S /\ Head(s) = s[1]
         /\ Tail(s) \in Seq(S) /\ Len(s) \in Nat \ {0}
         /\ Len(Tail(s)) = Len(s) - 1
         /\ \A i \in 1 .. Len(s) - 1 : Tail(s)[i] = s[i + 1]
OBVIOUS

\* What a message at the end does to a queue.
LEMMA AppendKinds ==
  ASSUME NEW S, NEW s \in Seq(S), NEW e \in S, NEW k
  PROVE  /\ None(s, k) /\ e.kind # k => None(Append(s, e), k)
         /\ None(s, k) /\ e.kind = k => Once(Append(s, e), k)
         /\ Once(s, k) /\ e.kind # k => Once(Append(s, e), k)
         /\ ~None(s, k) => ~None(Append(s, e), k)
         /\ e.kind = k => ~None(Append(s, e), k)
<1> DEFINE t == Append(s, e)
<1>1. /\ Len(s) \in Nat /\ Len(t) = Len(s) + 1
      /\ \A i \in 1 .. Len(s) : t[i] = s[i]
      /\ t[Len(s) + 1] = e
  BY AppendFacts
<1> HIDE DEF t
<1>2. None(s, k) /\ e.kind # k => None(t, k)
  BY <1>1 DEF None
<1>3. ASSUME None(s, k), e.kind = k PROVE Once(t, k)
  <2>1. Len(t) \in 1 .. Len(t) /\ t[Len(t)].kind = k
    BY <1>1, <1>3
  <2>2. ASSUME NEW j \in 1 .. Len(t), t[j].kind = k PROVE j = Len(t)
    <3> SUFFICES ASSUME j \in 1 .. Len(s) PROVE FALSE
      BY <1>1
    <3>1. t[j] = s[j] /\ s[j].kind # k
      BY <1>1, <1>3 DEF None
    <3> QED
      BY <2>2, <3>1
  <2> QED
    BY <2>1, <2>2 DEF Once
<1>4. ASSUME Once(s, k), e.kind # k PROVE Once(t, k)
  <2>1. PICK i \in 1 .. Len(s) :
          s[i].kind = k /\ \A j \in 1 .. Len(s) : s[j].kind = k => j = i
    BY <1>4 DEF Once
  <2>2. i \in 1 .. Len(t) /\ t[i].kind = k
        /\ \A j \in 1 .. Len(t) : t[j].kind = k => j = i
    BY <1>1, <1>4, <2>1
  <2> QED
    BY <2>2 DEF Once
<1>5. ~None(s, k) => ~None(t, k)
  BY <1>1 DEF None
<1>6. e.kind = k => ~None(t, k)
  BY <1>1 DEF None
<1> QED
  BY <1>2, <1>3, <1>4, <1>5, <1>6 DEF t

LEMMA AppendOrder ==
  ASSUME NEW S, NEW s \in Seq(S), NEW e \in S, NEW k, NEW l, k # l, Precedes(s, k, l),
         e.kind # k \/ None(s, l)
  PROVE  Precedes(Append(s, e), k, l)
<1> DEFINE t == Append(s, e)
<1>1. /\ Len(s) \in Nat /\ Len(t) = Len(s) + 1
      /\ \A i \in 1 .. Len(s) : t[i] = s[i]
      /\ t[Len(s) + 1] = e
  BY AppendFacts
<1> HIDE DEF t
<1>2. ASSUME NEW i \in 1 .. Len(t), NEW j \in 1 .. Len(t), t[i].kind = k, t[j].kind = l
      PROVE  i < j
  <2>1. CASE j \in 1 .. Len(s)
    <3>1. i \in 1 .. Len(s)
      BY <1>1, <1>2, <2>1 DEF None
    <3> QED
      BY <1>1, <1>2, <2>1, <3>1 DEF Precedes
  <2>2. CASE j = Len(s) + 1
    BY <1>1, <1>2, <2>2
  <2> QED
    BY <1>1, <2>1, <2>2
<1> QED
  BY <1>2 DEF Precedes, t

\* What taking the first message does to a queue.
LEMMA TailKinds ==
  ASSUME NEW S, NEW s \in Seq(S), s # <<>>, NEW k
  PROVE  /\ None(s, k) => None(Tail(s), k)
         /\ Once(s, k) /\ Head(s).kind = k => None(Tail(s), k)
         /\ Once(s, k) /\ Head(s).kind # k => Once(Tail(s), k)
         /\ ~None(s, k) /\ Head(s).kind # k => ~None(Tail(s), k)
         /\ Head(s).kind = k => ~None(s, k)
<1> DEFINE t == Tail(s)
<1>1. /\ Len(s) \in Nat \ {0} /\ Len(t) = Len(s) - 1 /\ Head(s) = s[1]
      /\ \A i \in 1 .. Len(t) : t[i] = s[i + 1]
  BY TailFacts
<1> HIDE DEF t
<1>2. None(s, k) => None(t, k)
  BY <1>1 DEF None
<1>3. Once(s, k) /\ Head(s).kind = k => None(t, k)
  BY <1>1 DEF None, Once
<1>4. ASSUME Once(s, k), Head(s).kind # k PROVE Once(t, k)
  <2>1. PICK i \in 1 .. Len(s) :
          s[i].kind = k /\ \A j \in 1 .. Len(s) : s[j].kind = k => j = i
    BY <1>4 DEF Once
  <2>2. i - 1 \in 1 .. Len(t) /\ t[i - 1].kind = k
        /\ \A j \in 1 .. Len(t) : t[j].kind = k => j = i - 1
    BY <1>1, <1>4, <2>1
  <2> QED
    BY <2>2 DEF Once
<1>5. ASSUME ~None(s, k), Head(s).kind # k PROVE ~None(t, k)
  <2>1. PICK i \in 1 .. Len(s) : s[i].kind = k
    BY <1>5 DEF None
  <2>2. i - 1 \in 1 .. Len(t) /\ t[i - 1].kind = k
    BY <1>1, <1>5, <2>1
  <2> QED
    BY <2>2 DEF None
<1>6. Head(s).kind = k => ~None(s, k)
  BY <1>1 DEF None
<1> QED
  BY <1>2, <1>3, <1>4, <1>5, <1>6 DEF t

LEMMA TailOrder ==
  ASSUME NEW S, NEW s \in Seq(S), s # <<>>, NEW k, NEW l, k # l, Precedes(s, k, l)
  PROVE  /\ Precedes(Tail(s), k, l)
         /\ Head(s).kind = l => None(s, k)
<1> DEFINE t == Tail(s)
<1>1. /\ Len(s) \in Nat \ {0} /\ Len(t) = Len(s) - 1 /\ Head(s) = s[1]
      /\ \A i \in 1 .. Len(t) : t[i] = s[i + 1]
  BY TailFacts
<1> HIDE DEF t
<1>2. ASSUME NEW i \in 1 .. Len(t), NEW j \in 1 .. Len(t), t[i].kind = k, t[j].kind = l
      PROVE  i < j
  <2>1. /\ i + 1 \in 1 .. Len(s) /\ s[i + 1].kind = k
        /\ j + 1 \in 1 .. Len(s) /\ s[j + 1].kind = l
    BY <1>1, <1>2
  <2>2. i + 1 < j + 1
    BY <2>1 DEF Precedes
  <2> QED
    BY <2>2
<1>3. Head(s).kind = l => None(s, k)
  BY <1>1 DEF Precedes, None
<1> QED
  BY <1>2, <1>3 DEF t, Precedes

-----------------------------------------------------------------------------
(* The runs                                                                *)

\* Who acts is the last run, or the subagent.
LEMMA WhoActs ==
  ASSUME PromptsTypeOK, SlotInv, RunInv, NEW r \in Askers,
         askers[r].phase \in {"idle", "registered", "waiting"}
  PROVE  \/ r = Subagent
         \/ r = begun /\ r # Subagent /\ Active
BY DEF PromptsTypeOK, RunInv, Active, Askers, Subagent

\* The last run is an asker and not the subagent.
LEMMA LastRun ==
  ASSUME PromptsTypeOK, begun > ended
  PROVE  begun \in 1 .. MaxRuns /\ begun \in Askers /\ begun # Subagent
BY DEF PromptsTypeOK, Askers, Subagent

\* A step of one asker within its run leaves the runs where they are.
LEMMA AskerMoves ==
  ASSUME PromptsTypeOK, RunInv, NEW r \in Askers, NEW a \in AskerType, Moves(r, a),
         \/ r = Subagent
         \/ r = begun /\ Active /\ a.phase \in {"idle", "registered", "waiting"},
         UNCHANGED <<asked, begun, ended>>,
         None(posted, "end") => None(posted', "end"),
         Once(posted, "end") => Once(posted', "end")
  PROVE  /\ askers' \in [Askers -> AskerType]
         /\ askers'[r] = a
         /\ \A x \in Askers \ {r} : askers'[x] = askers[x]
         /\ RunInv'
         /\ Active' <=> Active
         /\ Queued' <=> Queued
         /\ Ending' <=> Ending
<1>1. /\ askers' \in [Askers -> AskerType]
      /\ askers'[r] = a
      /\ \A x \in Askers \ {r} : askers'[x] = askers[x]
  BY DEF Moves, PromptsTypeOK
<1>2. begun > ended => begun \in 1 .. MaxRuns /\ begun \in Askers /\ begun # Subagent
  BY LastRun
<1>3. (Active' <=> Active) /\ (Queued' <=> Queued) /\ (Ending' <=> Ending)
  BY <1>1, <1>2 DEF Active, Queued, Ending
<1>4. RunInv'
  <2>1. ASSUME NEW x \in 1 .. MaxRuns
        PROVE  /\ x > begun => askers'[x].phase = "none"
               /\ x <= ended => askers'[x].phase = "over"
    BY <1>1, <1>2 DEF RunInv, Active, Askers, Subagent
  <2> QED
    BY <1>3, <2>1 DEF RunInv
<1> QED
  BY <1>1, <1>3, <1>4

LEMMA CallEndsType ==
  ASSUME PromptsTypeOK, NEW r \in Askers
  PROVE  /\ CallEnds(r) \in AskerType
         /\ CallEnds(r).phase = "idle" /\ CallEnds(r).reply = "none"
         /\ CallEnds(r).cancelled = askers[r].cancelled
         /\ CallEnds(r).action = askers[r].action
<1>1. askers[r] \in AskerType
  BY DEF PromptsTypeOK
<1> DEFINE a == askers[r]
<1>2. a \in [phase : Phases, mode : Modes, action : ToolActions, calls : Nat,
            reply : Answers \cup {"none", "dropped"}, cancelled : BOOLEAN]
  BY <1>1 DEF AskerType
<1>3. CallEnds(r) = [a EXCEPT !.phase = "idle", !.calls = @ + 1, !.reply = "none"]
  BY DEF CallEnds
<1> HIDE DEF a
<1>4. a.calls \in Nat /\ "idle" \in Phases
  BY <1>2 DEF Phases
<1> DEFINE n == a.calls + 1
<1>5. n \in Nat
  BY <1>4
<1>6. CallEnds(r) = [a EXCEPT !.phase = "idle", !.calls = n, !.reply = "none"]
  BY <1>3
<1> HIDE DEF n
<1>7. CallEnds(r) \in AskerType
  BY <1>2, <1>4, <1>5, <1>6 DEF AskerType
<1>8. /\ CallEnds(r).phase = "idle" /\ CallEnds(r).reply = "none"
      /\ CallEnds(r).cancelled = a.cancelled /\ CallEnds(r).action = a.action
  BY <1>2, <1>6
<1> QED
  BY <1>7, <1>8 DEF a

\* A call that ends holds no slot and has no reply.
LEMMA SlotsKept ==
  ASSUME PromptsTypeOK, SlotInv, NEW r \in Askers, askers[r].phase # "none",
         askers' \in [Askers -> AskerType],
         askers'[r].phase \in {"idle", "over"}, askers'[r].reply = "none",
         \A x \in Askers \ {r} : askers'[x] = askers[x],
         \A s \in Slots : pending[s] # r,
         pending' = pending
  PROVE  SlotInv'
<1>1. ASSUME NEW s \in Slots, pending[s] # Nobody
      PROVE  LET a == askers'[pending[s]]
             IN  a.phase \in {"registered", "waiting"} /\ SlotOf(a.action) = s
                 /\ a.reply = "none"
  <2>1. pending[s] \in Askers \ {r}
    BY <1>1 DEF PromptsTypeOK
  <2> QED
    BY <1>1, <2>1 DEF SlotInv
<1>2. \A x \in Askers : askers'[x].phase \in {"none", "idle", "over"} => askers'[x].reply = "none"
  BY DEF SlotInv
<1>3. /\ askers'[Subagent].phase \in {"registered", "waiting"} =>
           SubagentAsks /\ askers'[Subagent].action = "question"
      /\ ~SubagentAsks => askers'[Subagent].phase = "none"
  <2>1. CASE r = Subagent
    <3>1. askers[Subagent].phase # "none"
      BY <2>1
    <3>2. SubagentAsks
      BY <3>1 DEF SlotInv
    <3> QED
      BY <2>1, <3>2
  <2>2. CASE r # Subagent
    <3>1. askers'[Subagent] = askers[Subagent]
      BY <2>2 DEF Subagent, Askers
    <3> QED
      BY <3>1 DEF SlotInv
  <2> QED
    BY <2>1, <2>2
<1> QED
  BY <1>1, <1>2, <1>3 DEF SlotInv

LEMMA DecidedBase ==
  ASSUME BaseInv, NEW r \in Askers, Decided(r) PROVE BaseInv'
<1> USE DEF BaseInv
<1>1. /\ r = begun /\ r # Subagent /\ Active
      /\ askers[r].phase = "idle" /\ ~askers[r].cancelled
  BY WhoActs DEF Decided, MayCall
<1>2. CallEnds(r) \in AskerType /\ CallEnds(r).phase = "idle"
      /\ CallEnds(r).reply = "none" /\ CallEnds(r).cancelled = askers[r].cancelled
  BY CallEndsType
<1>3. Moves(r, CallEnds(r))
      /\ UNCHANGED <<permissionMode, alwaysAllowed, pending, cards, asked, posted, begun,
                     ended, agreed>>
  BY DEF Decided
<1>4. /\ askers' \in [Askers -> AskerType]
      /\ askers'[r] = CallEnds(r)
      /\ \A x \in Askers \ {r} : askers'[x] = askers[x]
      /\ RunInv' /\ (Active' <=> Active) /\ (Queued' <=> Queued) /\ (Ending' <=> Ending)
  BY <1>1, <1>2, <1>3, AskerMoves
<1>5. PromptsTypeOK'
  BY <1>3, <1>4 DEF PromptsTypeOK
<1>6. \A s \in Slots : pending[s] # r
  BY <1>1 DEF SlotInv, Nobody, Askers
<1>7. SlotInv'
  BY <1>1, <1>2, <1>3, <1>4, <1>6, SlotsKept
<1>8. CardInv'
  <2>1. NoCard /\ pending["permission"] = Nobody
    BY <1>1, <1>6 DEF CardInv, Slots
  <2> QED
    BY <1>1, <1>2, <1>3, <1>4, <2>1 DEF CardInv, NoCard
<1>9. ApprovedAsShown'
  BY <1>1, <1>2, <1>3, <1>4 DEF ApprovedAsShown, Accepted, RequestOf
<1> QED
  BY <1>4, <1>5, <1>7, <1>8, <1>9

LEMMA ResolvedBase ==
  ASSUME BaseInv, NEW r \in Askers, Resolved(r) PROVE BaseInv'
<1> USE DEF BaseInv
<1>1. /\ askers[r].phase = "waiting" /\ askers[r].reply # "none"
      /\ r = Subagent \/ (r = begun /\ r # Subagent /\ Active)
  BY WhoActs DEF Resolved
<1>2. CallEnds(r) \in AskerType /\ CallEnds(r).phase = "idle"
      /\ CallEnds(r).reply = "none" /\ CallEnds(r).cancelled = askers[r].cancelled
      /\ CallEnds(r).action = askers[r].action
  BY CallEndsType
<1>3. Moves(r, CallEnds(r))
      /\ UNCHANGED <<permissionMode, pending, cards, asked, posted, begun, ended, agreed>>
  BY DEF Resolved
<1>4. /\ askers' \in [Askers -> AskerType]
      /\ askers'[r] = CallEnds(r)
      /\ \A x \in Askers \ {r} : askers'[x] = askers[x]
      /\ RunInv' /\ (Active' <=> Active) /\ (Queued' <=> Queued) /\ (Ending' <=> Ending)
  BY <1>1, <1>2, <1>3, AskerMoves
<1>5. PromptsTypeOK'
  BY <1>3, <1>4 DEF PromptsTypeOK
<1>6. \A s \in Slots : pending[s] # r
  BY <1>1 DEF SlotInv, Nobody, Askers
<1>7. SlotInv'
  BY <1>1, <1>2, <1>3, <1>4, <1>6, SlotsKept
<1>8. CardInv'
  <2>1. CASE r = Subagent
    <3>1. begun > ended => askers'[begun] = askers[begun]
      BY <1>4, <2>1, LastRun
    <3>2. RequestOf(begun)' = RequestOf(begun) \/ ~Active
      BY <1>3, <3>1 DEF RequestOf, Active
    <3> QED
      BY <1>3, <1>4, <3>1, <3>2, LastRun DEF CardInv, NoCard, OneCard, Active
  <2>2. CASE r = begun /\ Active
    <3>1. pending["permission"] = Nobody
      BY <1>6, <2>2 DEF CardInv, Slots
    <3>2. ~askers[begun].cancelled => NoCard
      BY <2>2, <3>1 DEF CardInv
    <3> QED
      BY <1>2, <1>3, <1>4, <2>2, <3>1, <3>2 DEF CardInv, NoCard
  <2> QED
    BY <1>1, <2>1, <2>2
<1>9. ApprovedAsShown'
  BY <1>1, <1>2, <1>3, <1>4 DEF ApprovedAsShown, Accepted, RequestOf
<1> QED
  BY <1>4, <1>5, <1>7, <1>8, <1>9

LEMMA PromptTypes ==
  ASSUME PromptsTypeOK
  PROVE  /\ asked \in Seq(Command) /\ posted \in Seq(Notice)
         /\ \A x \in Askers : /\ askers[x] \in AskerType /\ askers[x].calls \in Nat
                              /\ x \in Nat /\ x # Nobody /\ RequestOf(x) \in Requests
                              /\ RequestOf(x) # NoRequest
         /\ Subagent \in Askers
         /\ "permission" \in Slots /\ "guided" \in Slots
<1>1. \A x \in Askers : askers[x] \in AskerType /\ askers[x].calls \in Nat
  BY DEF PromptsTypeOK, AskerType
<1>2. \A x \in Askers : x \in 0 .. MaxRuns + 1 /\ x # 0
  BY DEF Askers
<1> QED
  BY <1>1, <1>2 DEF PromptsTypeOK, Askers, Subagent, RequestOf, Requests, Nobody, NoRequest, Slots

LEMMA ShowCardBase ==
  ASSUME BaseInv, NEW r \in Askers, ShowCard(r) PROVE BaseInv'
<1> USE DEF BaseInv
<1> DEFINE a == [askers[r] EXCEPT !.phase = "waiting"]
<1> DEFINE e == [kind |-> SlotOf(askers[r].action), request |-> RequestOf(r)]
<1>1. /\ askers[r].phase = "registered"
      /\ \/ r = Subagent
         \/ r = begun /\ r # Subagent /\ Active
  BY WhoActs DEF ShowCard
<1>2. /\ a \in AskerType /\ a.phase = "waiting" /\ a.reply = askers[r].reply
      /\ a.cancelled = askers[r].cancelled /\ a.action = askers[r].action
      /\ a.calls = askers[r].calls
  BY PromptTypes DEF AskerType, Phases
<1>3. e \in Notice /\ e.kind = SlotOf(askers[r].action) /\ e.kind # "end"
      /\ e.request = RequestOf(r)
  BY PromptTypes DEF Notice, SlotOf, Slots
<1>4. Moves(r, a) /\ posted' = Append(posted, e)
      /\ UNCHANGED <<permissionMode, pending, cards, asked, begun, ended, agreed>>
  BY DEF ShowCard
<1> HIDE DEF a, e
<1>5. /\ None(posted, "end") => None(posted', "end")
      /\ Once(posted, "end") => Once(posted', "end")
      /\ posted' \in Seq(Notice)
  BY <1>3, <1>4, PromptTypes, AppendKinds, AppendFacts
<1>6. /\ askers' \in [Askers -> AskerType]
      /\ askers'[r] = a
      /\ \A x \in Askers \ {r} : askers'[x] = askers[x]
      /\ RunInv' /\ (Active' <=> Active) /\ (Queued' <=> Queued) /\ (Ending' <=> Ending)
  BY <1>1, <1>2, <1>4, <1>5, AskerMoves
<1>7. PromptsTypeOK'
  BY <1>4, <1>5, <1>6 DEF PromptsTypeOK
<1>8. SlotInv'
  <2>1. \A x \in Askers : /\ askers'[x].action = askers[x].action
                          /\ askers'[x].reply = askers[x].reply
                          /\ askers'[x].phase = IF x = r THEN "waiting" ELSE askers[x].phase
    BY <1>2, <1>6
  <2>2. ASSUME NEW s \in Slots, pending[s] # Nobody
        PROVE  LET b == askers'[pending[s]]
               IN  b.phase \in {"registered", "waiting"} /\ SlotOf(b.action) = s
                   /\ b.reply = "none"
    <3>1. pending[s] \in Askers
      BY <2>2 DEF PromptsTypeOK
    <3> QED
      BY <2>1, <2>2, <3>1 DEF SlotInv
  <2>3. askers'[Subagent].phase # askers[Subagent].phase => r = Subagent
    BY <2>1, PromptTypes
  <2> QED
    BY <1>1, <1>4, <2>1, <2>2, <2>3, PromptTypes DEF SlotInv
<1>9. \A x \in Askers : RequestOf(x)' = RequestOf(x)
  BY <1>2, <1>6 DEF RequestOf
<1>10. ApprovedAsShown'
  <2>1. \A x \in Askers : askers'[x].action = askers[x].action /\ askers'[x].reply = askers[x].reply
    BY <1>2, <1>6
  <2> QED
    BY <1>4, <1>9, <2>1 DEF ApprovedAsShown, Accepted
<1>11. Precedes(posted', "permission", "end")
  <2>1. CASE r = Subagent
    <3>1. e.kind # "permission"
      BY <1>1, <1>3, <2>1 DEF SlotInv, SlotOf
    <3> QED
      BY <1>3, <1>4, <3>1, PromptTypes, AppendOrder DEF CardInv
  <2>2. CASE r = begun /\ Active
    <3>1. None(posted, "end")
      BY <2>2 DEF RunInv, Active, Ending
    <3> QED
      BY <1>3, <1>4, <3>1, PromptTypes, AppendOrder DEF CardInv
  <2> QED
    BY <1>1, <2>1, <2>2
<1>12. CASE r = Subagent
  <2>1. None(posted', "permission") <=> None(posted, "permission")
    BY <1>1, <1>3, <1>4, <1>12, PromptTypes, AppendKinds DEF SlotInv, SlotOf
  <2>2. begun > ended => askers'[begun] = askers[begun]
    BY <1>6, <1>12, LastRun
  <2>3. ASSUME Active, ~askers[begun].cancelled PROVE
          IF pending["permission"] # Nobody /\ askers[begun].phase = "waiting"
          THEN OneCard(RequestOf(begun))' ELSE NoCard'
    <3>1. begun \in Askers
      BY <2>3, LastRun DEF Active
    <3>2. ASSUME OneCard(RequestOf(begun)) PROVE OneCard(RequestOf(begun))'
      <4>1. Once(posted, "permission") => Once(posted', "permission")
        BY <1>1, <1>3, <1>4, <1>12, PromptTypes, AppendKinds DEF SlotInv, SlotOf
      <4>2. \A i \in 1 .. Len(posted') :
              posted'[i].kind = "permission" => posted'[i].request = RequestOf(begun)
        <5>1. e.kind # "permission"
          BY <1>1, <1>3, <1>12 DEF SlotInv, SlotOf
        <5> QED
          BY <1>3, <1>4, <3>2, <5>1, PromptTypes, AppendFacts DEF OneCard
      <4> QED
        BY <1>4, <1>9, <2>1, <3>1, <3>2, <4>1, <4>2 DEF OneCard
    <3>3. NoCard => NoCard'
      BY <1>4, <2>1 DEF NoCard
    <3> QED
      BY <2>3, <3>2, <3>3 DEF CardInv
  <2>4. CardInv'
    BY <1>4, <1>6, <1>11, <2>1, <2>2, <2>3 DEF CardInv, Active
  <2> QED
    BY <1>6, <1>7, <1>8, <1>10, <2>4
<1>13. CASE r = begun /\ r # Subagent /\ Active
  <2>1. ASSUME ~askers[r].cancelled
        PROVE IF pending["permission"] # Nobody THEN OneCard(RequestOf(begun))' ELSE NoCard'
    <3>1. NoCard
      BY <1>1, <1>13, <2>1 DEF CardInv
    <3>2. CASE pending["permission"] # Nobody
      <4>1. e.kind = "permission"
        BY <1>3, <1>13, <3>2, PromptTypes DEF CardInv, SlotInv
      <4>2. Once(posted', "permission")
        BY <1>3, <1>4, <3>1, <4>1, PromptTypes, AppendKinds DEF NoCard
      <4>3. \A i \in 1 .. Len(posted') :
              posted'[i].kind = "permission" => posted'[i].request = RequestOf(begun)
        BY <1>3, <1>4, <1>13, <3>1, PromptTypes, AppendFacts DEF NoCard, None
      <4> QED
        BY <1>4, <1>9, <1>13, <3>1, <3>2, <4>2, <4>3 DEF NoCard, OneCard, None
    <3>3. CASE pending["permission"] = Nobody
      <4>1. e.kind # "permission"
        BY <1>1, <1>3, <1>13, <2>1, <3>3 DEF CardInv, SlotOf
      <4> QED
        BY <1>3, <1>4, <3>1, <3>3, <4>1, PromptTypes, AppendKinds DEF NoCard
    <3> QED
      BY <3>2, <3>3
  <2>2. CardInv'
    BY <1>2, <1>4, <1>6, <1>11, <1>13, <2>1 DEF CardInv
  <2> QED
    BY <1>6, <1>7, <1>8, <1>10, <2>2
<1> QED
  BY <1>1, <1>12, <1>13

LEMMA RunReturnsBase ==
  ASSUME BaseInv, NEW r \in Askers, RunReturns(r) PROVE BaseInv'
<1> USE DEF BaseInv
<1> DEFINE a == [askers[r] EXCEPT !.phase = "over"]
<1> DEFINE e == [kind |-> "end", request |-> RequestOf(r)]
<1>1. /\ askers[r].phase = "idle" /\ askers[r].reply = "none"
      /\ \/ r = Subagent
         \/ r = begun /\ r # Subagent /\ Active
  BY WhoActs DEF RunReturns, SlotInv
<1>2. /\ a \in AskerType /\ a.phase = "over" /\ a.reply = "none"
  <2>1. askers[r] \in AskerType
    BY PromptTypes
  <2>2. "over" \in Phases
    BY DEF Phases
  <2>3. \A x \in AskerType, p \in Phases :
          /\ [x EXCEPT !.phase = p] \in AskerType
          /\ [x EXCEPT !.phase = p].phase = p /\ [x EXCEPT !.phase = p].reply = x.reply
    BY DEF AskerType
  <2> QED
    BY <1>1, <2>1, <2>2, <2>3
<1>3. e \in Notice /\ e.kind = "end"
  BY PromptTypes DEF Notice
<1>4. /\ Moves(r, a)
      /\ posted' = IF r = Subagent THEN posted ELSE Append(posted, e)
      /\ UNCHANGED <<permissionMode, pending, cards, asked, begun, ended, agreed>>
  BY DEF RunReturns
<1> HIDE DEF a, e
<1>5. /\ askers' \in [Askers -> AskerType]
      /\ askers'[r] = a
      /\ \A x \in Askers \ {r} : askers'[x] = askers[x]
  BY <1>2, <1>4 DEF Moves, PromptsTypeOK
<1>6. PromptsTypeOK'
  BY <1>3, <1>4, <1>5, AppendFacts DEF PromptsTypeOK
<1>7. \A s \in Slots : pending[s] # r
  BY <1>1 DEF SlotInv, Nobody, Askers
<1>8. SlotInv'
  BY <1>1, <1>2, <1>4, <1>5, <1>7, SlotsKept
<1>9. ApprovedAsShown'
  BY <1>2, <1>4, <1>5 DEF ApprovedAsShown, Accepted, RequestOf
<1>10. CASE r = Subagent
  <2>1. begun > ended => askers'[begun] = askers[begun] /\ begun \in Askers
    BY <1>5, <1>10, LastRun
  <2>2. (Active' <=> Active) /\ (Queued' <=> Queued) /\ (Ending' <=> Ending)
    BY <1>4, <2>1 DEF Active, Queued, Ending
  <2>3. \A x \in 1 .. MaxRuns : askers'[x] = askers[x]
    BY <1>5, <1>10 DEF Askers, Subagent
  <2>4. RunInv'
    BY <1>4, <1>10, <2>2, <2>3 DEF RunInv
  <2>5. Active => RequestOf(begun)' = RequestOf(begun)
    BY <1>4, <2>1 DEF RequestOf, Active
  <2>6. CardInv'
    BY <1>4, <1>10, <2>1, <2>2, <2>5 DEF CardInv, NoCard, OneCard, Active
  <2> QED
    BY <1>6, <1>8, <1>9, <2>4, <2>6
<1>11. CASE r = begun /\ r # Subagent /\ Active
  <2>1. ~Active' /\ ~Queued' /\ Ending'
    BY <1>2, <1>4, <1>5, <1>11 DEF Active, Queued, Ending
  <2>2. None(asked, "submit") /\ None(posted, "end")
    BY <1>11 DEF RunInv, Active, Queued, Ending
  <2>3. Once(posted', "end") /\ Precedes(posted', "permission", "end")
    BY <1>3, <1>4, <1>11, <2>2, PromptTypes, AppendKinds, AppendOrder DEF CardInv
  <2>4. \A x \in 1 .. MaxRuns : /\ x > begun => askers'[x].phase = "none"
                                /\ x <= ended => askers'[x].phase = "over"
    BY <1>2, <1>5, <1>11 DEF RunInv, Askers, Active, PromptsTypeOK
  <2>5. RunInv'
    BY <1>4, <2>1, <2>2, <2>3, <2>4 DEF RunInv
  <2>6. pending["permission"] = Nobody
    BY <1>7, <1>11, PromptTypes DEF CardInv
  <2>7. CardInv'
    BY <1>4, <2>1, <2>3, <2>6 DEF CardInv
  <2> QED
    BY <1>6, <1>8, <1>9, <2>5, <2>7
<1> QED
  BY <1>1, <1>10, <1>11

LEMMA RegisterBase ==
  ASSUME BaseInv, NEW r \in Askers, Register(r) PROVE BaseInv'
<1> USE DEF BaseInv
<1>1. PICK act \in ToolActions :
        /\ act = "question" \/ (Asks(askers[r].mode, act) /\ r # Subagent)
        /\ askers' = [x \in Askers |->
             IF x = r THEN [askers[r] EXCEPT !.phase = "registered", !.action = act]
             ELSE IF x = pending[SlotOf(act)] THEN [askers[x] EXCEPT !.reply = "dropped"]
             ELSE askers[x]]
        /\ pending' = [pending EXCEPT ![SlotOf(act)] = r]
  BY DEF Register
<1> DEFINE s == SlotOf(act)
<1>2. /\ askers[r].phase = "idle" /\ askers[r].reply = "none" /\ ~askers[r].cancelled
      /\ \/ r = Subagent
         \/ r = begun /\ r # Subagent /\ Active
      /\ UNCHANGED <<permissionMode, cards, asked, posted, begun, ended, agreed>>
  BY WhoActs DEF Register, MayCall, SlotInv
<1>3. s \in Slots /\ (s = "permission" <=> act # "question")
  BY DEF SlotOf, Slots
<1>4. pending[s] # r /\ \A t \in Slots : pending[t] # r
  BY <1>2, <1>3 DEF SlotInv, Nobody, Askers
<1>5. /\ askers'[r] \in AskerType
      /\ askers'[r].phase = "registered" /\ askers'[r].action = act
      /\ askers'[r].reply = "none" /\ ~askers'[r].cancelled
      /\ askers'[r].calls = askers[r].calls
  BY <1>1, <1>2, PromptTypes DEF AskerType, Phases
<1>6. \A x \in Askers \ {r} :
        /\ askers'[x] \in AskerType
        /\ askers'[x].phase = askers[x].phase /\ askers'[x].action = askers[x].action
        /\ askers'[x].calls = askers[x].calls
        /\ askers'[x].cancelled = askers[x].cancelled
        /\ askers'[x].reply = IF x = pending[s] THEN "dropped" ELSE askers[x].reply
  <2>1. \A y \in AskerType :
          /\ [y EXCEPT !.reply = "dropped"] \in AskerType
          /\ [y EXCEPT !.reply = "dropped"].phase = y.phase
          /\ [y EXCEPT !.reply = "dropped"].action = y.action
          /\ [y EXCEPT !.reply = "dropped"].calls = y.calls
          /\ [y EXCEPT !.reply = "dropped"].cancelled = y.cancelled
          /\ [y EXCEPT !.reply = "dropped"].reply = "dropped"
    BY DEF AskerType
  <2>2. \A x \in Askers \ {r} :
          /\ askers[x] \in AskerType
          /\ askers'[x] = IF x = pending[s] THEN [askers[x] EXCEPT !.reply = "dropped"]
                         ELSE askers[x]
    BY <1>1, PromptTypes
  <2>3. ASSUME NEW x \in Askers \ {r}
        PROVE  /\ askers'[x] \in AskerType
               /\ askers'[x].phase = askers[x].phase /\ askers'[x].action = askers[x].action
               /\ askers'[x].calls = askers[x].calls
               /\ askers'[x].cancelled = askers[x].cancelled
               /\ askers'[x].reply = IF x = pending[s] THEN "dropped" ELSE askers[x].reply
    <3> DEFINE y == askers[x]
    <3> DEFINE z == [y EXCEPT !.reply = "dropped"]
    <3>1. /\ y \in AskerType
          /\ askers'[x] = IF x = pending[s] THEN z ELSE y
      BY <2>2
    <3>2. /\ z \in AskerType /\ z.phase = y.phase /\ z.action = y.action
          /\ z.calls = y.calls /\ z.cancelled = y.cancelled /\ z.reply = "dropped"
      BY <2>1, <3>1
    <3> HIDE DEF z, s
    <3>3. CASE x = pending[s]
      BY <3>1, <3>2, <3>3
    <3>4. CASE x # pending[s]
      BY <3>1, <3>4
    <3> QED
      BY <3>3, <3>4
  <2> QED
    BY <2>3
<1>7. /\ pending' \in [Slots -> Askers \cup {Nobody}] /\ pending'[s] = r
      /\ \A t \in Slots \ {s} : pending'[t] = pending[t]
  BY <1>1, <1>3 DEF PromptsTypeOK
<1>8. PromptsTypeOK'
  BY <1>1, <1>2, <1>5, <1>6, <1>7 DEF PromptsTypeOK
<1> HIDE DEF s
<1>9. SlotInv'
  <2>1. ASSUME NEW t \in Slots, pending'[t] # Nobody
        PROVE  LET b == askers'[pending'[t]]
               IN  b.phase \in {"registered", "waiting"} /\ SlotOf(b.action) = t
                   /\ b.reply = "none"
    <3>1. CASE t = s
      BY <1>5, <1>7, <3>1 DEF s
    <3>2. CASE t # s
      <4>1. pending'[t] = pending[t] /\ pending[t] \in Askers \ {r}
        BY <1>4, <1>7, <2>1, <3>2 DEF PromptsTypeOK
      <4>2. pending[t] # pending[s]
        BY <1>3, <2>1, <3>2, <4>1 DEF SlotInv
      <4> QED
        BY <1>6, <2>1, <4>1, <4>2 DEF SlotInv
    <3> QED
      BY <3>1, <3>2
  <2>2. \A x \in Askers : askers'[x].phase \in {"none", "idle", "over"} => askers'[x].reply = "none"
    <3>1. ASSUME NEW x \in Askers \ {r}, x = pending[s]
          PROVE  askers[x].phase \in {"registered", "waiting"}
      BY <1>3, <3>1, PromptTypes DEF SlotInv
    <3> QED
      BY <1>5, <1>6, <3>1 DEF SlotInv
  <2>3. r = Subagent => SubagentAsks /\ act = "question"
    BY <1>1, <1>2 DEF SlotInv
  <2> QED
    BY <1>5, <1>6, <2>1, <2>2, <2>3, PromptTypes DEF SlotInv
<1>10. (Active' <=> Active) /\ (Queued' <=> Queued) /\ (Ending' <=> Ending)
  BY <1>2, <1>5, <1>6, LastRun DEF Active, Queued, Ending
<1>11. RunInv'
  <2>1. \A x \in 1 .. MaxRuns : /\ x > begun => askers'[x].phase = "none"
                                /\ x <= ended => askers'[x].phase = "over"
    BY <1>2, <1>5, <1>6 DEF RunInv, Askers, Active, Subagent
  <2> QED
    BY <1>2, <1>10, <2>1 DEF RunInv
<1>12. ApprovedAsShown'
  BY <1>2, <1>5, <1>6 DEF ApprovedAsShown, Accepted, RequestOf
<1>13. CASE r = Subagent
  <2>1. s # "permission" /\ pending'["permission"] = pending["permission"]
    BY <1>1, <1>3, <1>7, <1>13, PromptTypes
  <2>2. Active => /\ RequestOf(begun)' = RequestOf(begun)
                  /\ askers'[begun].phase = askers[begun].phase
                  /\ askers'[begun].action = askers[begun].action
                  /\ askers'[begun].cancelled = askers[begun].cancelled
    BY <1>2, <1>6, <1>13, LastRun DEF Active, RequestOf
  <2>3. CardInv'
    BY <1>2, <1>10, <2>1, <2>2 DEF CardInv, NoCard, OneCard, Active
  <2> QED
    BY <1>8, <1>9, <1>11, <1>12, <2>3
<1>14. CASE r = begun /\ r # Subagent /\ Active
  <2>1. NoCard
    BY <1>2, <1>14 DEF CardInv
  <2>2. CardInv'
    BY <1>2, <1>3, <1>5, <1>7, <1>10, <1>14, <2>1, PromptTypes DEF CardInv, NoCard
  <2> QED
    BY <1>8, <1>9, <1>11, <1>12, <2>2
<1> QED
  BY <1>2, <1>13, <1>14

\* A command that neither submits nor answers may come or go.
LEMMA OtherCommands ==
  ASSUME BaseInv, asked' \in Seq(Command), permissionMode' \in Modes,
         None(asked', "permission") <=> None(asked, "permission"),
         None(asked', "submit") <=> None(asked, "submit"),
         Once(asked, "permission") => Once(asked', "permission"),
         Once(asked, "submit") => Once(asked', "submit"),
         Precedes(asked', "permission", "submit"),
         \A i \in 1 .. Len(asked') : asked'[i].kind \in {"submit", "permission"} =>
           \E j \in 1 .. Len(asked) : asked'[i] = asked[j],
         UNCHANGED <<askers, pending, cards, posted, begun, ended, agreed>>
  PROVE  BaseInv'
<1> USE DEF BaseInv
<1>1. PromptsTypeOK'
  BY DEF PromptsTypeOK
<1>2. SlotInv' /\ ApprovedAsShown'
  BY DEF SlotInv, ApprovedAsShown, Accepted, RequestOf
<1>3. (Active' <=> Active) /\ (Queued' <=> Queued) /\ (Ending' <=> Ending)
  BY DEF Active, Queued, Ending
<1>4. RunInv'
  BY <1>3 DEF RunInv
<1>5. CardInv'
  <2>1. NoCard => NoCard'
    BY DEF NoCard
  <2>2. OneCard(RequestOf(begun)) => OneCard(RequestOf(begun))'
    BY DEF OneCard, RequestOf
  <2> QED
    BY <1>3, <2>1, <2>2 DEF CardInv
<1> QED
  BY <1>1, <1>2, <1>4, <1>5

\* A command is typed.
LEMMA CommandTyped ==
  ASSUME BaseInv, NEW c \in Command, c.kind \notin {"submit", "permission"}, Waits(c),
         UNCHANGED <<permissionMode, askers, pending, cards, posted, begun, ended, agreed>>
  PROVE  BaseInv'
<1>1. asked \in Seq(Command) /\ asked' = Append(asked, c)
  BY PromptTypes DEF BaseInv, Waits
<1>2. /\ asked' \in Seq(Command)
      /\ \A k \in {"submit", "permission"} :
           (None(asked', k) <=> None(asked, k)) /\ (Once(asked, k) => Once(asked', k))
      /\ Precedes(asked', "permission", "submit")
  BY <1>1, AppendKinds, AppendOrder, AppendFacts DEF BaseInv, CardInv
<1>3. ASSUME NEW i \in 1 .. Len(asked'), asked'[i].kind \in {"submit", "permission"}
      PROVE  \E j \in 1 .. Len(asked) : asked'[i] = asked[j]
  <2>1. i \in 1 .. Len(asked)
    BY <1>1, <1>3, AppendFacts
  <2> QED
    BY <1>1, <2>1, AppendFacts
<1>4. permissionMode' \in Modes
  BY DEF BaseInv, PromptsTypeOK
<1> QED
  BY <1>2, <1>3, <1>4, OtherCommands

LEMMA PressInterruptBase == BaseInv /\ PressInterrupt => BaseInv'
<1> SUFFICES ASSUME BaseInv, PressInterrupt PROVE BaseInv'
  OBVIOUS
<1> DEFINE c == [kind |-> "cancel", arg |-> ""]
<1>1. c \in Command /\ c.kind = "cancel"
  BY DEF Command
<1> HIDE DEF c
<1>2. Waits(c) /\ UNCHANGED <<permissionMode, askers, pending, cards, posted, begun, ended, agreed>>
  BY DEF PressInterrupt, c
<1> QED
  BY <1>1, <1>2, CommandTyped

LEMMA ChooseModeBase == BaseInv /\ ChooseMode => BaseInv'
<1> SUFFICES ASSUME BaseInv, ChooseMode PROVE BaseInv'
  OBVIOUS
<1>1. PICK m \in Modes : Waits([kind |-> "mode", arg |-> m])
  BY DEF ChooseMode
<1> DEFINE c == [kind |-> "mode", arg |-> m]
<1>2. c \in Command /\ c.kind = "mode"
  BY DEF Command
<1> HIDE DEF c
<1>3. Waits(c) /\ UNCHANGED <<permissionMode, askers, pending, cards, posted, begun, ended, agreed>>
  BY <1>1 DEF ChooseMode, c
<1> QED
  BY <1>2, <1>3, CommandTyped

LEMMA TypeRunBase == BaseInv /\ ~Together /\ TypeRun => BaseInv'
<1> SUFFICES ASSUME BaseInv, ~Together, TypeRun PROVE BaseInv'
  OBVIOUS
<1> USE DEF BaseInv
<1> DEFINE c == [kind |-> "submit", arg |-> begun + 1]
<1>1. /\ begun < MaxRuns /\ begun = ended /\ begun' = begun + 1
      /\ asked' = Append(asked, c)
      /\ UNCHANGED <<permissionMode, askers, pending, cards, posted, ended, agreed>>
  BY DEF TypeRun, Waits
<1>2. /\ asked \in Seq(Command) /\ begun \in Nat /\ begun + 1 \in 1 .. MaxRuns
  BY <1>1 DEF PromptsTypeOK
<1>3. c \in Command /\ c.kind = "submit" /\ c.arg = begun + 1
  BY <1>2 DEF Command
<1> HIDE DEF c
<1>4. ~Active /\ ~Queued /\ ~Ending
  BY <1>1, <1>2 DEF Active, Queued, Ending
<1>5. askers[begun + 1].phase = "none"
  BY <1>2 DEF RunInv
<1>6. Queued' /\ ~Active' /\ ~Ending'
  BY <1>1, <1>2, <1>5 DEF Active, Queued, Ending
<1>7. /\ asked' \in Seq(Command) /\ Once(asked', "submit")
      /\ Precedes(asked', "permission", "submit")
      /\ \A i \in 1 .. Len(asked') : asked'[i].kind = "submit" => asked'[i] = c
  <2>1. None(asked, "submit") /\ Precedes(asked, "permission", "submit")
    BY <1>4 DEF RunInv, CardInv
  <2>2. \A i \in 1 .. Len(asked') : asked'[i].kind = "submit" => asked'[i] = c
    BY <1>1, <1>2, <1>3, <2>1, AppendFacts DEF None
  <2> QED
    BY <1>1, <1>2, <1>3, <2>1, <2>2, AppendKinds, AppendOrder, AppendFacts
<1>8. PromptsTypeOK'
  BY <1>1, <1>2, <1>7 DEF PromptsTypeOK
<1>9. SlotInv' /\ ApprovedAsShown'
  BY <1>1 DEF SlotInv, ApprovedAsShown, Accepted, RequestOf
<1>10. RunInv'
  BY <1>1, <1>2, <1>3, <1>4, <1>6, <1>7 DEF RunInv
<1>11. CardInv'
  BY <1>1, <1>4, <1>6, <1>7 DEF CardInv
<1> QED
  BY <1>8, <1>9, <1>10, <1>11

\* The loop takes a command.
LEMMA CommandTaken ==
  ASSUME BaseInv, NEW kind, TakesCommand(kind)
  PROVE  /\ asked # <<>> /\ asked \in Seq(Command) /\ asked' = Tail(asked)
         /\ Head(asked) \in Command /\ Head(asked).kind = kind
         /\ asked' \in Seq(Command)
         /\ \E j \in 1 .. Len(asked) : Head(asked) = asked[j]
         /\ \A i \in 1 .. Len(asked') : \E j \in 1 .. Len(asked) : asked'[i] = asked[j]
         /\ Precedes(asked', "permission", "submit")
<1>1. asked # <<>> /\ asked \in Seq(Command) /\ asked' = Tail(asked)
  BY PromptTypes DEF BaseInv, TakesCommand
<1>2. /\ Head(asked) \in Command /\ Head(asked).kind = kind
      /\ asked' \in Seq(Command)
      /\ \E j \in 1 .. Len(asked) : Head(asked) = asked[j]
  BY <1>1, TailFacts DEF TakesCommand
<1>3. ASSUME NEW i \in 1 .. Len(asked') PROVE \E j \in 1 .. Len(asked) : asked'[i] = asked[j]
  <2>1. i + 1 \in 1 .. Len(asked) /\ asked'[i] = asked[i + 1]
    BY <1>1, TailFacts
  <2> QED
    BY <2>1
<1>4. Precedes(asked', "permission", "submit")
  BY <1>1, TailOrder DEF BaseInv, CardInv
<1> QED
  BY <1>1, <1>2, <1>3, <1>4

LEMMA CommandArgs ==
  ASSUME NEW c \in Command
  PROVE  /\ c.kind = "mode" => c.arg \in Modes
         /\ c.kind = "submit" => c.arg \in 1 .. MaxRuns
         /\ c.kind \in Slots => c.arg \in Answers
BY DEF Command, Slots

LEMMA SetPermissionModeBase == BaseInv /\ SetPermissionMode => BaseInv'
<1> SUFFICES ASSUME BaseInv, SetPermissionMode PROVE BaseInv'
  OBVIOUS
<1>1. /\ TakesCommand("mode") /\ permissionMode' = Head(asked).arg
      /\ UNCHANGED <<askers, pending, cards, posted, begun, ended, agreed>>
  BY DEF SetPermissionMode
<1>2. Head(asked).arg \in Modes
  BY <1>1, CommandTaken, CommandArgs
<1>3. \A k \in {"submit", "permission"} :
        (None(asked', k) <=> None(asked, k)) /\ (Once(asked, k) => Once(asked', k))
  <2>1. /\ asked # <<>> /\ asked \in Seq(Command) /\ asked' = Tail(asked)
        /\ Head(asked).kind = "mode"
    BY <1>1, CommandTaken
  <2> QED
    BY <2>1, TailKinds
<1> QED
  BY <1>1, <1>2, <1>3, CommandTaken, OtherCommands

LEMMA BeginWaitingBase == BaseInv /\ BeginWaiting => BaseInv'
<1> SUFFICES ASSUME BaseInv, BeginWaiting PROVE BaseInv'
  OBVIOUS
<1> USE DEF BaseInv
<1> DEFINE a == Asker(permissionMode, "idle")
<1>1. /\ TakesCommand("submit") /\ Moves(Head(asked).arg, a)
      /\ UNCHANGED <<permissionMode, pending, cards, posted, begun, ended, agreed>>
  BY DEF BeginWaiting
<1>2. /\ asked # <<>> /\ asked \in Seq(Command) /\ asked' = Tail(asked)
      /\ asked' \in Seq(Command) /\ Head(asked).kind = "submit"
      /\ \E j \in 1 .. Len(asked) : Head(asked) = asked[j]
      /\ Precedes(asked', "permission", "submit")
  BY <1>1, CommandTaken
<1>3. ~None(asked, "submit")
  BY <1>2, TailKinds
<1>4. Queued /\ Once(asked, "submit") /\ Head(asked).arg = begun
  BY <1>2, <1>3 DEF RunInv
<1>5. begun \in Askers /\ begun # Subagent /\ begun > ended
  BY <1>4, LastRun DEF Queued
<1>6. /\ a \in AskerType /\ a.phase = "idle" /\ a.reply = "none" /\ ~a.cancelled
  BY DEF Asker, AskerType, Phases, PromptsTypeOK, ToolActions
<1> HIDE DEF a
<1>7. /\ askers' \in [Askers -> AskerType]
      /\ askers'[begun] = a
      /\ \A x \in Askers \ {begun} : askers'[x] = askers[x]
  BY <1>1, <1>4, <1>5, <1>6 DEF Moves, PromptsTypeOK
<1>8. ~Queued' /\ Active' /\ ~Ending' /\ ~Active /\ ~Ending
  BY <1>1, <1>4, <1>5, <1>6, <1>7 DEF Active, Queued, Ending
<1>9. PromptsTypeOK'
  BY <1>1, <1>2, <1>7 DEF PromptsTypeOK
<1>10. RunInv'
  <2>1. \A x \in 1 .. MaxRuns : /\ x > begun => askers'[x].phase = "none"
                                /\ x <= ended => askers'[x].phase = "over"
    <3>1. \A x \in 1 .. MaxRuns : /\ x > begun => askers[x].phase = "none"
                                  /\ x <= ended => askers[x].phase = "over"
      BY DEF RunInv
    <3>2. \A x \in 1 .. MaxRuns : x > begun \/ x <= ended => x \in Askers \ {begun}
      BY <1>5 DEF Askers, PromptsTypeOK
    <3> QED
      BY <1>7, <3>1, <3>2
  <2>2. None(asked', "submit") /\ None(posted, "end")
    BY <1>2, <1>4, <1>8, TailKinds DEF RunInv
  <2> QED
    BY <1>1, <1>8, <2>1, <2>2 DEF RunInv, None
<1>11. \A s \in Slots : pending[s] # begun
  BY <1>4, <1>5 DEF SlotInv, Nobody, Askers, Queued
<1>12. SlotInv'
  <2>1. ASSUME NEW s \in Slots, pending[s] # Nobody
        PROVE  LET b == askers'[pending[s]]
               IN  b.phase \in {"registered", "waiting"} /\ SlotOf(b.action) = s
                   /\ b.reply = "none"
    <3>1. pending[s] \in Askers \ {begun}
      BY <1>11, <2>1 DEF PromptsTypeOK
    <3> QED
      BY <1>7, <2>1, <3>1 DEF SlotInv
  <2>2. \A x \in Askers : askers'[x].phase \in {"none", "idle", "over"} => askers'[x].reply = "none"
    BY <1>6, <1>7 DEF SlotInv
  <2>3. askers'[Subagent] = askers[Subagent]
    BY <1>5, <1>7, PromptTypes
  <2> QED
    BY <1>1, <2>1, <2>2, <2>3 DEF SlotInv
<1>13. CardInv'
  <2>1. None(asked, "permission")
    BY <1>2, TailOrder DEF CardInv
  <2>2. None(asked', "permission")
    BY <1>2, <2>1, TailKinds
  <2>3. NoCard' /\ pending["permission"] = Nobody
    BY <1>1, <1>8, <2>2 DEF CardInv, NoCard
  <2> QED
    BY <1>1, <1>2, <1>6, <1>7, <1>8, <2>3 DEF CardInv
<1>14. ApprovedAsShown'
  BY <1>1, <1>6, <1>7 DEF ApprovedAsShown, Accepted, RequestOf
<1> QED
  BY <1>9, <1>10, <1>12, <1>13, <1>14

\* The last run's token fires, and everyone who waits is refused.
LEMMA CancelRunsBase == BaseInv /\ CancelRuns => BaseInv'
<1> SUFFICES ASSUME BaseInv, CancelRuns PROVE BaseInv'
  OBVIOUS
<1> USE DEF BaseInv
<1> DEFINE started == {r \in 1 .. MaxRuns : askers[r].phase # "none"}
<1> DEFINE last(r) == r \in started /\ \A x \in started : x <= r
<1> DEFINE holds(r) == \E s \in Slots : pending[s] = r
<1>1. /\ TakesCommand("cancel")
      /\ askers' = [r \in Askers |->
           [askers[r] EXCEPT !.cancelled = @ \/ last(r),
                             !.reply = IF holds(r) THEN "refused" ELSE @]]
      /\ pending' = [s \in Slots |-> Nobody]
      /\ UNCHANGED <<permissionMode, cards, posted, begun, ended, agreed>>
  BY DEF CancelRuns
<1>2. /\ asked # <<>> /\ asked \in Seq(Command) /\ asked' = Tail(asked)
      /\ asked' \in Seq(Command) /\ Head(asked).kind = "cancel"
      /\ \A i \in 1 .. Len(asked') : \E j \in 1 .. Len(asked) : asked'[i] = asked[j]
      /\ Precedes(asked', "permission", "submit")
  BY <1>1, CommandTaken
<1>3. \A k \in {"submit", "permission"} :
        (None(asked', k) <=> None(asked, k)) /\ (Once(asked, k) => Once(asked', k))
  BY <1>2, TailKinds
<1>4. ASSUME NEW r \in Askers
      PROVE  /\ askers'[r] \in AskerType
             /\ askers'[r].phase = askers[r].phase /\ askers'[r].action = askers[r].action
             /\ askers'[r].calls = askers[r].calls
             /\ askers'[r].cancelled = (askers[r].cancelled \/ last(r))
             /\ askers'[r].reply = IF holds(r) THEN "refused" ELSE askers[r].reply
  <2> DEFINE b == askers[r]
  <2> DEFINE c == b.cancelled \/ last(r)
  <2> DEFINE p == IF holds(r) THEN "refused" ELSE b.reply
  <2>1. b \in AskerType /\ b.reply \in Answers \cup {"none", "dropped"}
    BY PromptTypes DEF AskerType
  <2>2. c \in BOOLEAN /\ p \in Answers \cup {"none", "dropped"}
    BY <2>1 DEF AskerType, Answers
  <2>3. askers'[r] = [b EXCEPT !.cancelled = c, !.reply = p]
    BY <1>1
  <2> HIDE DEF b, c, p
  <2>4. /\ askers'[r] \in AskerType
        /\ askers'[r].phase = b.phase /\ askers'[r].action = b.action
        /\ askers'[r].calls = b.calls
        /\ askers'[r].cancelled = c /\ askers'[r].reply = p
    BY <2>1, <2>2, <2>3 DEF AskerType
  <2> QED
    BY <2>4 DEF b, c, p
<1> HIDE DEF started, last, holds
<1>5. PromptsTypeOK'
  BY <1>1, <1>2, <1>4 DEF PromptsTypeOK
<1>6. \A x \in 1 .. MaxRuns : x \in Askers
  BY DEF Askers
<1>7. (Active' <=> Active) /\ (Queued' <=> Queued) /\ (Ending' <=> Ending)
  <2>1. begun > ended => askers'[begun].phase = askers[begun].phase
    BY <1>4, LastRun
  <2> QED
    BY <1>1, <2>1 DEF Active, Queued, Ending
<1>8. RunInv'
  <2>1. \A x \in 1 .. MaxRuns : /\ x > begun => askers'[x].phase = "none"
                                /\ x <= ended => askers'[x].phase = "over"
    BY <1>4, <1>6 DEF RunInv
  <2>2. /\ IF Queued THEN Once(asked', "submit") ELSE None(asked', "submit")
        /\ IF Ending THEN Once(posted, "end") ELSE None(posted, "end")
        /\ begun <= ended + 1
    BY <1>3 DEF RunInv
  <2>3. \A i \in 1 .. Len(asked') : asked'[i].kind = "submit" => asked'[i].arg = begun
    BY <1>2 DEF RunInv
  <2>4. UNCHANGED <<posted, begun, ended>>
    BY <1>1
  <2>5. /\ IF Queued' THEN Once(asked', "submit") ELSE None(asked', "submit")
        /\ IF Ending' THEN Once(posted', "end") ELSE None(posted', "end")
    BY <1>7, <2>2, <2>4
  <2> QED
    BY <2>1, <2>2, <2>3, <2>4, <2>5 DEF RunInv
<1>9. SlotInv'
  <2>1. \A x \in Askers : askers[x].phase \in {"none", "idle", "over"} => ~holds(x)
    BY DEF SlotInv, Nobody, Askers, holds
  <2>2. \A x \in Askers :
          /\ askers'[x].phase = askers[x].phase /\ askers'[x].action = askers[x].action
          /\ askers[x].phase \in {"none", "idle", "over"} => askers'[x].reply = askers[x].reply
    BY <1>4, <2>1
  <2>3. \A s \in Slots : pending'[s] = Nobody
    BY <1>1
  <2> QED
    BY <2>2, <2>3, PromptTypes DEF SlotInv
<1>10. ApprovedAsShown'
  <2> SUFFICES ASSUME NEW x \in Askers, askers'[x].action # "question", Accepted(x)'
               PROVE  RequestOf(x)' \in agreed
    BY <1>1 DEF ApprovedAsShown
  <2>1. askers'[x].action = askers[x].action /\ askers'[x].calls = askers[x].calls
        /\ askers'[x].reply \in {"refused", askers[x].reply}
    BY <1>4
  <2>2. Accepted(x) /\ RequestOf(x)' = RequestOf(x)
    BY <2>1 DEF Accepted, RequestOf
  <2> QED
    BY <2>1, <2>2 DEF ApprovedAsShown
<1>11. Active => askers'[begun].cancelled
  <2> SUFFICES ASSUME Active PROVE askers'[begun].cancelled
    OBVIOUS
  <2>1. begun \in started /\ begun \in Askers
    BY LastRun DEF Active, started
  <2>2. \A x \in started : x <= begun
    BY DEF RunInv, PromptsTypeOK, started
  <2> QED
    BY <1>4, <2>1, <2>2 DEF last
<1>12. CardInv'
  <2>1. pending'["permission"] = Nobody
    BY <1>1, PromptTypes
  <2> QED
    BY <1>1, <1>2, <1>7, <1>11, <2>1 DEF CardInv
<1> QED
  BY <1>5, <1>8, <1>9, <1>10, <1>12

LEMMA ReceivePostedBase == BaseInv /\ ReceivePosted => BaseInv'
<1> SUFFICES ASSUME BaseInv, ReceivePosted PROVE BaseInv'
  OBVIOUS
<1> USE DEF BaseInv
<1> DEFINE e == Head(posted)
<1>1. /\ posted # <<>> /\ posted' = Tail(posted)
      /\ cards' = IF e.kind = "end" THEN [cards EXCEPT !.permission = NoRequest]
                  ELSE [cards EXCEPT ![e.kind] = e.request]
      /\ ended' = IF e.kind = "end" THEN ended + 1 ELSE ended
      /\ UNCHANGED <<permissionMode, askers, pending, asked, begun, agreed>>
  BY DEF ReceivePosted
<1>2. posted \in Seq(Notice) /\ asked \in Seq(Command)
  BY PromptTypes
<1>3. /\ e \in Notice /\ posted' \in Seq(Notice) /\ e = posted[1]
      /\ Len(posted) \in Nat \ {0}
      /\ \A i \in 1 .. Len(posted') : posted'[i] = posted[i + 1] /\ i + 1 \in 1 .. Len(posted)
  BY <1>1, <1>2, TailFacts
<1>4. \A k : /\ None(posted, k) => None(posted', k)
             /\ Once(posted, k) /\ e.kind = k => None(posted', k)
             /\ Once(posted, k) /\ e.kind # k => Once(posted', k)
             /\ e.kind = k => ~None(posted, k)
  BY <1>1, <1>2, TailKinds
<1>5. /\ Precedes(posted', "permission", "end")
      /\ e.kind = "end" => None(posted, "permission")
  BY <1>1, <1>2, TailOrder DEF CardInv
<1>6. e.kind \in Slots \cup {"end"} /\ e.request \in Requests
  BY <1>3 DEF Notice
<1>7. NoRequest \in Requests
  BY DEF NoRequest, Nobody, Requests
<1>8. SlotInv' /\ ApprovedAsShown'
  BY <1>1 DEF SlotInv, ApprovedAsShown, Accepted, RequestOf
<1>9. CASE e.kind = "end"
  <2>1. Ending /\ Once(posted, "end") /\ None(posted', "end")
    BY <1>4, <1>9 DEF RunInv
  <2>2. ended' = ended + 1 /\ begun = ended + 1 /\ ended \in Nat /\ begun \in Nat
    BY <1>1, <1>9, <2>1 DEF RunInv, Ending, PromptsTypeOK
  <2>3. /\ cards' \in [Slots -> Requests] /\ cards'["permission"] = NoRequest
    BY <1>1, <1>7, <1>9 DEF PromptsTypeOK, Slots
  <2>4. PromptsTypeOK'
    <3>1. posted' \in Seq(Notice) /\ ended' \in 0 .. begun /\ begun' = begun
      BY <1>1, <1>3, <2>2
    <3> QED
      BY <1>1, <2>3, <3>1 DEF PromptsTypeOK
  <2>5. ~Active' /\ ~Queued' /\ ~Ending'
    BY <1>1, <2>2 DEF Active, Queued, Ending
  <2>6. RunInv'
    <3>1. \A x \in 1 .. MaxRuns : x <= ended + 1 => askers[x].phase = "over"
      BY <2>1, <2>2 DEF RunInv, Ending
    <3>2. ~Queued /\ None(asked, "submit")
      BY <2>1 DEF RunInv, Ending, Queued
    <3> QED
      BY <1>1, <2>1, <2>2, <2>5, <3>1, <3>2 DEF RunInv
  <2>7. CardInv'
    <3>1. ~Active /\ pending["permission"] = Nobody
      BY <2>1 DEF CardInv, Active, Ending
    <3> QED
      BY <1>1, <1>4, <1>5, <1>9, <2>3, <2>5, <3>1 DEF CardInv
  <2> QED
    BY <1>8, <2>4, <2>6, <2>7
<1>10. CASE e.kind # "end"
  <2>1. /\ cards' \in [Slots -> Requests] /\ cards'[e.kind] = e.request
        /\ \A s \in Slots \ {e.kind} : cards'[s] = cards[s]
        /\ ended' = ended /\ e.kind \in Slots
    BY <1>1, <1>6, <1>10 DEF PromptsTypeOK
  <2>2. PromptsTypeOK'
    BY <1>1, <1>3, <2>1 DEF PromptsTypeOK
  <2>3. (Active' <=> Active) /\ (Queued' <=> Queued) /\ (Ending' <=> Ending)
    BY <1>1, <2>1 DEF Active, Queued, Ending
  <2>4. RunInv'
    BY <1>1, <1>4, <1>10, <2>1, <2>3 DEF RunInv
  <2>5. CASE e.kind = "permission"
    <3>1. ~None(posted, "permission")
      BY <1>4, <2>5
    <3>2. ASSUME OneCard(RequestOf(begun)) PROVE OneCard(RequestOf(begun))'
      <4>1. Once(posted, "permission") /\ None(asked, "permission")
        BY <3>1, <3>2 DEF OneCard
      <4>2. e.request = RequestOf(begun)
        BY <1>3, <2>5, <3>2 DEF OneCard
      <4>3. None(posted', "permission") /\ cards'["permission"] = RequestOf(begun)
        BY <1>4, <2>1, <2>5, <4>1, <4>2
      <4>4. \A i \in 1 .. Len(posted') :
              posted'[i].kind = "permission" => posted'[i].request = RequestOf(begun)
        BY <1>3, <3>2 DEF OneCard
      <4> QED
        BY <1>1, <3>2, <4>1, <4>3, <4>4 DEF OneCard, RequestOf
    <3>3. ~NoCard
      BY <3>1 DEF NoCard
    <3>4. CardInv'
      BY <1>1, <1>5, <2>3, <3>1, <3>2, <3>3 DEF CardInv
    <3> QED
      BY <1>8, <2>2, <2>4, <3>4
  <2>6. CASE e.kind # "permission"
    <3>1. cards'["permission"] = cards["permission"]
      BY <2>1, <2>6, PromptTypes
    <3>2. ASSUME OneCard(RequestOf(begun)) PROVE OneCard(RequestOf(begun))'
      <4>1. \A i \in 1 .. Len(posted') :
              posted'[i].kind = "permission" => posted'[i].request = RequestOf(begun)
        BY <1>3, <3>2 DEF OneCard
      <4> QED
        BY <1>1, <1>4, <2>6, <3>1, <3>2, <4>1 DEF OneCard, RequestOf
    <3>3. NoCard => NoCard'
      BY <1>1, <1>4, <3>1 DEF NoCard
    <3>4. CardInv'
      BY <1>1, <1>4, <1>5, <2>3, <3>1, <3>2, <3>3 DEF CardInv
    <3> QED
      BY <1>8, <2>2, <2>4, <3>4
  <2> QED
    BY <2>5, <2>6
<1> QED
  BY <1>9, <1>10

\* The answer sent is about the card that was on the screen.
LEMMA AnswerCardBase ==
  ASSUME BaseInv, NEW slot \in Slots, AnswerCard(slot) PROVE BaseInv'
<1> USE DEF BaseInv
<1>1. PICK ans \in Answers :
        /\ Waits([kind |-> slot, arg |-> ans])
        /\ agreed' = IF ans = "refused" THEN agreed ELSE agreed \cup {cards[slot]}
  BY DEF AnswerCard, Answers
<1> DEFINE c == [kind |-> slot, arg |-> ans]
<1>2. /\ cards[slot] # NoRequest /\ cards' = [cards EXCEPT ![slot] = NoRequest]
      /\ asked' = Append(asked, c)
      /\ agreed \subseteq agreed'
      /\ UNCHANGED <<permissionMode, askers, pending, posted, begun, ended>>
  BY <1>1 DEF AnswerCard, Waits
<1>3. /\ c \in Command /\ c.kind = slot /\ c.arg = ans /\ c.kind # "submit"
      /\ asked \in Seq(Command) /\ posted \in Seq(Notice)
  BY PromptTypes DEF Command, Slots
<1> HIDE DEF c
<1>4. /\ asked' \in Seq(Command) /\ Len(asked) \in Nat /\ Len(asked') = Len(asked) + 1
      /\ \A i \in 1 .. Len(asked) : asked'[i] = asked[i]
      /\ asked'[Len(asked) + 1] = c
  BY <1>2, <1>3, AppendFacts
<1>5. /\ None(asked, "submit") => None(asked', "submit")
      /\ Once(asked, "submit") => Once(asked', "submit")
  BY <1>2, <1>3, AppendKinds
<1>6. /\ cards' \in [Slots -> Requests] /\ cards'[slot] = NoRequest
      /\ \A s \in Slots \ {slot} : cards'[s] = cards[s]
  BY <1>2 DEF PromptsTypeOK, NoRequest, Nobody, Requests
<1>7. PromptsTypeOK'
  <2>1. agreed' \subseteq Requests
    BY <1>1 DEF PromptsTypeOK
  <2> QED
    BY <1>2, <1>4, <1>6, <2>1 DEF PromptsTypeOK
<1>8. SlotInv' /\ ApprovedAsShown'
  BY <1>2 DEF SlotInv, ApprovedAsShown, Accepted, RequestOf
<1>9. (Active' <=> Active) /\ (Queued' <=> Queued) /\ (Ending' <=> Ending)
  BY <1>2 DEF Active, Queued, Ending
<1>10. RunInv'
  <2>1. \A i \in 1 .. Len(asked') : asked'[i].kind = "submit" => asked'[i].arg = begun
    BY <1>3, <1>4 DEF RunInv
  <2> QED
    BY <1>2, <1>5, <1>9, <2>1 DEF RunInv
<1>11. CASE slot = "permission"
  <2>1. Active \/ Ending
    BY <1>2, <1>11 DEF CardInv
  <2>2. None(asked, "submit")
    BY <2>1 DEF RunInv, Active, Ending, Queued
  <2>3. Precedes(asked', "permission", "submit")
    BY <1>2, <1>3, <2>2, AppendOrder DEF CardInv
  <2>4. ~NoCard
    BY <1>2, <1>11 DEF NoCard
  <2>5. ASSUME OneCard(RequestOf(begun)) PROVE OneCard(RequestOf(begun))'
    <3>1. /\ None(posted, "permission") /\ cards[slot] = RequestOf(begun)
          /\ None(asked, "permission")
      BY <1>2, <1>11, <2>5 DEF OneCard
    <3>2. Once(asked', "permission")
      BY <1>2, <1>3, <1>11, <3>1, AppendKinds
    <3>3. \A i \in 1 .. Len(asked') :
            asked'[i].kind = "permission" /\ asked'[i].arg # "refused" =>
              RequestOf(begun) \in agreed'
      BY <1>1, <1>3, <1>4, <3>1 DEF None
    <3> QED
      BY <1>2, <1>6, <1>11, <2>5, <3>1, <3>2, <3>3 DEF OneCard, RequestOf
  <2>6. CardInv'
    BY <1>2, <1>6, <1>9, <1>11, <2>1, <2>3, <2>4, <2>5 DEF CardInv
  <2> QED
    BY <1>7, <1>8, <1>10, <2>6
<1>12. CASE slot # "permission"
  <2>1. cards'["permission"] = cards["permission"]
    BY <1>6, <1>12, PromptTypes
  <2>2. /\ None(asked, "permission") => None(asked', "permission")
        /\ Once(asked, "permission") => Once(asked', "permission")
        /\ Precedes(asked', "permission", "submit")
    BY <1>2, <1>3, <1>12, AppendKinds, AppendOrder DEF CardInv
  <2>3. ASSUME OneCard(RequestOf(begun)) PROVE OneCard(RequestOf(begun))'
    <3>1. \A i \in 1 .. Len(asked') :
            asked'[i].kind = "permission" /\ asked'[i].arg # "refused" =>
              RequestOf(begun) \in agreed'
      BY <1>2, <1>3, <1>4, <1>12, <2>3 DEF OneCard
    <3> QED
      BY <1>2, <2>1, <2>2, <2>3, <3>1 DEF OneCard, RequestOf
  <2>4. NoCard => NoCard'
    BY <1>2, <2>1, <2>2 DEF NoCard
  <2>5. CardInv'
    BY <1>2, <1>9, <2>1, <2>2, <2>3, <2>4 DEF CardInv
  <2> QED
    BY <1>7, <1>8, <1>10, <2>5
<1> QED
  BY <1>11, <1>12

\* The answer goes to whoever the slot holds.
LEMMA PermissionResponseBase ==
  ASSUME BaseInv, NEW slot \in Slots, PermissionResponse(slot) PROVE BaseInv'
<1> USE DEF BaseInv
<1> DEFINE ans == Head(asked).arg
<1> DEFINE h == pending[slot]
<1>1. /\ TakesCommand(slot)
      /\ askers' = [r \in Askers |->
           IF r = h THEN [askers[r] EXCEPT !.reply = ans] ELSE askers[r]]
      /\ pending' = [pending EXCEPT ![slot] = Nobody]
      /\ UNCHANGED <<permissionMode, cards, posted, begun, ended, agreed>>
  BY DEF PermissionResponse
<1>2. /\ asked # <<>> /\ asked \in Seq(Command) /\ asked' = Tail(asked)
      /\ asked' \in Seq(Command) /\ Head(asked) \in Command /\ Head(asked).kind = slot
      /\ \E j \in 1 .. Len(asked) : Head(asked) = asked[j]
      /\ \A i \in 1 .. Len(asked') : \E j \in 1 .. Len(asked) : asked'[i] = asked[j]
      /\ Precedes(asked', "permission", "submit")
  BY <1>1, CommandTaken
<1>3. ans \in Answers /\ slot # "submit"
  BY <1>2, CommandArgs DEF Slots
<1>4. /\ None(asked, "submit") => None(asked', "submit")
      /\ Once(asked, "submit") => Once(asked', "submit")
  BY <1>2, <1>3, TailKinds
<1>5. \A x \in Askers :
        /\ askers'[x] \in AskerType
        /\ askers'[x].phase = askers[x].phase /\ askers'[x].action = askers[x].action
        /\ askers'[x].calls = askers[x].calls
        /\ askers'[x].cancelled = askers[x].cancelled
        /\ askers'[x].reply = IF x = h THEN ans ELSE askers[x].reply
  BY <1>1, <1>3, PromptTypes DEF AskerType
<1>6. /\ pending' \in [Slots -> Askers \cup {Nobody}] /\ pending'[slot] = Nobody
      /\ \A s \in Slots \ {slot} : pending'[s] = pending[s]
  BY <1>1 DEF PromptsTypeOK
<1>7. /\ UNCHANGED <<permissionMode, cards, posted, begun, ended, agreed>>
      /\ askers' \in [Askers -> AskerType]
  BY <1>1, <1>5
<1>8. h # Nobody => /\ h \in Askers /\ askers[h].phase \in {"registered", "waiting"}
                    /\ SlotOf(askers[h].action) = slot
  BY DEF SlotInv, PromptsTypeOK
<1> HIDE DEF ans, h
<1>9. PromptsTypeOK'
  BY <1>2, <1>6, <1>7 DEF PromptsTypeOK
<1>10. SlotInv'
  <2>1. ASSUME NEW s \in Slots, pending'[s] # Nobody
        PROVE  LET b == askers'[pending'[s]]
               IN  b.phase \in {"registered", "waiting"} /\ SlotOf(b.action) = s
                   /\ b.reply = "none"
    <3>1. s # slot /\ pending'[s] = pending[s] /\ pending[s] \in Askers /\ pending[s] # Nobody
      BY <1>6, <2>1 DEF PromptsTypeOK
    <3>2. SlotOf(askers[pending[s]].action) = s /\ askers[pending[s]].reply = "none"
          /\ askers[pending[s]].phase \in {"registered", "waiting"}
      BY <3>1 DEF SlotInv
    <3>3. pending[s] # h
      BY <1>8, <3>1, <3>2
    <3> QED
      BY <1>5, <3>1, <3>2, <3>3
  <2>2. \A x \in Askers : askers'[x].phase \in {"none", "idle", "over"} => askers'[x].reply = "none"
    <3>1. \A x \in Askers : x = h => h # Nobody
      BY PromptTypes
    <3> QED
      BY <1>5, <1>8, <3>1 DEF SlotInv
  <2> QED
    BY <1>5, <2>1, <2>2, PromptTypes DEF SlotInv
<1>11. (Active' <=> Active) /\ (Queued' <=> Queued) /\ (Ending' <=> Ending)
  BY <1>5, <1>7, LastRun DEF Active, Queued, Ending
<1>12. RunInv'
  <2>1. \A x \in 1 .. MaxRuns : x \in Askers
    BY DEF Askers
  <2>2. \A x \in 1 .. MaxRuns : /\ x > begun => askers'[x].phase = "none"
                                /\ x <= ended => askers'[x].phase = "over"
    BY <1>5, <2>1 DEF RunInv
  <2>3. \A i \in 1 .. Len(asked') : asked'[i].kind = "submit" => asked'[i].arg = begun
    BY <1>2 DEF RunInv
  <2>4. UNCHANGED <<posted, begun, ended>>
    BY <1>7
  <2> QED
    BY <1>4, <1>11, <2>2, <2>3, <2>4 DEF RunInv
<1>13. \A x \in Askers : RequestOf(x)' = RequestOf(x)
  BY <1>5 DEF RequestOf
<1>14. CASE slot = "permission"
  <2>1. ~None(asked, "permission")
    BY <1>2, <1>14, TailKinds
  <2>2. ~NoCard
    BY <2>1 DEF NoCard
  <2>3. ASSUME OneCard(RequestOf(begun)) PROVE /\ NoCard'
                                               /\ ans # "refused" => RequestOf(begun) \in agreed
    <3>1. None(posted, "permission") /\ cards["permission"] = NoRequest
          /\ Once(asked, "permission")
      BY <2>1, <2>3 DEF OneCard
    <3>2. None(asked', "permission")
      BY <1>2, <1>14, <3>1, TailKinds
    <3>3. ans # "refused" => RequestOf(begun) \in agreed
      BY <1>2, <1>14, <2>3 DEF OneCard, ans
    <3> QED
      BY <1>7, <3>1, <3>2, <3>3 DEF NoCard
  <2>4. Active /\ ~askers[begun].cancelled =>
          /\ h = begun /\ askers[begun].phase = "waiting" /\ OneCard(RequestOf(begun))
    BY <1>14, <2>2 DEF CardInv, h
  <2>5. h # Nobody => Active /\ h = begun /\ ~askers[begun].cancelled
    BY <1>14 DEF CardInv, h
  <2>6. ApprovedAsShown'
    <3> SUFFICES ASSUME NEW x \in Askers, askers'[x].action # "question", Accepted(x)'
                 PROVE  RequestOf(x) \in agreed
      BY <1>7, <1>13 DEF ApprovedAsShown
    <3>1. CASE x = h
      <4>1. ans # "refused"
        BY <1>5, <3>1 DEF Accepted
      <4>2. x = begun
        BY <2>5, <3>1, PromptTypes
      <4> QED
        BY <2>3, <2>4, <2>5, <3>1, <4>1, <4>2, PromptTypes
    <3>2. CASE x # h
      BY <1>5, <3>2 DEF ApprovedAsShown, Accepted
    <3> QED
      BY <3>1, <3>2
  <2>7. CardInv'
    <3>1. pending'["permission"] = Nobody
      BY <1>6, <1>14
    <3>2. Active => /\ askers'[begun].cancelled = askers[begun].cancelled
                    /\ askers'[begun].phase = askers[begun].phase
      BY <1>5, LastRun DEF Active
    <3>3. Active /\ ~askers[begun].cancelled => NoCard' /\ askers[begun].phase = "waiting"
      BY <2>3, <2>4
    <3> QED
      BY <1>2, <1>7, <1>11, <3>1, <3>2, <3>3 DEF CardInv
  <2> QED
    BY <1>9, <1>10, <1>12, <2>6, <2>7
<1>15. CASE slot # "permission"
  <2>1. slot = "guided" /\ pending'["permission"] = pending["permission"]
    BY <1>6, <1>15, PromptTypes DEF Slots
  <2>2. /\ None(asked, "permission") => None(asked', "permission")
        /\ Once(asked, "permission") => Once(asked', "permission")
    BY <1>2, <1>15, TailKinds
  <2>3. ApprovedAsShown'
    <3> SUFFICES ASSUME NEW x \in Askers, askers'[x].action # "question", Accepted(x)'
                 PROVE  RequestOf(x) \in agreed
      BY <1>7, <1>13 DEF ApprovedAsShown
    <3>1. x # h
      BY <1>5, <1>8, <2>1, PromptTypes DEF SlotOf
    <3> QED
      BY <1>5, <3>1 DEF ApprovedAsShown, Accepted
  <2>4. Active => /\ askers'[begun].cancelled = askers[begun].cancelled
                  /\ askers'[begun].phase = askers[begun].phase
                  /\ askers'[begun].action = askers[begun].action
                  /\ RequestOf(begun)' = RequestOf(begun)
    BY <1>5, <1>7, LastRun DEF Active, RequestOf
  <2>5. ASSUME Active, OneCard(RequestOf(begun)) PROVE OneCard(RequestOf(begun))'
    <3>1. \A i \in 1 .. Len(asked') :
            asked'[i].kind = "permission" /\ asked'[i].arg # "refused" =>
              RequestOf(begun) \in agreed'
      BY <1>2, <1>7, <2>5 DEF OneCard
    <3> QED
      BY <1>7, <2>2, <2>4, <2>5, <3>1 DEF OneCard
  <2>6. NoCard => NoCard'
    BY <1>7, <2>2 DEF NoCard
  <2>7. CardInv'
    BY <1>2, <1>7, <1>11, <2>1, <2>2, <2>4, <2>5, <2>6 DEF CardInv
  <2> QED
    BY <1>9, <1>10, <1>12, <2>3, <2>7
<1> QED
  BY <1>14, <1>15

LEMMA InitBase == PromptsInit => BaseInv
<1> SUFFICES ASSUME PromptsInit PROVE BaseInv
  OBVIOUS
<1>1. /\ askers \in [Askers -> AskerType]
      /\ \A r \in 1 .. MaxRuns : askers[r].phase = "none"
      /\ \A r \in Askers : askers[r].reply = "none"
      /\ askers[Subagent].phase = IF SubagentAsks THEN "idle" ELSE "none"
  <2> DEFINE first(r) == IF SubagentAsks /\ r = Subagent THEN "idle" ELSE "none"
  <2>1. askers = [r \in Askers |-> Asker("auto", first(r))]
    BY DEF PromptsInit
  <2>2. \A r : first(r) \in {"idle", "none"}
    OBVIOUS
  <2>3. first(Subagent) = IF SubagentAsks THEN "idle" ELSE "none"
    OBVIOUS
  <2>4. 1 .. MaxRuns \subseteq Askers /\ Subagent \in Askers /\ Subagent \notin 1 .. MaxRuns
    BY PromptsAssumption DEF Askers, Subagent
  <2>5. \A r \in 1 .. MaxRuns : first(r) = "none"
    BY <2>4
  <2> HIDE DEF first
  <2>6. \A p \in {"idle", "none"} :
          /\ Asker("auto", p) \in AskerType
          /\ Asker("auto", p).phase = p /\ Asker("auto", p).reply = "none"
    BY DEF Asker, AskerType, Phases, Modes, ToolActions
  <2> QED
    BY <2>1, <2>2, <2>3, <2>4, <2>5, <2>6
<1>2. /\ asked = <<>> /\ posted = <<>> /\ begun = 0 /\ ended = 0 /\ agreed = {}
      /\ permissionMode \in Modes
      /\ pending = [s \in Slots |-> Nobody] /\ cards = [s \in Slots |-> NoRequest]
  BY DEF PromptsInit, Modes
<1>3. PromptsTypeOK
  BY <1>1, <1>2 DEF PromptsTypeOK, Requests, NoRequest, Nobody
<1>4. SlotInv
  BY <1>1, <1>2 DEF SlotInv
<1>5. ~Active /\ ~Queued /\ ~Ending
  BY <1>2 DEF Active, Queued, Ending
<1>6. RunInv
  BY <1>1, <1>2, <1>5 DEF RunInv, None
<1>7. CardInv
  <2>1. pending["permission"] = Nobody /\ cards["permission"] = NoRequest
    BY <1>2 DEF Slots
  <2>2. None(posted, "permission") /\ Precedes(posted, "permission", "end")
        /\ Precedes(asked, "permission", "submit")
    BY <1>2 DEF None, Precedes
  <2> QED
    BY <1>5, <2>1, <2>2 DEF CardInv
<1>8. ApprovedAsShown
  BY <1>1 DEF ApprovedAsShown, Accepted
<1> QED
  BY <1>3, <1>4, <1>6, <1>7, <1>8 DEF BaseInv

LEMMA NextBase == ~Together /\ BaseInv /\ [PromptsNext]_promptsVars => BaseInv'
<1> SUFFICES ASSUME ~Together, BaseInv, [PromptsNext]_promptsVars PROVE BaseInv'
  OBVIOUS
<1>1. ASSUME NEW r \in Askers,
             Decided(r) \/ Register(r) \/ ShowCard(r) \/ Resolved(r) \/ RunReturns(r)
      PROVE  BaseInv'
  BY <1>1, DecidedBase, RegisterBase, ShowCardBase, ResolvedBase, RunReturnsBase
<1>2. CASE TypeRun \/ PressInterrupt \/ ChooseMode \/ ReceivePosted
  BY <1>2, TypeRunBase, PressInterruptBase, ChooseModeBase, ReceivePostedBase
<1>3. CASE BeginWaiting \/ SetPermissionMode \/ CancelRuns
  BY <1>3, BeginWaitingBase, SetPermissionModeBase, CancelRunsBase
<1>4. ASSUME NEW s \in Slots, AnswerCard(s) \/ PermissionResponse(s) PROVE BaseInv'
  BY <1>4, AnswerCardBase, PermissionResponseBase
<1>5. CASE UNCHANGED promptsVars
  <2>1. asked' = asked /\ permissionMode' = permissionMode
        /\ UNCHANGED <<askers, pending, cards, posted, begun, ended, agreed>>
    BY <1>5 DEF promptsVars
  <2>2. asked \in Seq(Command) /\ permissionMode \in Modes
        /\ Precedes(asked, "permission", "submit")
    BY DEF BaseInv, PromptsTypeOK, CardInv
  <2> QED
    BY <2>1, <2>2, OtherCommands
<1> QED
  BY <1>1, <1>2, <1>3, <1>4, <1>5 DEF PromptsNext

-----------------------------------------------------------------------------
(* Decisions                                                               *)

\* Without a subagent that asks, only the active run waits for a decision.
LEMMA DecisionAsker ==
  ASSUME BaseInv, ~SubagentAsks, pending["guided"] # Nobody
  PROVE  /\ Active /\ pending["guided"] = begun
         /\ askers[begun].phase \in {"registered", "waiting"}
         /\ askers[begun].action = "question"
<1> DEFINE h == pending["guided"]
<1>1. /\ h \in Askers /\ askers[h].phase \in {"registered", "waiting"}
      /\ SlotOf(askers[h].action) = "guided"
  BY PromptTypes DEF BaseInv, SlotInv, PromptsTypeOK
<1>2. h # Subagent
  BY <1>1 DEF BaseInv, SlotInv
<1> QED
  BY <1>1, <1>2, WhoActs DEF BaseInv, SlotOf

LEMMA NoDecision ==
  ASSUME pending'["guided"] = Nobody \/ askers'[pending'["guided"]].phase # "waiting"
  PROVE  DecisionInv'
BY DEF DecisionInv

\* The asker and its card stay as they are, and no answer goes away.
LEMMA DecisionKept ==
  ASSUME DecisionInv, UNCHANGED <<pending, posted>>, cards'["guided"] = cards["guided"],
         pending["guided"] # Nobody =>
           /\ askers'[pending["guided"]].phase = askers[pending["guided"]].phase
           /\ RequestOf(pending["guided"])' = RequestOf(pending["guided"]),
         ~None(asked, "guided") => ~None(asked', "guided")
  PROVE  DecisionInv'
<1> SUFFICES ASSUME pending["guided"] # Nobody,
                    askers[pending["guided"]].phase = "waiting"
             PROVE  DecisionInv'
  BY DEF DecisionInv
<1>1. RequestOf(pending["guided"])' = RequestOf(pending["guided"])
  OBVIOUS
<1> QED
  BY <1>1 DEF DecisionInv

LEMMA RunStepsDecision ==
  ASSUME BaseInv, ~SubagentAsks, NEW r \in Askers,
         Decided(r) \/ Register(r) \/ Resolved(r) \/ RunReturns(r)
  PROVE  DecisionInv'
<1> USE DEF BaseInv
<1>1. CASE Decided(r) \/ Resolved(r) \/ RunReturns(r)
  <2>1. /\ pending' = pending
        /\ \/ askers[r].phase = "idle"
           \/ askers[r].phase = "waiting" /\ askers[r].reply # "none"
    BY <1>1 DEF Decided, MayCall, Resolved, RunReturns
  <2>2. r = begun
    BY <2>1, WhoActs DEF SlotInv
  <2>3. pending["guided"] # r
    BY <2>1, PromptTypes DEF SlotInv
  <2>4. pending'["guided"] = Nobody
    BY <2>1, <2>2, <2>3, DecisionAsker
  <2> QED
    BY <2>4, NoDecision
<1>2. CASE Register(r)
  <2>1. askers[r].phase = "idle"
    BY <1>2 DEF Register, MayCall
  <2>2. r = begun
    BY <2>1, WhoActs DEF SlotInv
  <2>3. pending["guided"] = Nobody
    <3>1. pending["guided"] # r
      BY <2>1, PromptTypes DEF SlotInv
    <3> QED
      BY <2>2, <3>1, DecisionAsker
  <2>4. PICK act \in ToolActions :
          /\ askers' = [x \in Askers |->
               IF x = r THEN [askers[r] EXCEPT !.phase = "registered", !.action = act]
               ELSE IF x = pending[SlotOf(act)] THEN [askers[x] EXCEPT !.reply = "dropped"]
               ELSE askers[x]]
          /\ pending' = [pending EXCEPT ![SlotOf(act)] = r]
    BY <1>2 DEF Register
  <2>5. pending'["guided"] \in {Nobody, r}
    BY <2>3, <2>4, PromptTypes DEF PromptsTypeOK
  <2>6. askers'[r].phase = "registered"
    BY <2>4, PromptTypes DEF AskerType
  <2> QED
    BY <2>5, <2>6, NoDecision
<1> QED
  BY <1>1, <1>2

LEMMA ShowCardDecision ==
  ASSUME BaseInv, ~SubagentAsks, NEW r \in Askers, ShowCard(r) PROVE DecisionInv'
<1> USE DEF BaseInv
<1> DEFINE e == [kind |-> SlotOf(askers[r].action), request |-> RequestOf(r)]
<1>1. /\ askers[r].phase = "registered" /\ Moves(r, [askers[r] EXCEPT !.phase = "waiting"])
      /\ posted' = Append(posted, e) /\ pending' = pending
  BY DEF ShowCard
<1>2. r = begun
  BY <1>1, WhoActs DEF SlotInv
<1>3. CASE pending["guided"] = Nobody
  BY <1>1, <1>3, NoDecision
<1>4. CASE pending["guided"] # Nobody
  <2>1. pending["guided"] = r /\ askers[r].action = "question"
    BY <1>2, <1>4, DecisionAsker
  <2>2. e \in Notice /\ e.kind = "guided" /\ e.request = RequestOf(r)
    BY <2>1, PromptTypes DEF Notice, SlotOf
  <2>3. RequestOf(r)' = RequestOf(r)
    BY <1>1, PromptTypes DEF Moves, RequestOf, PromptsTypeOK, AskerType
  <2> HIDE DEF e
  <2>4. /\ Len(posted') \in 1 .. Len(posted') /\ posted'[Len(posted')] = e
        /\ \A j \in Len(posted') + 1 .. Len(posted') : posted'[j].kind # "guided"
    BY <1>1, <2>2, PromptTypes, AppendFacts
  <2>5. \E i \in 1 .. Len(posted') :
          /\ posted'[i].kind = "guided" /\ posted'[i].request = RequestOf(r)
          /\ \A j \in i + 1 .. Len(posted') : posted'[j].kind # "guided"
    BY <2>2, <2>4
  <2> QED
    BY <1>1, <2>1, <2>3, <2>5 DEF DecisionInv
<1> QED
  BY <1>3, <1>4

LEMMA ReceivePostedDecision ==
  ASSUME BaseInv, DecisionInv, ReceivePosted PROVE DecisionInv'
<1> USE DEF BaseInv
<1> DEFINE e == Head(posted)
<1> DEFINE h == pending["guided"]
<1>1. /\ posted # <<>> /\ posted' = Tail(posted)
      /\ cards' = IF e.kind = "end" THEN [cards EXCEPT !.permission = NoRequest]
                  ELSE [cards EXCEPT ![e.kind] = e.request]
      /\ UNCHANGED <<askers, pending, asked>>
  BY DEF ReceivePosted
<1>2. posted \in Seq(Notice) /\ cards \in [Slots -> Requests]
  BY DEF PromptsTypeOK
<1>3. /\ e \in Notice /\ e = posted[1] /\ Len(posted) \in Nat \ {0}
      /\ Len(posted') = Len(posted) - 1
      /\ \A i \in 1 .. Len(posted') : posted'[i] = posted[i + 1]
  BY <1>1, <1>2, TailFacts
<1>4. cards'["guided"] = IF e.kind = "guided" THEN e.request ELSE cards["guided"]
  BY <1>1, <1>2, <1>3, PromptTypes DEF Notice, Slots
<1> SUFFICES ASSUME h # Nobody, askers[h].phase = "waiting" PROVE DecisionInv'
  BY <1>1 DEF DecisionInv
<1> DEFINE q == RequestOf(h)
<1>5. RequestOf(h)' = q
  BY <1>1 DEF RequestOf
<1> HIDE DEF e, h, q
<1>6. ASSUME NEW i \in 1 .. Len(posted), posted[i].kind = "guided", posted[i].request = q,
             \A j \in i + 1 .. Len(posted) : posted[j].kind # "guided"
      PROVE  DecisionInv'
  <2>1. CASE i = 1
    <3>1. cards'["guided"] = q
      BY <1>3, <1>4, <1>6, <2>1
    <3>2. None(posted', "guided")
      BY <1>3, <1>6, <2>1 DEF None
    <3> QED
      BY <1>1, <1>5, <3>1, <3>2 DEF DecisionInv, h
  <2>2. CASE i > 1
    <3>1. i - 1 \in 1 .. Len(posted')
      BY <1>3, <1>6, <2>2
    <3>2. (i - 1) + 1 = i
      BY <1>3
    <3>3. posted'[i - 1] = posted[i]
      BY <1>3, <3>1, <3>2
    <3>4. ASSUME NEW j \in (i - 1) + 1 .. Len(posted') PROVE posted'[j].kind # "guided"
      <4>1. j \in 1 .. Len(posted') /\ j + 1 \in i + 1 .. Len(posted)
        BY <1>3, <1>6, <2>2
      <4>2. posted'[j] = posted[j + 1]
        BY <1>3, <4>1
      <4> QED
        BY <1>6, <4>1, <4>2
    <3> QED
      BY <1>1, <1>5, <1>6, <3>1, <3>3, <3>4 DEF DecisionInv, h
  <2> QED
    BY <1>3, <2>1, <2>2
<1>7. CASE None(posted, "guided") /\ (cards["guided"] = q \/ ~None(asked, "guided"))
  <2>1. e.kind # "guided"
    BY <1>3, <1>7 DEF None
  <2>2. None(posted', "guided") /\ cards'["guided"] = cards["guided"]
    BY <1>1, <1>2, <1>4, <1>7, <2>1, TailKinds
  <2> QED
    BY <1>1, <1>5, <1>7, <2>2 DEF DecisionInv, h
<1> QED
  BY <1>6, <1>7 DEF DecisionInv, h, q

LEMMA AnswerCardDecision ==
  ASSUME BaseInv, DecisionInv, NEW slot \in Slots, AnswerCard(slot) PROVE DecisionInv'
<1> USE DEF BaseInv
<1>1. PICK ans \in Answers : Waits([kind |-> slot, arg |-> ans])
  BY DEF AnswerCard, Answers
<1> DEFINE c == [kind |-> slot, arg |-> ans]
<1>2. /\ cards[slot] # NoRequest /\ cards' = [cards EXCEPT ![slot] = NoRequest]
      /\ asked' = Append(asked, c)
      /\ UNCHANGED <<askers, pending, posted>>
  BY <1>1 DEF AnswerCard, Waits
<1>3. c \in Command /\ c.kind = slot /\ asked \in Seq(Command)
  BY PromptTypes DEF Command
<1> HIDE DEF c
<1>4. /\ ~None(asked, "guided") => ~None(asked', "guided")
      /\ slot = "guided" => ~None(asked', "guided")
  BY <1>2, <1>3, AppendKinds
<1>5. RequestOf(pending["guided"])' = RequestOf(pending["guided"])
  BY <1>2 DEF RequestOf
<1>6. slot # "guided" => cards'["guided"] = cards["guided"]
  BY <1>2, PromptTypes DEF PromptsTypeOK
<1> QED
  BY <1>2, <1>4, <1>5, <1>6 DEF DecisionInv

LEMMA LoopDecision ==
  ASSUME BaseInv, DecisionInv, ~SubagentAsks,
         \/ TypeRun \/ PressInterrupt \/ ChooseMode
         \/ BeginWaiting \/ SetPermissionMode \/ CancelRuns
         \/ \E s \in Slots : PermissionResponse(s)
  PROVE  DecisionInv'
<1> USE DEF BaseInv
<1>1. CASE TypeRun \/ PressInterrupt \/ ChooseMode
  <2>1. PICK c : Waits(c) /\ (c.kind \in {"submit", "cancel", "mode"})
    <3>1. CASE TypeRun
      BY <3>1 DEF TypeRun
    <3>2. CASE PressInterrupt
      <4> DEFINE c == [kind |-> "cancel", arg |-> ""]
      <4>1. Waits(c)
        BY <3>2 DEF PressInterrupt
      <4>2. c.kind = "cancel"
        OBVIOUS
      <4> HIDE DEF c
      <4> QED
        BY <4>1, <4>2
    <3>3. CASE ChooseMode
      BY <3>3 DEF ChooseMode
    <3> QED
      BY <1>1, <3>1, <3>2, <3>3
  <2>2. UNCHANGED <<askers, pending, posted, cards>>
    BY <1>1 DEF TypeRun, PressInterrupt, ChooseMode
  <2>3. ~None(asked, "guided") => ~None(asked', "guided")
    <3>1. /\ asked' = Append(asked, c) /\ asked \in Seq(Command)
          /\ Len(asked') = Len(asked) + 1 /\ Len(asked) \in Nat
          /\ \A i \in 1 .. Len(asked) : asked'[i] = asked[i]
      BY <2>1, PromptTypes DEF Waits
    <3> QED
      BY <3>1 DEF None
  <2> QED
    BY <2>2, <2>3, DecisionKept DEF RequestOf
<1>2. CASE SetPermissionMode
  <2>1. TakesCommand("mode") /\ UNCHANGED <<askers, pending, posted, cards>>
    BY <1>2 DEF SetPermissionMode
  <2>2. ~None(asked, "guided") => ~None(asked', "guided")
    BY <2>1, CommandTaken, TailKinds
  <2> QED
    BY <2>1, <2>2, DecisionKept DEF RequestOf
<1>3. CASE BeginWaiting
  <2>1. TakesCommand("submit") /\ pending' = pending
    BY <1>3 DEF BeginWaiting
  <2>2. ~None(asked, "submit")
    BY <2>1, CommandTaken, TailKinds
  <2>3. ~Active
    BY <2>2 DEF RunInv, Active, Queued
  <2> QED
    BY <2>1, <2>3, DecisionAsker, NoDecision
<1>4. CASE CancelRuns
  <2>1. pending'["guided"] = Nobody
    BY <1>4, PromptTypes DEF CancelRuns
  <2> QED
    BY <2>1, NoDecision
<1>5. ASSUME NEW slot \in Slots, PermissionResponse(slot) PROVE DecisionInv'
  <2>1. /\ TakesCommand(slot)
        /\ askers' = [r \in Askers |-> IF r = pending[slot]
                       THEN [askers[r] EXCEPT !.reply = Head(asked).arg] ELSE askers[r]]
        /\ pending' = [pending EXCEPT ![slot] = Nobody]
        /\ UNCHANGED <<cards, posted>>
    BY <1>5 DEF PermissionResponse
  <2>2. CASE slot = "guided"
    <3>1. pending'["guided"] = Nobody
      BY <2>1, <2>2, PromptTypes DEF PromptsTypeOK
    <3> QED
      BY <3>1, NoDecision
  <2>3. CASE slot # "guided" /\ pending["guided"] # Nobody
    <3>1. pending["guided"] \in Askers
      BY <2>3, PromptTypes DEF PromptsTypeOK
    <3>2. pending["guided"] # pending[slot]
      BY <2>3, PromptTypes DEF SlotInv
    <3>3. askers'[pending["guided"]] = askers[pending["guided"]]
      BY <2>1, <3>1, <3>2
    <3>4. pending'["guided"] = pending["guided"]
      BY <2>1, <2>3, PromptTypes DEF PromptsTypeOK
    <3>5. ~None(asked, "guided") => ~None(asked', "guided")
      BY <2>1, <2>3, CommandTaken, TailKinds
    <3>6. RequestOf(pending["guided"])' = RequestOf(pending["guided"])
      BY <3>3, <3>4 DEF RequestOf
    <3> QED
      BY <2>1, <3>3, <3>4, <3>5, <3>6 DEF DecisionInv
  <2>4. CASE slot # "guided" /\ pending["guided"] = Nobody
    <3>1. pending'["guided"] = Nobody
      BY <2>1, <2>4, PromptTypes DEF PromptsTypeOK
    <3> QED
      BY <3>1, NoDecision
  <2> QED
    BY <2>2, <2>3, <2>4
<1> QED
  BY <1>1, <1>2, <1>3, <1>4, <1>5

LEMMA NextDecision ==
  ~SubagentAsks /\ BaseInv /\ DecisionInv /\ [PromptsNext]_promptsVars => DecisionInv'
<1> SUFFICES ASSUME ~SubagentAsks, BaseInv, DecisionInv, [PromptsNext]_promptsVars
             PROVE  DecisionInv'
  OBVIOUS
<1>1. ASSUME NEW r \in Askers,
             Decided(r) \/ Register(r) \/ ShowCard(r) \/ Resolved(r) \/ RunReturns(r)
      PROVE  DecisionInv'
  BY <1>1, RunStepsDecision, ShowCardDecision
<1>2. CASE ReceivePosted
  BY <1>2, ReceivePostedDecision
<1>3. ASSUME NEW s \in Slots, AnswerCard(s) PROVE DecisionInv'
  BY <1>3, AnswerCardDecision
<1>4. CASE UNCHANGED promptsVars
  BY <1>4, DecisionKept DEF promptsVars, RequestOf
<1> QED
  BY <1>1, <1>2, <1>3, <1>4, LoopDecision DEF PromptsNext

-----------------------------------------------------------------------------
(* The theorems                                                            *)

\* As long as runs follow one another, a call that needed the user's permission
\* proceeds only if the user accepted the card that showed this very call.
THEOREM AcceptedAsShown ==
  ASSUME ~Together PROVE PromptsSpec => []ApprovedAsShown
<1>1. BaseInv => ApprovedAsShown
  BY DEF BaseInv
<1>2. BaseInv /\ [PromptsNext]_promptsVars => BaseInv'
  BY NextBase
<1> QED
  BY <1>1, <1>2, InitBase, PTL DEF PromptsSpec

\* If the subagents do not ask either, a run that waits in one of the slots waits
\* for a card the user can see or for an answer that is on its way.
THEOREM SlotsAreSafe ==
  ASSUME ~Together, ~SubagentAsks PROVE PromptsSpec => []PermissionSlotSafe
<1>1. PromptsInit => BaseInv /\ DecisionInv
  <2>1. PromptsInit => DecisionInv
    BY DEF PromptsInit, DecisionInv, Slots
  <2> QED
    BY <2>1, InitBase
<1>2. BaseInv /\ DecisionInv /\ [PromptsNext]_promptsVars => BaseInv' /\ DecisionInv'
  BY NextBase, NextDecision
<1>3. BaseInv /\ DecisionInv => PermissionSlotSafe
  <2> SUFFICES ASSUME BaseInv, DecisionInv PROVE WaiterSeen
    BY DEF PermissionSlotSafe, BaseInv
  <2> SUFFICES ASSUME NEW s \in Slots, NEW r \in Askers, pending[s] = r,
                      askers[r].phase = "waiting"
               PROVE  \/ cards[s] = RequestOf(r)
                      \/ \E i \in 1 .. Len(posted) : posted[i].kind = s
                      \/ \E i \in 1 .. Len(asked) : asked[i].kind \in {s, "cancel"}
    BY DEF WaiterSeen
  <2>1. r # Nobody
    BY PromptTypes DEF BaseInv
  <2>2. CASE s = "permission"
    <3>1. r = begun /\ OneCard(RequestOf(r))
      BY <2>1, <2>2 DEF BaseInv, CardInv
    <3> QED
      BY <2>2, <3>1 DEF OneCard, Once
  <2>3. CASE s = "guided"
    BY <2>1, <2>3 DEF DecisionInv, None
  <2> QED
    BY <2>2, <2>3 DEF Slots
<1> QED
  BY <1>1, <1>2, <1>3, PTL DEF PromptsSpec

=============================================================================
