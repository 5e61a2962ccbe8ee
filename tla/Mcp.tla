--------------------------------- MODULE Mcp ---------------------------------
(***************************************************************************)
(* MCP servers: a link per connection, calls that wait for the response    *)
(* with their id, the reader task of a stdio link, the request and         *)
(* response of an HTTP one, and the command loop, which connects servers   *)
(* itself and handles nothing else until the handshake is over.            *)
(***************************************************************************)
EXTENDS Naturals, Sequences

CONSTANTS
  MaxLinks,   \* connections made in one behaviour
  MaxCalls,   \* requests sent in one behaviour
  Closes,     \* TRUE: a server may exit, or send bytes its reader stops at
  Omits       \* TRUE: a token endpoint may leave the refresh token out of an answer

ASSUME McpAssumption ==
  MaxLinks \in Nat \ {0} /\ MaxCalls \in Nat \ {0} /\ Closes \in BOOLEAN /\ Omits \in BOOLEAN

VARIABLES
  links,       \* connection -> its transport
  mcpCalls,    \* request -> where it stands
  connecting,  \* the connection the command loop is making, 0 for none
  connected,   \* the connection whose tools runs are given, 0 for none
  tokens,      \* the stored OAuth tokens
  grants       \* TRUE once a token endpoint handed out a refresh token

mcpVars == <<links, mcpCalls, connecting, connected, tokens, grants>>

Links == 1 .. MaxLinks
Calls == 1 .. MaxCalls
Link(kind) == [kind |-> kind, process |-> "up", reader |-> "reads", next |-> 1,
               pending |-> {}, sent |-> {}, lines |-> <<>>]
NoLink == [Link("none") EXCEPT !.process = "exited", !.reader = "gone"]
Unsent == [phase |-> "none", link |-> 0, id |-> 0, purpose |-> "", got |-> <<0, 0>>]

-----------------------------------------------------------------------------
(* Requests *)

\* Mutant: the id the client put on the request, always 0, is kept.
KeptId(l) == 0

NextRequestId(l) == links[l].next

\* The sender is registered before the line is written; a write to a process that
\* has gone takes it out again.
SendRequest(l, purpose) ==
  \E c \in Calls :
    /\ mcpCalls[c].phase = "none" /\ \A b \in Calls : b < c => mcpCalls[b].phase # "none"
    /\ LET id == NextRequestId(l)
           request == [Unsent EXCEPT !.link = l, !.id = id, !.purpose = purpose]
       IN  IF links[l].process = "exited"
           THEN /\ mcpCalls' = [mcpCalls EXCEPT ![c] = [request EXCEPT !.phase = "failed"]]
                /\ links' = [links EXCEPT ![l].next = @ + 1]
           ELSE /\ mcpCalls' = [mcpCalls EXCEPT ![c] = [request EXCEPT !.phase = "sent"]]
                /\ links' = [links EXCEPT ![l].next = @ + 1,
                                          ![l].pending = @ \cup {<<id, c>>},
                                          ![l].sent = @ \cup {<<id, c>>}]

CallTool ==
  /\ connected # 0
  /\ SendRequest(connected, "tool")
  /\ UNCHANGED <<connecting, connected, tokens, grants>>

\* Any order; the request answered is kept beside the id to tell answers apart.
ServerAnswers(l) ==
  /\ links[l].process = "up"
  /\ \E r \in links[l].sent :
       links' = [links EXCEPT ![l].sent = @ \ {r}, ![l].lines = Append(@, r)]
  /\ UNCHANGED <<mcpCalls, connecting, connected, tokens, grants>>

\* A line nobody waits for: no JSON, a notification, a request of the server's, or
\* a response to an id that is not pending.
ServerBabbles(l) ==
  /\ links[l].process = "up" /\ links[l].kind = "stdio" /\ links[l].lines = <<>>
  /\ links' = [links EXCEPT ![l].lines = <<<<MaxCalls + 2, 0>>>>]
  /\ UNCHANGED <<mcpCalls, connecting, connected, tokens, grants>>

ServerExits(l) ==
  /\ Closes /\ links[l].process = "up"
  /\ links' = [links EXCEPT ![l].process = "exited", ![l].sent = {}]
  /\ UNCHANGED <<mcpCalls, connecting, connected, tokens, grants>>

Resolve(l, line) ==
  LET waiting == {p \in links[l].pending : p[1] = line[1]}
  IN  /\ mcpCalls' = [c \in Calls |->
           IF \E p \in waiting : p[2] = c
           THEN [mcpCalls[c] EXCEPT !.phase = "done", !.got = line] ELSE mcpCalls[c]]
      /\ links' = [links EXCEPT ![l].pending = @ \ waiting, ![l].lines = Tail(@)]
      /\ UNCHANGED <<connecting, connected, tokens, grants>>

\* The reader task of a stdio link; what an HTTP response carries, line by line.
ReadLine(l) ==
  /\ links[l].reader = "reads" /\ links[l].lines # <<>>
  /\ Resolve(l, Head(links[l].lines))

\* End of output, or bytes that are no text: the task ends, the map is left as it is.
ReaderEnds(l) ==
  /\ links[l].kind = "stdio" /\ links[l].reader = "reads"
  /\ \/ links[l].process = "exited" /\ links[l].lines = <<>>
     \/ Closes
  /\ links' = [links EXCEPT ![l].reader = "gone", ![l].lines = <<>>]
  /\ UNCHANGED <<mcpCalls, connecting, connected, tokens, grants>>

\* Mutant: a body that ends without the response is waited for.
HttpWaits(c) == mcpCalls[c].phase = "sent" /\ UNCHANGED mcpVars

\* An HTTP exchange that ends without the response is an error of its own call.
HttpEnds(c) ==
  LET l == mcpCalls[c].link
  IN  /\ mcpCalls[c].phase = "sent" /\ links[l].kind = "http"
      /\ links[l].process = "exited" /\ links[l].lines = <<>>
      /\ mcpCalls' = [mcpCalls EXCEPT ![c].phase = "failed"]
      /\ links' = [links EXCEPT ![l].pending = {p \in @ : p[2] # c}]
      /\ UNCHANGED <<connecting, connected, tokens, grants>>

-----------------------------------------------------------------------------
(* The command loop: connect, discover, replace the registry *)

Unused(l) == links[l] = NoLink /\ \A k \in Links : k < l => links[k] # NoLink

Opens(kind) ==
  /\ connecting = 0
  /\ \E l \in Links : Unused(l) /\ links' = [links EXCEPT ![l] = Link(kind)] /\ connecting' = l
  /\ UNCHANGED <<mcpCalls, connected>>

ConnectStdio == Opens("stdio") /\ UNCHANGED <<tokens, grants>>

\* The access token is used as stored, or refreshed: the answer replaces what is
\* stored, whether or not it carries a refresh token.
ResolveBearerToken ==
  \/ tokens.access = "valid" /\ UNCHANGED <<tokens, grants>>
  \/ /\ tokens.access = "expired" /\ tokens.refresh
     /\ \E omitted \in {FALSE, Omits} : tokens' = [access |-> "valid", refresh |-> ~omitted]
     /\ UNCHANGED grants

ConnectHttp == Opens("http") /\ ResolveBearerToken

AccessExpires ==
  /\ tokens.access = "valid"
  /\ tokens' = [tokens EXCEPT !.access = "expired"]
  /\ UNCHANGED <<links, mcpCalls, connecting, connected, grants>>

\* The browser came back within the timeout; until then the loop waits.
Authorize ==
  /\ connecting = 0 /\ tokens.access # "valid"
  /\ tokens' = [access |-> "valid", refresh |-> TRUE]
  /\ grants' = TRUE
  /\ UNCHANGED <<links, mcpCalls, connecting, connected>>

Requested(purpose) ==
  {c \in Calls : mcpCalls[c].link = connecting /\ mcpCalls[c].purpose = purpose}
Over(purpose, phase) == \E c \in Requested(purpose) : mcpCalls[c].phase = phase

Handshake ==
  /\ connecting # 0
  /\ \/ Requested("initialize") = {} /\ SendRequest(connecting, "initialize")
     \/ /\ Over("initialize", "done") /\ Requested("tools/list") = {}
        /\ SendRequest(connecting, "tools/list")
  /\ UNCHANGED <<connecting, connected, tokens, grants>>

ConnectReturns ==
  /\ connecting # 0
  /\ \/ Over("tools/list", "done") /\ connected' = connecting
     \/ /\ Over("initialize", "failed") \/ Over("tools/list", "failed")
        /\ UNCHANGED connected
  /\ connecting' = 0
  /\ UNCHANGED <<links, mcpCalls, tokens, grants>>

DisconnectServer ==
  /\ connecting = 0 /\ connected # 0
  /\ connected' = 0
  /\ UNCHANGED <<links, mcpCalls, connecting, tokens, grants>>

-----------------------------------------------------------------------------
McpInit ==
  /\ links = [l \in Links |-> NoLink]
  /\ mcpCalls = [c \in Calls |-> Unsent]
  /\ connecting = 0 /\ connected = 0 /\ grants = FALSE
  /\ tokens = [access |-> "none", refresh |-> FALSE]

McpNext ==
  \/ CallTool \/ ConnectStdio \/ ConnectHttp \/ AccessExpires \/ Authorize \/ Handshake
  \/ ConnectReturns \/ DisconnectServer
  \/ \E l \in Links : ServerAnswers(l) \/ ServerBabbles(l) \/ ServerExits(l)
                      \/ ReadLine(l) \/ ReaderEnds(l)
  \/ \E c \in Calls : HttpEnds(c)

\* A server that stays up answers; tasks and the loop are scheduled.
McpFairness ==
  /\ \A l \in Links : WF_mcpVars(ServerAnswers(l)) /\ WF_mcpVars(ReadLine(l))
                      /\ WF_mcpVars(ReaderEnds(l))
  /\ \A c \in Calls : WF_mcpVars(HttpEnds(c))
  /\ WF_mcpVars(Handshake) /\ WF_mcpVars(ConnectReturns)

McpSpec == McpInit /\ [][McpNext]_mcpVars /\ McpFairness

-----------------------------------------------------------------------------
(* Properties *)

\* OwnAnswer: concurrent calls over one link each get the response to their own
\* request (mcp stdio.rs 92-98, 119-139, http.rs 138-170).
OwnAnswer == \A c \in Calls : mcpCalls[c].phase = "done" => mcpCalls[c].got[2] = c

\* CallsEnd: a call returns, unless its link's reader is gone.
CallsEnd ==
  \A c \in Calls :
    mcpCalls[c].phase = "sent" ~>
      mcpCalls[c].phase # "sent" \/ links[mcpCalls[c].link].reader = "gone"

\* EveryCallEnds: a call returns, if only because the "server closed the connection
\* before responding" (mcp stdio.rs 155-157).
EveryCallEnds == \A c \in Calls : mcpCalls[c].phase = "sent" ~> mcpCalls[c].phase # "sent"

\* LoopReturns: the command loop comes back from a connection attempt.
LoopReturns == connecting # 0 ~> connecting = 0

\* RefreshKept: once authorized, an expired token is refreshed "automatically when
\* a refresh token is available" (mcp manager.rs 86-88) for as long as it is asked.
RefreshKept == grants => tokens.refresh
=============================================================================
