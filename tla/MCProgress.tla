----------------------------- MODULE MCProgress -----------------------------
(***************************************************************************)
(* What waits for something outside: the prompts of a conversation, the    *)
(* callers of an MCP server, the user of a command.  Each is checked on    *)
(* its own in one run: part names the one that takes every step of a       *)
(* behaviour and the others stay as they are.                              *)
(***************************************************************************)
EXTENDS Conversation, Mcp, Process

VARIABLE part

ProgressInit ==
  /\ part \in {"conversation", "mcp", "process"}
  /\ Init
  /\ McpInit
  /\ ProcessInit

ProgressNext ==
  /\ \/ part = "conversation" /\ Next
     \/ part # "conversation" /\ UNCHANGED vars
  /\ \/ part = "mcp" /\ McpNext
     \/ part # "mcp" /\ UNCHANGED mcpVars
  /\ \/ part = "process" /\ ProcessNext
     \/ part # "process" /\ UNCHANGED processVars
  /\ UNCHANGED part

\* A part that never steps has no step to be fair about: each waits for its first one.
ProgressSpec ==
  /\ ProgressInit
  /\ [][ProgressNext]_<<part, vars, mcpVars, processVars>>
  /\ Fairness /\ McpFairness /\ ProcessFairness

-----------------------------------------------------------------------------
(* Properties *)

\* OutsideWaitsEnd: a call to an MCP server returns when the server answers or goes
\* away, unless its link's reader is gone, and a command the agent runs returns
\* whatever it and its descendants do (mcp http.rs 36-47, 151-160; process.rs 227-330).
OutsideWaitsEnd == CallsEnd /\ CommandEnds

=============================================================================
