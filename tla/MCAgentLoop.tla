---------------------------- MODULE MCAgentLoop ----------------------------
(* Tool calls for TLC's runs of AgentLoop.                                 *)
EXTENDS AgentLoop, TLC

\* A call named after its kind.
KindIsName == [c \in Calls |-> c]
=============================================================================
