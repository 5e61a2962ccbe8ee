---------------------------- MODULE MCSubagents ----------------------------
(* Model values and requests for TLC's runs of Subagents.                  *)
EXTENDS Subagents, TLC

\* Every id its own worktree name.
OwnName == [i \in Ids |-> i]

Research == [mode |-> "research", perm |-> "edit", worktree |-> FALSE]
Implement == [mode |-> "implement", perm |-> "edit", worktree |-> TRUE]
PlanImplement == [mode |-> "implement", perm |-> "plan", worktree |-> FALSE]

ReadOnlyRequests == {Research}
\* Writers, and a session in Plan mode whose writers are refused.
WriteRequests == {Implement, PlanImplement}

IdSymmetry == Permutations(Ids)
=============================================================================
