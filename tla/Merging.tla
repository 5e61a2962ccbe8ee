------------------------------- MODULE Merging -------------------------------
(***************************************************************************)
(* Applying a subagent's branch, resolving its conflicts by hand, and the  *)
(* worktree commands that move the project root under both.  The command   *)
(* loop runs each git command to its end; the interface works from the     *)
(* events it has received, so a popup may be about a merge that is gone.   *)
(* git's own behaviour is external: a merge belongs to one worktree, a     *)
(* second one is refused while it lasts, and a side is taken only of a     *)
(* file that is still unmerged.                                            *)
(***************************************************************************)
EXTENDS Naturals, Sequences, FiniteSets

CONSTANTS
  MaxAgents,    \* implement-mode subagents, each with a worktree and a branch
  MaxEdits,     \* changes one subagent makes
  MaxFiles,     \* files a merge may conflict on
  MaxTyped,     \* commands sent in one behaviour
  Hidden,       \* TRUE: a conflict git words otherwise may come with the listed ones
  CommitFails,  \* TRUE: the final commit may be refused (a hook, no identity)
  MovesMidMerge,\* TRUE: a worktree command may wait behind an apply or follow its conflict
  StartTree     \* the worktree Gocode was started in

ASSUME MergingAssumption ==
  /\ MaxAgents \in Nat \ {0} /\ MaxEdits \in Nat \ {0} /\ MaxFiles \in Nat \ {0}
  /\ MaxTyped \in Nat /\ {Hidden, CommitFails, MovesMidMerge} \subseteq BOOLEAN
  /\ StartTree \in 0 .. MaxAgents + 1

VARIABLES
  projectRoot,   \* the worktree the command loop works in
  trees,         \* the worktrees that exist
  made,          \* agent -> changes made in its worktree
  committed,     \* agent -> how many of them are on its branch
  contains,      \* worktree -> agent -> changes merged into it
  merging,       \* worktree -> the merge in progress
  orders, news,  \* interface to command loop and back
  typed,         \* commands sent so far
  popup,         \* the conflict resolver on the screen
  reviewed,      \* agent -> changes the last diff shown had
  applied        \* what the user was told is applied

mergingVars == <<projectRoot, trees, made, committed, contains, merging, orders, news,
                 typed, popup, reviewed, applied>>

Main == 0
Agents == 1 .. MaxAgents        \* an agent's worktree has its number
Task == MaxAgents + 1           \* the worktree of /worktree create
Trees == 0 .. Task
Files == 1 .. MaxFiles
Untouched == [f \in Files |-> "clean"]
NoMerge == [agent |-> 0, upto |-> 0, files |-> Untouched, hidden |-> FALSE]
NoPopup == [agent |-> 0, files |-> Untouched]

Open(fs) == {f \in Files : fs[f] = "open"}
Tells(event) == news' = Append(news, event)
News(kind, a) == [kind |-> kind, agent |-> a, files |-> Untouched, file |-> 0, side |-> ""]
Notice(a) == News("notice", a)

git == <<made, committed, contains, merging>>

-----------------------------------------------------------------------------
(* A subagent works in its own worktree, while it exists *)

Edit(a) ==
  /\ a \in trees /\ made[a] < MaxEdits
  /\ made' = [made EXCEPT ![a] = @ + 1]
  /\ UNCHANGED <<projectRoot, trees, committed, contains, merging, orders, news, typed,
                 popup, reviewed, applied>>

\* Nothing in the program commits; a subagent may, with run_command.
CommitWork(a) ==
  /\ a \in trees /\ committed[a] < made[a]
  /\ committed' = [committed EXCEPT ![a] = made[a]]
  /\ UNCHANGED <<projectRoot, trees, made, contains, merging, orders, news, typed,
                 popup, reviewed, applied>>

-----------------------------------------------------------------------------
(* The interface *)

Sent(kind, agent, file, side) ==
  /\ typed < MaxTyped
  /\ typed' = typed + 1
  /\ orders' = Append(orders, [kind |-> kind, agent |-> agent, file |-> file, side |-> side])
  /\ UNCHANGED <<projectRoot, trees, git, news, popup, reviewed, applied>>

BetweenMerges ==
  \/ MovesMidMerge
  \/ /\ \A t \in Trees : merging[t] = NoMerge
     /\ \A i \in 1 .. Len(orders) : orders[i].kind # "apply"

\* The resolver owns the keyboard while it is open.
TypeCommand ==
  /\ popup = NoPopup
  /\ \/ \E a \in Agents, kind \in {"diff", "apply", "cleanup"} : Sent(kind, a, 0, "")
     \/ BetweenMerges /\ \E t \in Trees, kind \in {"switch", "remove"} : Sent(kind, t, 0, "")
     \/ BetweenMerges /\ Sent("create", Task, 0, "")

ResolverKey ==
  /\ popup # NoPopup
  /\ \/ \E f \in Files, side \in {"ours", "theirs"} :
          popup.files[f] # "clean" /\ Sent("resolve", popup.agent, f, side)
     \/ Open(popup.files) = {} /\ Sent("finish", popup.agent, 0, "")
     \/ Sent("abort", popup.agent, 0, "")

ReceiveNews ==
  /\ news # <<>>
  /\ news' = Tail(news)
  /\ LET e == Head(news)
         mine == e.agent = popup.agent
     IN  popup' = CASE e.kind = "conflict" -> [agent |-> e.agent, files |-> e.files]
                    [] e.kind = "resolved" /\ mine -> [popup EXCEPT !.files[e.file] = e.side]
                    [] e.kind = "finished" /\ mine -> NoPopup
                    [] OTHER -> popup
  /\ UNCHANGED <<projectRoot, trees, git, orders, typed, reviewed, applied>>

-----------------------------------------------------------------------------
(* The command loop *)

Takes(kind) == orders # <<>> /\ Head(orders).kind = kind /\ orders' = Tail(orders)
Target == Head(orders).agent
Here == merging[projectRoot]

ComputeSubagentDiff ==
  /\ Takes("diff")
  /\ reviewed' = [reviewed EXCEPT ![Target] = committed[Target]]
  /\ UNCHANGED <<projectRoot, trees, git, news, typed, popup, applied>>

Report(a) == applied' = applied \cup {[agent |-> a, tree |-> projectRoot, made |-> made[a],
                                       upto |-> IF Here = NoMerge THEN committed[a]
                                                ELSE Here.upto]}

\* The branch's commits enter the worktree, or there is nothing to merge.
MergeApplies ==
  /\ Takes("apply") /\ Here = NoMerge
  /\ contains' = [contains EXCEPT ![projectRoot][Target] = committed[Target]]
  /\ Report(Target)
  /\ Tells(Notice(Target))
  /\ UNCHANGED <<projectRoot, trees, made, committed, merging, typed, popup, reviewed>>

MergeConflicts ==
  /\ Takes("apply") /\ Here = NoMerge
  /\ committed[Target] > contains[projectRoot][Target]
  /\ \E open \in (SUBSET Files) \ {{}}, hidden \in {FALSE, Hidden} :
       LET left == [f \in Files |-> IF f \in open THEN "open" ELSE "clean"]
       IN  /\ merging' = [merging EXCEPT ![projectRoot] =
                [agent |-> Target, upto |-> committed[Target], files |-> left,
                 hidden |-> hidden]]
           /\ Tells([News("conflict", Target) EXCEPT !.files = left])
  /\ UNCHANGED <<projectRoot, trees, made, committed, contains, typed, popup, reviewed,
                 applied>>

\* Refused: another merge is in progress, local changes are in the way, or no
\* conflict is worded as expected. The abort takes whatever merge there is.
MergeErrs ==
  /\ Takes("apply")
  /\ merging' = [merging EXCEPT ![projectRoot] = NoMerge]
  /\ Tells(Notice(Target))
  /\ UNCHANGED <<projectRoot, trees, made, committed, contains, typed, popup, reviewed,
                 applied>>

\* A file that is not unmerged is checked out as it is staged, with success.
ResolveConflictFile ==
  /\ Takes("resolve")
  /\ LET f == Head(orders).file
     IN  /\ merging' = IF Here.files[f] = "open"
                       THEN [merging EXCEPT ![projectRoot].files[f] = Head(orders).side]
                       ELSE merging
         /\ Tells([News("resolved", Target) EXCEPT !.file = f, !.side = Head(orders).side])
  /\ UNCHANGED <<projectRoot, trees, made, committed, contains, typed, popup, reviewed,
                 applied>>

ResolveFails ==
  /\ Takes("resolve")
  /\ Tells(Notice(Target))
  /\ UNCHANGED <<projectRoot, trees, git, typed, popup, reviewed, applied>>

Committable == Here # NoMerge /\ Open(Here.files) = {} /\ ~Here.hidden

FinishMerge ==
  /\ Takes("finish") /\ Committable
  /\ contains' = [contains EXCEPT ![projectRoot][Here.agent] = Here.upto]
  /\ merging' = [merging EXCEPT ![projectRoot] = NoMerge]
  /\ Report(Target)
  /\ Tells(News("finished", Target))
  /\ UNCHANGED <<projectRoot, trees, made, committed, typed, popup, reviewed>>

\* Mutant: any exit of git commit is taken for success.
FinishAlwaysApplied ==
  /\ Takes("finish") /\ (CommitFails \/ ~Committable)
  /\ Report(Target)
  /\ Tells(News("finished", Target))
  /\ UNCHANGED <<projectRoot, trees, git, typed, popup, reviewed>>

FinishFails ==
  /\ Takes("finish") /\ (CommitFails \/ ~Committable)
  /\ Tells(News("finished", Target))
  /\ UNCHANGED <<projectRoot, trees, git, typed, popup, reviewed, applied>>

\* Reported as aborted whatever git says.
AbortMerge ==
  /\ Takes("abort")
  /\ merging' = [merging EXCEPT ![projectRoot] = NoMerge]
  /\ Tells(News("finished", Target))
  /\ UNCHANGED <<projectRoot, trees, made, committed, contains, typed, popup, reviewed,
                 applied>>

CreateWorktree ==
  /\ Takes("create")
  /\ \/ /\ Target \notin trees
        /\ trees' = trees \cup {Target}
        /\ projectRoot' = Target
     \/ UNCHANGED <<trees, projectRoot>>
  /\ UNCHANGED <<git, news, typed, popup, reviewed, applied>>

\* resolve_target looks the name up in git's list, wherever the loop stands.
Resolvable == projectRoot \in trees /\ Target \in trees

SwitchWorktree ==
  /\ Takes("switch")
  /\ projectRoot' = IF Resolvable THEN Target ELSE projectRoot
  /\ UNCHANGED <<trees, git, news, typed, popup, reviewed, applied>>

\* git refuses the main worktree and one with changes.
Removable == Resolvable /\ Target # Main /\ merging[Target] = NoMerge
             /\ (Target \in Agents => committed[Target] = made[Target])

\* The session moves to the main worktree if git, asked from where Gocode was
\* started, still lists one, and back to where it was started if not.
RemoveWorktree ==
  /\ Takes("remove")
  /\ trees' = IF Removable THEN trees \ {Target} ELSE trees
  /\ projectRoot' = IF Removable /\ Target = projectRoot
                    THEN IF StartTree \in trees' THEN Main ELSE StartTree
                    ELSE projectRoot
  /\ UNCHANGED <<git, news, typed, popup, reviewed, applied>>

\* The worktree is removed as above; the session is not moved.
CleanupSubagent ==
  /\ Takes("cleanup")
  /\ trees' = IF Removable THEN trees \ {Target} ELSE trees
  /\ Tells(Notice(Target))
  /\ UNCHANGED <<projectRoot, git, typed, popup, reviewed, applied>>

-----------------------------------------------------------------------------
MergingInit ==
  /\ projectRoot = StartTree
  /\ trees = {Main, StartTree} \cup Agents
  /\ made = [a \in Agents |-> 0] /\ committed = made /\ reviewed = made
  /\ contains = [t \in Trees |-> made]
  /\ merging = [t \in Trees |-> NoMerge]
  /\ orders = <<>> /\ news = <<>> /\ typed = 0 /\ popup = NoPopup /\ applied = {}

MergingNext ==
  \/ \E a \in Agents : Edit(a) \/ CommitWork(a)
  \/ TypeCommand \/ ResolverKey \/ ReceiveNews
  \/ ComputeSubagentDiff \/ MergeApplies \/ MergeConflicts \/ MergeErrs
  \/ ResolveConflictFile \/ ResolveFails \/ FinishMerge \/ FinishFails \/ AbortMerge
  \/ CreateWorktree \/ SwitchWorktree \/ RemoveWorktree \/ CleanupSubagent

MergingSpec == MergingInit /\ [][MergingNext]_mergingVars

-----------------------------------------------------------------------------
(* Properties *)

\* AppliedIsMerged: what the user was told is applied had its commits merged into
\* the worktree it was said of, through second attempts, aborts, failed commits and
\* stale popups (main.rs 266-389, 2756-2850). A worktree command that comes between
\* an apply and the end of its merge can move the loop to a worktree with another
\* merge: the end of that one is then told as the end of the first.
AppliedIsMerged ==
  \A r \in applied : r.upto <= contains[r.tree][r.agent]

\* RootExists: the command loop never works in a worktree that was removed, "even
\* if the session is inside the worktree being removed" (main.rs:2456-2459).
RootExists == projectRoot \in trees

\* AppliedIsAll: "Applied subagent's changes" covers the changes it made
\* (main.rs 280-283); git merges commits only.
AppliedIsAll == \A r \in applied : r.made <= contains[r.tree][r.agent]

\* ChosenSideMerged: a finished merge has, of each file, the side the popup shows
\* (main.rs 316-343).
ChosenSideMerged ==
  [][\A t \in Trees :
       merging[t] # NoMerge /\ contains'[t] # contains[t] /\ popup.agent = merging[t].agent =>
         merging[t].files = popup.files]_mergingVars

\* MergeExplained: a merge is in progress only with the popup open or about to
\* open (docs/SUBAGENTS.md:153-154).
MergeExplained ==
  \A t \in Trees : merging[t] # NoMerge =>
    popup # NoPopup \/ \E i \in 1 .. Len(news) : news[i].kind = "conflict"

\* ReviewedIsMerged: no change is merged that the last diff did not show
\* (docs/SUBAGENTS.md:143-144).
ReviewedIsMerged == \A t \in Trees, a \in Agents : contains[t][a] <= reviewed[a]
=============================================================================
