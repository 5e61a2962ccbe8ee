------------------------------ MODULE Lifecycle ------------------------------
(***************************************************************************)
(* What /agents promises a reader of the subagent records: the state       *)
(* diagram of SubagentStatus (crates/gocode-core/src/subagent.rs and       *)
(* docs/SUBAGENTS.md, section 4), one status per subagent.  "absent" is a  *)
(* record that does not exist yet or has been cleaned up.                  *)
(***************************************************************************)
CONSTANTS Ids

VARIABLE status

Live == {"Queued", "Running", "WaitingInput"}
Final == {"Completed", "Failed", "Stopped", "TimedOut", "Interrupted"}

Init == status = [i \in Ids |-> "absent"]

\* Subagent i, in one of the statuses `from`, moves to one of `to`.
Move(i, from, to) ==
    /\ status[i] \in from
    /\ \E st \in to : status' = [status EXCEPT ![i] = st]

Spawn(i) == Move(i, {"absent"}, {"Queued"})
Start(i) == Move(i, {"Queued"}, {"Running"})
Ask(i) == Move(i, {"Running"}, {"WaitingInput"})
Answer(i) == Move(i, {"WaitingInput"}, {"Running"})
\* Only a running subagent completes or fails by itself.
End(i) == Move(i, {"Running"}, {"Completed", "Failed"})
\* A queued subagent can be stopped, but only a started one times out.
CutOff(i) == \/ Move(i, Live, {"Stopped"})
             \/ Move(i, {"Running", "WaitingInput"}, {"TimedOut"})
\* A restart finds the record unfinished.
Interrupt(i) == Move(i, Live, {"Interrupted"})
\* Cleanup is for finished subagents only.
Remove(i) == Move(i, Final, {"absent"})

Next == \E i \in Ids :
            \/ Spawn(i) \/ Start(i) \/ Ask(i) \/ Answer(i)
            \/ End(i) \/ CutOff(i) \/ Interrupt(i) \/ Remove(i)

Spec == Init /\ [][Next]_status

=============================================================================
