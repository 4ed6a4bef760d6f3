---------------------------- MODULE MCMergeDialog ----------------------------
(* The merge approval dialog for TLC. *)
EXTENDS MergeDialogProps

CONSTANTS a1, a2, a3, t1, t2

\* The first ids wait.
Waiting == \A a \in Approval \ {a3} : appr[a].state = "requested"
MCInit == Init /\ Waiting /\ appr[a1].task = t1
MCSpec == MCInit /\ [][Next]_vars
MCFairSpec == MCSpec /\ Fairness

=============================================================================
