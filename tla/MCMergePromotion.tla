--------------------------- MODULE MCMergePromotion ---------------------------
(***************************************************************************)
(* Instances of the merge promotion for TLC.                               *)
(***************************************************************************)
EXTENDS MergePromotionProps, TLC

CONSTANTS a1, a2, t1, t2, p1, p2

AllAlike == Permutations({p1, p2}) \cup Permutations({a1, a2})
                \cup Permutations({t1, t2})

\* One question is followed whatever becomes of it, but for a process that dies
\* in a project whose owner commits.
Alone == /\ \E a \in Approval : \A b \in Approval \ {a} : appr[b].state = "none"
         /\ deaths = 0 \/ OwnCommits = 0

\* Of two, those that end in a no, a main the owner commits to, and more than
\* one merge that ends badly or process that dies are left out; and a wait the
\* owner ended, unless both are about one task and one process does it all.
Both ==
    /\ OwnCommits = 0
    /\ \A a \in Approval : appr[a].state \in {"none", "requested", "approved",
                                              "consumed"}
    /\ Cardinality({a \in Approval : git[a].exit = "bad"}) + deaths <= 1
OneTask == Cardinality({appr[a].task : a \in Approval} \ {NONE}) <= 1
OneProcess == \E p \in Proc : \A q \in Proc \ {p} :
                 run[q] = NoRun /\ look[q] = NoLook /\ mem[q] = NoMem
InstanceBound ==
    \/ Alone
    \/ Both /\ ruled = {}
    \/ Both /\ Cardinality(ruled) <= 1 /\ OneTask /\ OneProcess
=============================================================================
