---------------------------- MODULE MCWorkflowRun ----------------------------
(***************************************************************************)
(* A workflow for TLC.                                                     *)
(***************************************************************************)
EXTENDS WorkflowRunProps

CONSTANTS p1, p2, r1, v1, v2

\* The agents whose leader has ended and left its group behind, and the runs
\* that have met that or a second round.
Lingering == {a \in Agent : \E p \in Proc, r \in Run :
                 call[p][r][a].child.closed /\ call[p][r][a].child.group}
LeftBehind == {r \in Run : stray[r] \/ Lingering # {}}
Again == {r \in Run : row[r].counters.rounds > 1}

Troubles == gov.epoch + deaths + Cardinality(LeftBehind) + Cardinality(Again)

\* One thing out of the ordinary at a time: an emergency stop, the death of a
\* process, a writer that leaves its group behind, or a second round; no pause
\* with any of these, a deadline only with a group that is left behind, and no
\* fallback writer in the second round.  The other process has opened by then,
\* before the run or in the middle of it.
OneTrouble ==
    /\ Troubles <= IF up[p2] THEN 1 ELSE 0
    /\ Lingering \subseteq {"writer"}
    /\ Troubles > 0 => \A p \in Proc, r \in Run : ~eng[p][r].paused
    /\ Troubles > Cardinality(LeftBehind) => \A p \in Proc, r \in Run : ~eng[p][r].due
    /\ \A r \in Again, p \in Proc : call[p][r]["fallback"] = NoCall

\* The other process restores a run that is marked as interrupted while its
\* reviewers are asked, without any other trouble, and plans it.
SecondPlans ==
    \A r \in Run : eng[p2][r].phase # "idle" =>
        /\ Troubles = 0
        /\ eng[p1][r].phase \in {"review", "ended"}
        /\ eng[p2][r].phase \in {"admitted", "plan", "ended"}
        /\ \A p \in Proc : ~eng[p][r].paused /\ eng[p][r].stop # "cancelled"
        /\ ~eng[p1][r].due /\ call[p1][r]["fallback"] = NoCall
        /\ \A a \in Agent, p \in Proc : ~call[p][r][a].child.term

Bounded == OneTrouble /\ SecondPlans
=============================================================================
