------------------------- MODULE MergePromotionProps -------------------------
(***************************************************************************)
(* What should be true when a candidate is merged into main.               *)
(***************************************************************************)
EXTENDS MergePromotion

(* The owner's view of a promotion.                                        *)
AnswerOf(a) == CASE appr[a].state = "requested" -> "asked"
                 [] appr[a].state = "approved" -> "granted"
                 [] appr[a].state = "consumed" -> "spent"
                 [] appr[a].state = "none" -> "none"
                 [] OTHER -> "closed"
VerdictOf(a) == CASE prom[a].state = "applied" -> "merged"
                  [] prom[a].state = "rolled-back" -> "not"
                  [] OTHER -> "open"
Decision == INSTANCE MergeDecision
                WITH Question <- Approval, Candidate <- Task, Nothing <- NONE,
                     about <- [a \in Approval |-> appr[a].task],
                     answer <- [a \in Approval |-> AnswerOf(a)],
                     landed <- {a \in Approval : git[a].landed},
                     verdict <- [a \in Approval |-> VerdictOf(a)]

\* A candidate lands only for a yes that was spent before git was started, once;
\* a record that says rolled-back is about a merge that will never land, and one
\* that says applied about a merge that did, whichever process wrote it, however
\* late git commits, and after any death; except for what the owner ruled on, and
\* for an applied that is about an earlier merge of the task whose end the owner
\* did not wait for.
ImplementsDecision == Decision!Spec

\* Two merges run in the project at the same time only after the owner ended the
\* wait for one of them.
SoleMerge ==
    \A a, b \in Approval :
        (a # b /\ Running(a) /\ Running(b)) => ruled \cap {a, b} # {}

\* The merges a head with the candidate of a in it may be due to: its own, or one
\* of the same task that the owner stopped waiting for.
Credited(a) == {b \in Approval :
                  /\ git[b].landed
                  /\ b = a \/ (b \in ruled /\ appr[b].task = appr[a].task)}

\* The same, of every record that ends as applied or rolled-back.  One that main
\* shows merged but untidy may be handed to the owner while a process of the
\* merge's group is left.
MarkerHeld ==
    [][\A a \in Approval :
          (holdsExclusiveMarker(a) /\ ~holdsExclusiveMarker(a)') =>
              \/ a \in ruled'
              \/ ~Running(a) /\ ~git[a].group
              \/ Credited(a) # {} /\ prom'[a].state = "manual"]_vars

\* The command that throws work away is offered only for a merge that is over.
ResetOverNobody ==
    \A a \in Approval :
        prom[a].hint = "reset" => ~Running(a) /\ ~git[a].group

\* A task is marked merged only when its candidate is in main.
MergedIsInMain ==
    \A t \in Task :
        status[t] = "merged" => \E i \in DOMAIN main.log : main.log[i] = t

-----------------------------------------------------------------------------
\* What the documents, the comments and the tests say, and the code does not
\* keep: the README lists where, and the instance that shows it.

\* The project's marker leaves a record only when its merge is over, leader and
\* group, or the owner has ended the wait.
ReleaseOverNobody ==
    [][\A a \in Approval :
          (holdsExclusiveMarker(a) /\ ~holdsExclusiveMarker(a)') =>
              \/ a \in ruled'
              \/ ~Running(a) /\ ~git[a].group]_vars

\* It is offered only for a main without a merge of this product after the
\* point it goes back to.
ResetKeepsMerges ==
    \A a \in Approval :
        prom[a].hint = "reset" => ~git[a].landed

\* An applied record is about the very head the owner approved.
AppliedOnApprovedBase ==
    \A a \in Approval :
        prom[a].state = "applied" => prom[a].before = appr[a].base

\* A record that has left applying does not get back into it.
NeverRetaken ==
    [][\A a \in Approval :
          prom[a].state = "manual" => ~holdsExclusiveMarker(a)']_vars

\* Every promotion gives the project back.
MarkerReleased ==
    \A a \in Approval : holdsExclusiveMarker(a) ~> ~holdsExclusiveMarker(a)
=============================================================================
