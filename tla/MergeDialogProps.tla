-------------------------- MODULE MergeDialogProps --------------------------
(***************************************************************************)
(* What the merge approval dialog promises its owner.                      *)
(***************************************************************************)
EXTENDS MergeDialog

Asked == {a \in Approval : appr[a].state # "none"}
ShownState == {"requested"} \cup ClosedState
Contents == (Approval \X BOOLEAN \X {NONE, "clean", "clash"}) \cup {NONE}

\* Screens, answers and calls about the approvals of a set.
Screen(A) == [id: A, state: ShownState, lapsed: BOOLEAN]
Answer(A) == [id: A, state: ShownState, lapsed: BOOLEAN, valid: BOOLEAN,
              scan: {"clean", "clash"}]
Dialog(A) == [open: BOOLEAN, screen: Screen(A) \cup {NONE}, valid: BOOLEAN,
              scan: {NONE, "clean", "clash"}, blocked: BOOLEAN, scrolled: BOOLEAN,
              decided: BOOLEAN, submitting: BOOLEAN, inputFor: A \cup {NONE},
              typed: BOOLEAN, polling: BOOLEAN]
LoadCall(A) == [id: A, then: {"look", "submit"}, answer: Answer(A) \cup {NONE}]
PollCall(A) == [id: A, was: Screen(A), answer: Answer(A) \cup {NONE}]
PostCall(A) == [kind: {"approve", "reject", "retry"}, id: A, content: Contents,
                phrase: Approval \cup {NONE}, answer: Screen(A) \cup {Refused, NONE}]

\* The dialog and the calls keep their shape and are about approvals that were
\* asked for, each of a task and none left granted; of the calls of one kind no
\* more are in flight than the bound says.
TypeOK ==
    /\ ApprovalTypeOK
    /\ \A a \in Asked : appr[a].task \in Task /\ appr[a].state \in ShownState
    /\ late \subseteq Approval /\ clash \subseteq Approval
    /\ dialog \in Dialog(Asked)
    /\ loads \in Seq(LoadCall(Asked)) /\ Len(loads) <= MaxCalls
    /\ polls \in Seq(PollCall(Asked)) /\ Len(polls) <= MaxCalls
    /\ posts \in Seq(PostCall(Asked)) /\ Len(posts) <= MaxCalls
    /\ acts \in Nat
    /\ typedFor \in Approval \cup {NONE}
    /\ drawn \in Contents /\ read \subseteq Contents

\* What the owner approves was on the screen, as the server then showed it with
\* nothing in its way, and was seen to its end: whichever answers landed in the
\* meantime, about whichever approval (renderMergeApproval, the scroll gate).
SignedAsRead ==
    \A i \in DOMAIN posts :
        posts[i].kind = "approve" =>
            /\ posts[i].content = <<posts[i].id, TRUE, "clean">>
            /\ posts[i].content \in read

\* An approval that has drifted under the owner's eyes does not stay open to a
\* signature: the dialog sees it, by itself (repollMergeApproval).
Signable == /\ dialog.open /\ dialog.screen # NONE
            /\ ~dialog.blocked /\ ~dialog.decided /\ ~dialog.screen.lapsed
ChangeSurfaces == []<>~(Signable /\ Changed(dialog.screen.id))

\* The timers of the dialog, a server that answers, and nothing of the owner.
Fairness ==
    /\ WF_vars(tickMergeApprovalTtl) /\ WF_vars(Repoll)
    /\ \A i \in 1..MaxCalls : WF_vars(Reads(i)) /\ WF_vars(Polls(i)) /\ WF_vars(Rules(i))

FairSpec == Spec /\ Fairness

-----------------------------------------------------------------------------
\* What the documents, the comments and the tests say, and the code does not
\* keep: the README lists where, and the instance that shows it.

\* The phrase that approves was typed for the approval it approves.
PhraseBelongs ==
    \A i \in DOMAIN posts :
        posts[i].kind = "approve" => posts[i].phrase = posts[i].id
=============================================================================
