--------------------------- MODULE MergeOwnerProofs ---------------------------
(***************************************************************************)
(* What the owner is shown of a merge, and may rely on: the dialog in      *)
(* which an approval is signed (MergeDialog), and the sentences that say   *)
(* a merge is over (MergeIdentity).  For every set of approvals and every  *)
(* bound on the calls in flight, and for every set of process numbers,     *)
(* readers and faults.                                                     *)
(*                                                                         *)
(* What the owner approves was drawn for that approval and read to its     *)
(* end.  The argument is about what was last drawn: while nothing blocks   *)
(* the approval on the screen, the last drawing was of it, valid and       *)
(* clean; and while the gate holds the drawing to be read to its end, it   *)
(* was.  Calls that land later draw anew, or leave the drawing alone.      *)
(*                                                                         *)
(* No short sentence is shown, and nothing concluded first hand, while the *)
(* merge's group lives.  The argument is about what the records name:      *)
(* whichever of them is missing or damaged, none names another group while *)
(* that one lives, and its number is nobody else's, so that a reader who   *)
(* finds any record of it finds it alive.                                  *)
(***************************************************************************)
EXTENDS MergeDialogProps, MergeIdentityProps, SequenceTheorems, TLAPS

\* The rows of approvals, and what may be said of one that was asked for.
Rows ==
    /\ ApprovalTypeOK
    /\ \A a \in Asked : appr[a].task \in Task /\ appr[a].state \in ShownState

World == late \subseteq Approval /\ clash \subseteq Approval /\ acts \in Nat

\* An approval that nothing blocks is drawn as it may be signed, and what
\* counts as scrolled has been read.
DrawnAsShown ==
    /\ dialog.screen # NONE /\ ~dialog.blocked =>
          drawn = <<dialog.screen.id, TRUE, "clean">>
    /\ dialog.open /\ dialog.screen # NONE /\ dialog.scrolled => drawn \in read

DialogOK ==
    /\ dialog \in Dialog(Asked)
    /\ typedFor \in Approval \cup {NONE}
    /\ drawn \in Contents /\ read \subseteq Contents
    /\ DrawnAsShown

\* The calls that may be in flight when R has been read.
Vetted(A, R) == {c \in PostCall(A) : c.kind = "approve" =>
                    /\ c.content = <<c.id, TRUE, "clean">>
                    /\ c.content \in R}

LoadsOK == loads \in Seq(LoadCall(Asked)) /\ Len(loads) <= MaxCalls
PollsOK == polls \in Seq(PollCall(Asked)) /\ Len(polls) <= MaxCalls
PostsOK == posts \in Seq(Vetted(Asked, read)) /\ Len(posts) <= MaxCalls

\* What has been asked for, and what has been read, stays so.
Grows == Asked \subseteq Asked' /\ read \subseteq read'

IInv == Rows /\ World /\ DialogOK /\ LoadsOK /\ PollsOK /\ PostsOK

-----------------------------------------------------------------------------
(* Sequences of calls.                                                     *)

\* A call that is sent goes to the end of the calls of its kind.
LEMMA Sent ==
    ASSUME NEW S, NEW s \in Seq(S), NEW c \in S
    PROVE  Append(s, c) \in Seq(S) /\ Len(Append(s, c)) = Len(s) + 1
  OBVIOUS

\* An answer changes one call and the length of nothing.
LEMMA AnswerKeeps ==
    ASSUME NEW S, NEW s \in Seq(S), NEW i \in DOMAIN s, NEW x,
           [s[i] EXCEPT !.answer = x] \in S
    PROVE  Answered(s, i, x) \in Seq(S) /\ Len(Answered(s, i, x)) = Len(s)
<1> DEFINE r == [s[i] EXCEPT !.answer = x]
<1>1. Answered(s, i, x) = [s EXCEPT ![i] = r]
  BY DEF Answered
<1>2. r \in S
  OBVIOUS
<1> HIDE DEF r
<1> QED  BY <1>1, <1>2

\* A call that has landed, or was lost, leaves the others in their order.
LEMMA Landed ==
    ASSUME NEW S, NEW s \in Seq(S), NEW i \in DOMAIN s
    PROVE  RemoveAt(s, i) \in Seq(S) /\ Len(RemoveAt(s, i)) <= Len(s)
<1>1. SubSeq(s, 1, i - 1) \in Seq(S) /\ SubSeq(s, i + 1, Len(s)) \in Seq(S)
  OBVIOUS
<1>2. Len(SubSeq(s, 1, i - 1)) = i - 1 /\ Len(SubSeq(s, i + 1, Len(s))) = Len(s) - i
  OBVIOUS
<1> QED  BY <1>1, <1>2 DEF RemoveAt

\* What is about some approvals is about a larger set of them.
LEMMA Wider ==
    ASSUME NEW A, NEW B, A \subseteq B, NEW R, NEW Q, R \subseteq Q
    PROVE  /\ Screen(A) \subseteq Screen(B) /\ Answer(A) \subseteq Answer(B)
           /\ Dialog(A) \subseteq Dialog(B)
           /\ LoadCall(A) \subseteq LoadCall(B) /\ PollCall(A) \subseteq PollCall(B)
           /\ PostCall(A) \subseteq PostCall(B)
           /\ Vetted(A, R) \subseteq Vetted(B, Q)
<1>1. Screen(A) \subseteq Screen(B)
  BY DEF Screen
<1>2. Answer(A) \subseteq Answer(B)
  BY DEF Answer
<1>3. Dialog(A) \subseteq Dialog(B)
  BY <1>1 DEF Dialog
<1>4. LoadCall(A) \subseteq LoadCall(B)
  BY <1>2 DEF LoadCall
<1>5. PollCall(A) \subseteq PollCall(B)
  BY <1>1, <1>2 DEF PollCall
<1>6. PostCall(A) \subseteq PostCall(B)
  BY <1>1 DEF PostCall
<1>7. Vetted(A, R) \subseteq Vetted(B, Q)
  BY <1>6 DEF Vetted
<1> QED  BY <1>1, <1>2, <1>3, <1>4, <1>5, <1>6, <1>7

\* Calls of a kind that a step leaves alone stay as they should be.
LEMMA LoadsKept ==
    ASSUME LoadsOK, Grows, loads' = loads
    PROVE  LoadsOK'
<1>1. LoadCall(Asked) \subseteq LoadCall(Asked')
  BY Wider DEF Grows
<1>2. Seq(LoadCall(Asked)) \subseteq Seq(LoadCall(Asked'))
  BY <1>1, SeqMonotonic
<1> QED  BY <1>2 DEF LoadsOK, LoadCall, Answer, ShownState, ClosedState

LEMMA PollsKept ==
    ASSUME PollsOK, Grows, polls' = polls
    PROVE  PollsOK'
<1>1. PollCall(Asked) \subseteq PollCall(Asked')
  BY Wider DEF Grows
<1>2. Seq(PollCall(Asked)) \subseteq Seq(PollCall(Asked'))
  BY <1>1, SeqMonotonic
<1> QED  BY <1>2 DEF PollsOK, PollCall, Answer, Screen, ShownState, ClosedState

LEMMA PostsKept ==
    ASSUME PostsOK, Grows, posts' = posts
    PROVE  PostsOK'
<1>1. Vetted(Asked, read) \subseteq Vetted(Asked', read')
  BY Wider DEF Grows
<1>2. Seq(Vetted(Asked, read)) \subseteq Seq(Vetted(Asked', read'))
  BY <1>1, SeqMonotonic
<1> QED  BY <1>2 DEF PostsOK, Vetted, PostCall, Screen, ShownState, ClosedState, Contents, Refused, Decided

\* So does the dialog.
LEMMA DialogKept ==
    ASSUME DialogOK, Grows, UNCHANGED <<dialog, since>>
    PROVE  DialogOK'
<1>1. Dialog(Asked) \subseteq Dialog(Asked')
  BY Wider DEF Grows
<1>2. dialog' = dialog /\ drawn' = drawn /\ read' = read /\ typedFor' = typedFor
  BY DEF since
<1>3. dialog' \in Dialog(Asked')
  BY <1>1, <1>2 DEF DialogOK
<1>4. DrawnAsShown'
  BY <1>2 DEF DialogOK, DrawnAsShown
<1> QED  BY <1>2, <1>3, <1>4 DEF DialogOK, Contents

\* The primed definitions: what a step leaves of the approvals asked for.
LEMMA AskedThen == Asked' = {a \in Approval : appr'[a].state # "none"}
  BY DEF Asked

-----------------------------------------------------------------------------
(* Drawing.                                                                *)

\* The gate empties the input at most.
LEMMA GateKeeps ==
    ASSUME NEW A, NEW d \in Dialog(A)
    PROVE  /\ updateMergeApprovalGate(d) \in Dialog(A)
           /\ updateMergeApprovalGate(d).open = d.open
           /\ updateMergeApprovalGate(d).screen = d.screen
           /\ updateMergeApprovalGate(d).valid = d.valid
           /\ updateMergeApprovalGate(d).scan = d.scan
           /\ updateMergeApprovalGate(d).blocked = d.blocked
           /\ updateMergeApprovalGate(d).scrolled = d.scrolled
  BY DEF updateMergeApprovalGate, Dialog

\* The countdown marks the approval on the screen.
LEMMA LapsedKeeps ==
    ASSUME NEW A, NEW d \in Dialog(A)
    PROVE  /\ Lapsed(d) \in Dialog(A)
           /\ Lapsed(d).open = d.open /\ Lapsed(d).valid = d.valid
           /\ Lapsed(d).scan = d.scan
           /\ Lapsed(d).screen # NONE => d.screen # NONE /\ Lapsed(d).screen.id = d.screen.id
<1>1. CASE d.screen # NONE /\ d.screen.id \in late
  <2> DEFINE s == [d.screen EXCEPT !.lapsed = TRUE]
  <2>1. d.screen \in Screen(A)
    BY <1>1 DEF Dialog
  <2>2. s \in Screen(A) /\ s.id = d.screen.id
    BY <2>1 DEF Screen
  <2>3. Lapsed(d) = [d EXCEPT !.screen = s]
    BY <1>1 DEF Lapsed
  <2> HIDE DEF s
  <2> QED  BY <1>1, <2>2, <2>3 DEF Dialog
<1>2. CASE ~(d.screen # NONE /\ d.screen.id \in late)
  BY <1>2 DEF Lapsed
<1> QED  BY <1>1, <1>2

\* What is drawn without a blocker is an approval that can be signed, and a
\* drawing is read at once only where the whole of it shows.
LEMMA DrawShows ==
    ASSUME NEW A, NEW d \in Dialog(A), A \subseteq Approval, Draw(d),
           read \subseteq Contents
    PROVE  /\ dialog' \in Dialog(A) /\ drawn' \in Contents
           /\ read' \subseteq Contents /\ read \subseteq read'
           /\ DrawnAsShown'
<1> DEFINE e == Lapsed(d)
           f == [e EXCEPT !.blocked = mergeApprovalBlockers(e), !.scrolled = AtBottom(e)]
<1>1. /\ e \in Dialog(A) /\ e.open = d.open /\ e.valid = d.valid /\ e.scan = d.scan
      /\ e.screen # NONE => d.screen # NONE /\ e.screen.id = d.screen.id
  BY LapsedKeeps
<1>2. mergeApprovalBlockers(e) \in BOOLEAN /\ AtBottom(e) \in BOOLEAN
  BY DEF mergeApprovalBlockers, AtBottom
<1>3. dialog' = updateMergeApprovalGate(f)
  BY DEF Draw, renderMergeApproval
<1>4. AtBottom(e) /\ e.open /\ e.screen # NONE => AtBottom(d)
  BY <1>1 DEF AtBottom
<1>5. e.screen # NONE /\ ~mergeApprovalBlockers(e) => e.valid = TRUE /\ e.scan = "clean"
  BY <1>1 DEF mergeApprovalBlockers, Dialog
<1> HIDE DEF e
<1>6. /\ f \in Dialog(A) /\ f.open = e.open /\ f.screen = e.screen
      /\ f.blocked = mergeApprovalBlockers(e) /\ f.scrolled = AtBottom(e)
  BY <1>1, <1>2 DEF Dialog
<1> HIDE DEF f
<1>7. /\ dialog' \in Dialog(A) /\ dialog'.open = e.open /\ dialog'.screen = e.screen
      /\ dialog'.blocked = mergeApprovalBlockers(e) /\ dialog'.scrolled = AtBottom(e)
  BY <1>3, <1>6, GateKeeps
<1>8. drawn' = Content(d) /\ (d.open /\ AtBottom(d) => Content(d) \in read')
  BY DEF Draw
<1>9. Content(d) \in Contents
  <2>1. CASE d.screen = NONE
    BY <2>1 DEF Content, Contents
  <2>2. CASE d.screen # NONE
    <3>1. d.screen.id \in Approval /\ d.valid \in BOOLEAN /\ d.scan \in {NONE, "clean", "clash"}
      BY <2>2 DEF Dialog, Screen
    <3> QED  BY <2>2, <3>1 DEF Content, Contents
  <2> QED  BY <2>1, <2>2
<1>10. read' \subseteq Contents /\ read \subseteq read'
  BY <1>9 DEF Draw
<1>11. dialog'.screen # NONE /\ ~dialog'.blocked => drawn' = <<dialog'.screen.id, TRUE, "clean">>
  BY <1>1, <1>5, <1>7, <1>8 DEF Content
<1>12. dialog'.open /\ dialog'.screen # NONE /\ dialog'.scrolled => drawn' \in read'
  BY <1>1, <1>4, <1>7, <1>8
<1> QED  BY <1>7, <1>8, <1>9, <1>10, <1>11, <1>12 DEF DrawnAsShown

\* A step that does not draw: the screen keeps what was drawn or is put away,
\* and nothing becomes read to its end.
LEMMA Undrawn ==
    ASSUME DialogOK, dialog' \in Dialog(Asked'), drawn' = drawn, read' = read,
           typedFor' \in Approval \cup {NONE},
           dialog'.screen # NONE => /\ dialog'.screen = dialog.screen
                                    /\ dialog'.blocked = dialog.blocked,
           dialog'.scrolled => dialog.scrolled /\ dialog'.open = dialog.open
    PROVE  DialogOK'
<1>1. DrawnAsShown'
  BY DEF DialogOK, DrawnAsShown
<1> QED  BY <1>1 DEF DialogOK, Contents

\* A step that draws.
LEMMA Drawn ==
    ASSUME DialogOK, Asked \subseteq Asked', NEW d \in Dialog(Asked'), Draw(d), typedFor' = typedFor
    PROVE  DialogOK' /\ Grows
<1>1. Asked' \subseteq Approval
  BY AskedThen
<1>2. read \subseteq Contents /\ typedFor \in Approval \cup {NONE}
  BY DEF DialogOK
<1>3. /\ dialog' \in Dialog(Asked') /\ drawn' \in Contents
      /\ read' \subseteq Contents /\ read \subseteq read'
      /\ DrawnAsShown'
  BY <1>1, <1>2, DrawShows
<1> QED  BY <1>2, <1>3 DEF DialogOK, Grows, Contents

-----------------------------------------------------------------------------
(* The rows.                                                               *)

\* A row that was asked for changes its state.
LEMMA Moved ==
    ASSUME Rows, NEW a \in Asked, NEW s \in ShownState,
           appr' = [appr EXCEPT ![a].state = s],
           status' \in [Task -> {"completed", "merged"}],
           main' \in [log: Seq(Task \cup {Own}), left: Approval \cup {NONE}]
    PROVE  Rows' /\ Asked' = Asked
<1>1. a \in Approval /\ appr \in [Approval -> ApprovalRow]
  BY DEF Asked, Rows, ApprovalTypeOK
<1>2. appr[a] \in ApprovalRow
  BY <1>1
<1>3. s # "none" /\ s \in {"none"} \cup OpenState \cup ClosedState
  BY DEF ShownState, OpenState, ClosedState
<1> DEFINE r == [appr[a] EXCEPT !.state = s]
<1>4. r \in ApprovalRow /\ r.state = s /\ r.task = appr[a].task
  BY <1>2, <1>3 DEF ApprovalRow
<1>5. appr' = [appr EXCEPT ![a] = r]
  OBVIOUS
<1> HIDE DEF r
<1>6. appr' \in [Approval -> ApprovalRow]
  BY <1>1, <1>4, <1>5
<1>7. \A b \in Approval : appr'[b].task = appr[b].task /\ appr'[b].state = IF b = a THEN s ELSE appr[b].state
  BY <1>1, <1>4, <1>5
<1>8. Asked' = Asked
  BY <1>3, <1>7, AskedThen DEF Asked
<1>9. \A b \in Asked' : appr'[b].task \in Task /\ appr'[b].state \in ShownState
  BY <1>7, <1>8 DEF Rows, Asked
<1>10. ApprovalTypeOK'
  BY <1>6 DEF ApprovalTypeOK, ApprovalRow, OpenState, ClosedState
<1> QED  BY <1>8, <1>9, <1>10 DEF Rows, ShownState, ClosedState

\* No row changes; main or its tree may.
LEMMA RowsKept ==
    ASSUME Rows, appr' = appr, status' \in [Task -> {"completed", "merged"}],
           main' \in [log: Seq(Task \cup {Own}), left: Approval \cup {NONE}]
    PROVE  Rows' /\ Asked' = Asked
<1>1. Asked' = Asked
  BY AskedThen DEF Asked
<1>2. ApprovalTypeOK'
  BY DEF Rows, ApprovalTypeOK, ApprovalRow, OpenState, ClosedState
<1> QED  BY <1>1, <1>2 DEF Rows, ShownState, ClosedState

\* An inspection closes a row that has drifted, and answers with what the
\* dialog can show.
LEMMA Inspects ==
    ASSUME Rows, NEW a \in Asked, inspectMergeApproval(a), UNCHANGED <<status, main>>
    PROVE  Rows' /\ Asked' = Asked /\ Inspected(a) \in Answer(Asked)
<1>1. appr[a].state \in ShownState
  BY DEF Rows
<1>2. Inspected(a) \in Answer(Asked) /\ Inspected(a).state \in ShownState
  BY <1>1 DEF Inspected, Answer, ShownState, ClosedState
<1>3. appr' = [appr EXCEPT ![a].state = Inspected(a).state]
  BY DEF inspectMergeApproval
<1>4. /\ status' \in [Task -> {"completed", "merged"}]
      /\ main' \in [log: Seq(Task \cup {Own}), left: Approval \cup {NONE}]
  BY DEF Rows, ApprovalTypeOK
<1> HIDE DEF Inspected
<1> QED  BY <1>2, <1>3, <1>4, Moved

-----------------------------------------------------------------------------
(* The project and the clock.                                              *)

\* What a step keeps that leaves the page alone.
LEMMA PageKept ==
    ASSUME IInv, Rows', World', Asked' = Asked, UNCHANGED <<dialog, calls, since>>
    PROVE  IInv'
<1>1. Grows
  BY DEF Grows, since
<1>2. loads' = loads /\ polls' = polls /\ posts' = posts
  BY DEF calls
<1>3. DialogOK' /\ LoadsOK' /\ PollsOK' /\ PostsOK'
  BY <1>1, <1>2, DialogKept, LoadsKept, PollsKept, PostsKept DEF IInv
<1> QED  BY <1>3 DEF IInv

\* What a step keeps that leaves the server alone.
LEMMA ServerKept ==
    ASSUME IInv, UNCHANGED server, acts' = acts \/ Act
    PROVE  Rows' /\ World' /\ Asked' = Asked
<1>1. /\ appr' = appr /\ status' = status /\ main' = main
      /\ late' = late /\ clash' = clash
  BY DEF server, approvalVars
<1>2. acts' \in Nat
  BY DEF IInv, World, Act
<1>3. Rows' /\ Asked' = Asked
  BY <1>1, RowsKept DEF IInv, Rows, ApprovalTypeOK
<1> QED  BY <1>1, <1>2, <1>3 DEF IInv, World

\* The owner commits, time passes, files come and go.
LEMMA ProjectStep ==
    ASSUME IInv,
           OwnCommit \/ \E a \in Approval : Elapse(a) \/ FilesChange(a)
    PROVE  IInv'
<1>1. CASE OwnCommit
  <2>1. Act /\ OwnerCommits /\ UNCHANGED <<late, clash, dialog, calls, since>>
    BY <1>1 DEF OwnCommit
  <2>2. main \in [log: Seq(Task \cup {Own}), left: Approval \cup {NONE}]
    BY DEF IInv, Rows, ApprovalTypeOK
  <2>3. main' = [main EXCEPT !.log = Append(@, Own)] /\ appr' = appr /\ status' = status
    BY <2>1 DEF OwnerCommits
  <2>4. main' \in [log: Seq(Task \cup {Own}), left: Approval \cup {NONE}]
    <3>1. main.log \in Seq(Task \cup {Own})
      BY <2>2
    <3>2. Append(main.log, Own) \in Seq(Task \cup {Own})
      BY <3>1
    <3> QED  BY <2>2, <2>3, <3>2
  <2>5. Rows' /\ Asked' = Asked
    BY <2>3, <2>4, RowsKept DEF IInv, Rows, ApprovalTypeOK
  <2>6. World'
    BY <2>1 DEF IInv, World, Act
  <2> QED  BY <2>1, <2>5, <2>6, PageKept
<1>2. ASSUME NEW a \in Approval, Elapse(a) \/ FilesChange(a)
      PROVE  IInv'
  <2>1. UNCHANGED approvalVars /\ Act /\ UNCHANGED <<dialog, calls, since>>
    BY <1>2 DEF Elapse, FilesChange
  <2>2. late' \subseteq Approval /\ clash' \subseteq Approval
    BY <1>2 DEF Elapse, FilesChange, IInv, World
  <2>3. Rows' /\ Asked' = Asked
    BY <2>1, RowsKept DEF IInv, Rows, ApprovalTypeOK, approvalVars
  <2>4. World'
    BY <2>1, <2>2 DEF IInv, World, Act
  <2> QED  BY <2>1, <2>3, <2>4, PageKept
<1> QED  BY <1>1, <1>2

-----------------------------------------------------------------------------
(* The owner at the dialog.                                                *)

\* A call of loadMergeApproval is about an approval that was asked for.
LEMMA Loads ==
    ASSUME LoadsOK, Grows, NEW a \in Asked', NEW then \in {"look", "submit"}, Load(a, then)
    PROVE  LoadsOK'
<1> DEFINE c == [id |-> a, then |-> then, answer |-> NONE]
<1>1. LoadCall(Asked) \subseteq LoadCall(Asked')
  BY Wider DEF Grows
<1>2. loads \in Seq(LoadCall(Asked')) /\ Len(loads) \in Nat
  BY <1>1, SeqMonotonic DEF LoadsOK
<1>3. c \in LoadCall(Asked')
  BY DEF LoadCall
<1>4. Len(loads) < MaxCalls /\ loads' = Append(loads, c)
  BY DEF Load
<1> HIDE DEF c
<1>5. loads' \in Seq(LoadCall(Asked')) /\ Len(loads') = Len(loads) + 1
  BY <1>2, <1>3, <1>4, Sent
<1>6. loads' \in Seq(LoadCall(Asked')) /\ Len(loads') <= MaxCalls
  BY <1>2, <1>4, <1>5, DialogAssumption
<1> QED  BY <1>6 DEF LoadsOK, LoadCall, Answer, ShownState, ClosedState

\* A step of the owner that sends nothing but a load, and draws nothing.
LEMMA OwnerLooks ==
    ASSUME IInv, UNCHANGED <<server, polls, posts, since>>, Act,
           dialog' \in Dialog(Asked),
           dialog'.screen = dialog.screen, dialog'.blocked = dialog.blocked,
           dialog'.scrolled = FALSE,
           NEW a \in Asked, Load(a, "look")
    PROVE  IInv'
<1>1. Rows' /\ World' /\ Asked' = Asked
  BY ServerKept
<1>2. Grows /\ polls' = polls /\ posts' = posts /\ drawn' = drawn /\ read' = read /\ typedFor' = typedFor
  BY <1>1 DEF Grows, since
<1>3. DialogOK'
  <2>1. dialog' \in Dialog(Asked') /\ typedFor' \in Approval \cup {NONE} /\ DialogOK
    BY <1>1, <1>2 DEF IInv, DialogOK
  <2> QED  BY <1>2, <2>1, Undrawn
<1>4. LoadsOK'
  BY <1>1, <1>2, Loads DEF IInv
<1> QED  BY <1>1, <1>2, <1>3, <1>4, PollsKept, PostsKept DEF IInv

\* Opening, choosing and reading again look at an approval.
LEMMA LookStep ==
    ASSUME IInv,
           \/ \E a \in Approval : openMergeApprovalDialog(a) \/ Choose(a)
           \/ repreviewMergeApproval
    PROVE  IInv'
<1>0. dialog \in Dialog(Asked)
  BY DEF IInv, DialogOK
<1>1. ASSUME NEW a \in Approval, openMergeApprovalDialog(a) PROVE IInv'
  <2>1. a \in Asked
    BY <1>1 DEF openMergeApprovalDialog, Asked
  <2>2. /\ dialog' \in Dialog(Asked) /\ dialog'.screen = dialog.screen
        /\ dialog'.blocked = dialog.blocked /\ dialog'.scrolled = FALSE
    BY <1>0, <1>1 DEF openMergeApprovalDialog, Dialog
  <2>3. Act /\ Load(a, "look") /\ UNCHANGED <<server, polls, posts, since>>
    BY <1>1 DEF openMergeApprovalDialog
  <2> QED  BY <2>1, <2>2, <2>3, OwnerLooks
<1>2. ASSUME NEW a \in Approval, Choose(a) PROVE IInv'
  <2>1. a \in Asked
    BY <1>2 DEF Choose, Asked
  <2>2. /\ dialog' \in Dialog(Asked) /\ dialog'.screen = dialog.screen
        /\ dialog'.blocked = dialog.blocked /\ dialog'.scrolled = FALSE
    BY <1>0, <1>2 DEF Choose, Dialog
  <2>3. Act /\ Load(a, "look") /\ UNCHANGED <<server, polls, posts, since>>
    BY <1>2 DEF Choose
  <2> QED  BY <2>1, <2>2, <2>3, OwnerLooks
<1>3. ASSUME repreviewMergeApproval PROVE IInv'
  <2>1. dialog.screen.id \in Asked
    BY <1>0, <1>3 DEF repreviewMergeApproval, Dialog, Screen
  <2>2. /\ dialog' \in Dialog(Asked) /\ dialog'.screen = dialog.screen
        /\ dialog'.blocked = dialog.blocked /\ dialog'.scrolled = FALSE
    BY <1>0, <1>3 DEF repreviewMergeApproval, Dialog
  <2>3. Act /\ Load(dialog.screen.id, "look") /\ UNCHANGED <<server, polls, posts, since>>
    BY <1>3 DEF repreviewMergeApproval
  <2> QED  BY <2>1, <2>2, <2>3, OwnerLooks
<1> QED  BY <1>1, <1>2, <1>3

\* A step of the owner at the dialog alone, that draws nothing.
LEMMA OwnerMoves ==
    ASSUME IInv, UNCHANGED <<server, calls>>, Act,
           DialogOK', read \subseteq read'
    PROVE  IInv'
<1>1. Rows' /\ World' /\ Asked' = Asked
  BY ServerKept
<1>2. Grows /\ loads' = loads /\ polls' = polls /\ posts' = posts
  BY <1>1 DEF Grows, calls
<1> QED  BY <1>1, <1>2, LoadsKept, PollsKept, PostsKept DEF IInv

\* Closing, typing and scrolling.
LEMMA HandStep ==
    ASSUME IInv, closeMergeApprovalDialog \/ Type \/ ScrollToEnd
    PROVE  IInv'
<1>0. dialog \in Dialog(Asked) /\ DialogOK
  BY DEF IInv, DialogOK
<1>00. UNCHANGED server /\ Act /\ UNCHANGED calls
  BY DEF closeMergeApprovalDialog, Type, ScrollToEnd
<1>01. Asked' = Asked
  BY <1>00, ServerKept
<1>1. CASE closeMergeApprovalDialog
  <2>1. /\ dialog' \in Dialog(Asked') /\ dialog'.screen = NONE /\ dialog'.scrolled = FALSE
    BY <1>0, <1>01, <1>1 DEF closeMergeApprovalDialog, Dialog
  <2>2. drawn' = drawn /\ read' = read /\ typedFor' = typedFor
    BY <1>1 DEF closeMergeApprovalDialog, since
  <2>3. DialogOK'
    <3>1. typedFor' \in Approval \cup {NONE}
      BY <1>0, <2>2 DEF DialogOK
    <3> QED  BY <1>0, <2>1, <2>2, <3>1, Undrawn
  <2> QED  BY <1>00, <2>2, <2>3, OwnerMoves
<1>2. CASE Type
  <2>1. /\ dialog' \in Dialog(Asked') /\ dialog'.screen = dialog.screen
        /\ dialog'.blocked = dialog.blocked /\ dialog'.scrolled = dialog.scrolled
        /\ dialog'.open = dialog.open
    BY <1>0, <1>01, <1>2 DEF Type, Dialog
  <2>2. drawn' = drawn /\ read' = read /\ typedFor' \in Approval \cup {NONE}
    BY <1>0, <1>2 DEF Type, Dialog, Screen, Asked
  <2>3. DialogOK'
    BY <1>0, <2>1, <2>2, Undrawn
  <2> QED  BY <1>00, <2>2, <2>3, OwnerMoves
<1>3. CASE ScrollToEnd
  <2>1. /\ dialog' \in Dialog(Asked') /\ dialog'.screen = dialog.screen
        /\ dialog'.blocked = dialog.blocked
    BY <1>0, <1>01, <1>3 DEF ScrollToEnd, Dialog
  <2>2. drawn' = drawn /\ read' = read \cup {drawn} /\ typedFor' = typedFor
    BY <1>3 DEF ScrollToEnd
  <2>3. DrawnAsShown'
    BY <1>0, <2>1, <2>2 DEF DialogOK, DrawnAsShown
  <2>4. DialogOK'
    BY <1>0, <2>1, <2>2, <2>3 DEF DialogOK, Contents
  <2> QED  BY <1>00, <2>2, <2>4, OwnerMoves
<1> QED  BY <1>1, <1>2, <1>3

\* A call that is sent carries what was drawn when it was sent.
LEMMA Posted ==
    ASSUME IInv, Grows, NEW kind \in {"approve", "reject", "retry"}, Post(kind),
           dialog.screen # NONE,
           kind = "approve" => dialog.open /\ ~dialog.blocked /\ dialog.scrolled
    PROVE  PostsOK'
<1> DEFINE c == [kind |-> kind, id |-> dialog.screen.id, content |-> drawn,
                 phrase |-> typedFor, answer |-> NONE]
<1>1. /\ dialog.screen.id \in Asked /\ drawn \in Contents
      /\ typedFor \in Approval \cup {NONE} /\ DrawnAsShown
  BY DEF IInv, DialogOK, Dialog, Screen
<1>2. c \in PostCall(Asked)
  BY <1>1 DEF PostCall
<1>3. kind = "approve" => drawn = <<dialog.screen.id, TRUE, "clean">> /\ drawn \in read
  BY <1>1 DEF DrawnAsShown
<1>4. c \in Vetted(Asked, read)
  BY <1>2, <1>3 DEF Vetted
<1>5. Vetted(Asked, read) \subseteq Vetted(Asked', read')
  BY Wider DEF Grows
<1>6. posts \in Seq(Vetted(Asked', read')) /\ Len(posts) \in Nat
  BY <1>5, SeqMonotonic DEF IInv, PostsOK
<1>7. Len(posts) < MaxCalls /\ posts' = Append(posts, c)
  BY DEF Post
<1> HIDE DEF c
<1>8. posts' \in Seq(Vetted(Asked', read')) /\ Len(posts') = Len(posts) + 1
  BY <1>4, <1>5, <1>6, <1>7, Sent
<1>9. posts' \in Seq(Vetted(Asked', read')) /\ Len(posts') <= MaxCalls
  BY <1>6, <1>7, <1>8, DialogAssumption
<1> QED  BY <1>9 DEF PostsOK, Vetted, PostCall, Screen, ShownState, ClosedState, Contents, Refused, Decided

\* The owner approves, rejects or asks anew.
LEMMA PostStep ==
    ASSUME IInv, approveMergeIntoMain \/ rejectMergeIntoMain \/ retryMergeApprovalWithFreshSnapshot
    PROVE  IInv'
<1>0. dialog \in Dialog(Asked) /\ DialogOK
  BY DEF IInv, DialogOK
<1>1. UNCHANGED <<server, loads, polls, since>> /\ Act /\ dialog.screen # NONE
  BY DEF approveMergeIntoMain, rejectMergeIntoMain, retryMergeApprovalWithFreshSnapshot
<1>2. Rows' /\ World' /\ Asked' = Asked
  BY <1>1, ServerKept
<1>3. Grows /\ loads' = loads /\ polls' = polls /\ drawn' = drawn /\ read' = read /\ typedFor' = typedFor
  BY <1>1, <1>2 DEF Grows, since
<1>4. LoadsOK' /\ PollsOK'
  BY <1>3, LoadsKept, PollsKept DEF IInv
<1>5. PostsOK'
  <2>1. CASE approveMergeIntoMain
    BY <1>1, <1>3, <2>1, Posted DEF approveMergeIntoMain
  <2>2. CASE rejectMergeIntoMain
    BY <1>1, <1>3, <2>2, Posted DEF rejectMergeIntoMain
  <2>3. CASE retryMergeApprovalWithFreshSnapshot
    BY <1>1, <1>3, <2>3, Posted DEF retryMergeApprovalWithFreshSnapshot
  <2> QED  BY <2>1, <2>2, <2>3
<1>6. /\ dialog' \in Dialog(Asked) /\ dialog'.screen = dialog.screen
      /\ dialog'.blocked = dialog.blocked /\ dialog'.scrolled = dialog.scrolled
      /\ dialog'.open = dialog.open
  <2>1. CASE approveMergeIntoMain
    BY <1>0, <2>1 DEF approveMergeIntoMain, Dialog
  <2>2. CASE rejectMergeIntoMain
    BY <1>0, <2>2 DEF rejectMergeIntoMain
  <2>3. CASE retryMergeApprovalWithFreshSnapshot
    <3> DEFINE d == [dialog EXCEPT !.submitting = TRUE]
    <3>1. /\ d \in Dialog(Asked) /\ d.screen = dialog.screen /\ d.blocked = dialog.blocked
          /\ d.scrolled = dialog.scrolled /\ d.open = dialog.open
      BY <1>0 DEF Dialog
    <3>2. dialog' = updateMergeApprovalGate(d)
      BY <2>3 DEF retryMergeApprovalWithFreshSnapshot
    <3> HIDE DEF d
    <3> QED  BY <3>1, <3>2, GateKeeps
  <2> QED  BY <2>1, <2>2, <2>3
<1>7. DialogOK'
  <2>1. typedFor' \in Approval \cup {NONE} /\ dialog' \in Dialog(Asked')
    BY <1>0, <1>2, <1>3, <1>6 DEF DialogOK
  <2> QED  BY <1>0, <1>3, <1>6, <2>1, Undrawn
<1> QED  BY <1>2, <1>4, <1>5, <1>7 DEF IInv

\* The countdown reaches its end and draws.
LEMMA TickStep ==
    ASSUME IInv, tickMergeApprovalTtl
    PROVE  IInv'
<1>1. Rows' /\ World' /\ Asked' = Asked
  BY ServerKept DEF tickMergeApprovalTtl
<1>2. dialog \in Dialog(Asked') /\ DialogOK /\ Draw(dialog) /\ typedFor' = typedFor
  BY <1>1 DEF IInv, DialogOK, tickMergeApprovalTtl
<1>3. DialogOK' /\ Grows
  BY <1>1, <1>2, Drawn
<1>4. loads' = loads /\ polls' = polls /\ posts' = posts
  BY DEF tickMergeApprovalTtl, calls
<1> QED  BY <1>1, <1>3, <1>4, LoadsKept, PollsKept, PostsKept DEF IInv

-----------------------------------------------------------------------------
(* Answers.                                                                *)

\* The answers of the calls in flight, as they land.
LEMMA LoadTypes ==
    ASSUME LoadsOK, NEW i \in DOMAIN loads
    PROVE  /\ loads[i] \in LoadCall(Asked) /\ loads[i].id \in Asked
           /\ loads[i].then \in {"look", "submit"}
           /\ loads[i].answer \in Answer(Asked) \cup {NONE}
<1>1. loads[i] \in LoadCall(Asked)
  BY LenProperties, ElementOfSeq DEF LoadsOK
<1> QED  BY <1>1 DEF LoadCall

LEMMA PollTypes ==
    ASSUME PollsOK, NEW i \in DOMAIN polls
    PROVE  /\ polls[i] \in PollCall(Asked) /\ polls[i].id \in Asked
           /\ polls[i].answer \in Answer(Asked) \cup {NONE}
<1>1. polls[i] \in PollCall(Asked)
  BY LenProperties, ElementOfSeq DEF PollsOK
<1> QED  BY <1>1 DEF PollCall

LEMMA PostTypes ==
    ASSUME PostsOK, NEW i \in DOMAIN posts
    PROVE  /\ posts[i] \in PostCall(Asked) /\ posts[i] \in Vetted(Asked, read)
           /\ posts[i].id \in Asked
           /\ posts[i].kind \in {"approve", "reject", "retry"}
           /\ posts[i].answer \in Screen(Asked) \cup {Refused, NONE}
<1>1. posts[i] \in Vetted(Asked, read)
  BY LenProperties, ElementOfSeq DEF PostsOK
<1>2. posts[i] \in PostCall(Asked)
  BY <1>1 DEF Vetted
<1> QED  BY <1>1, <1>2 DEF PostCall

\* The call that a landing takes away.
LEMMA LoadsLanded ==
    ASSUME LoadsOK, Grows, NEW i \in DOMAIN loads, loads' = RemoveAt(loads, i)
    PROVE  LoadsOK'
<1>1. loads' \in Seq(LoadCall(Asked)) /\ Len(loads') <= Len(loads) /\ Len(loads) \in Nat
  BY Landed DEF LoadsOK
<1>2. LoadCall(Asked) \subseteq LoadCall(Asked')
  BY Wider DEF Grows
<1>3. loads' \in Seq(LoadCall(Asked')) /\ Len(loads') \in Nat
  BY <1>1, <1>2, SeqMonotonic
<1>4. Len(loads') <= MaxCalls
  BY <1>1, <1>3, DialogAssumption DEF LoadsOK
<1> QED  BY <1>3, <1>4 DEF LoadsOK, LoadCall, Answer, ShownState, ClosedState

LEMMA PollsLanded ==
    ASSUME PollsOK, Grows, NEW i \in DOMAIN polls, polls' = RemoveAt(polls, i)
    PROVE  PollsOK'
<1>1. polls' \in Seq(PollCall(Asked)) /\ Len(polls') <= Len(polls) /\ Len(polls) \in Nat
  BY Landed DEF PollsOK
<1>2. PollCall(Asked) \subseteq PollCall(Asked')
  BY Wider DEF Grows
<1>3. polls' \in Seq(PollCall(Asked')) /\ Len(polls') \in Nat
  BY <1>1, <1>2, SeqMonotonic
<1>4. Len(polls') <= MaxCalls
  BY <1>1, <1>3, DialogAssumption DEF PollsOK
<1> QED  BY <1>3, <1>4 DEF PollsOK, PollCall, Answer, Screen, ShownState, ClosedState

LEMMA PostsLanded ==
    ASSUME PostsOK, Grows, NEW i \in DOMAIN posts, posts' = RemoveAt(posts, i)
    PROVE  PostsOK'
<1>1. posts' \in Seq(Vetted(Asked, read)) /\ Len(posts') <= Len(posts) /\ Len(posts) \in Nat
  BY Landed DEF PostsOK
<1>2. Vetted(Asked, read) \subseteq Vetted(Asked', read')
  BY Wider DEF Grows
<1>3. posts' \in Seq(Vetted(Asked', read')) /\ Len(posts') \in Nat
  BY <1>1, <1>2, SeqMonotonic
<1>4. Len(posts') <= MaxCalls
  BY <1>1, <1>3, DialogAssumption DEF PostsOK
<1> QED  BY <1>3, <1>4 DEF PostsOK, Vetted, PostCall, Screen, ShownState, ClosedState, Contents, Refused, Decided

\* The gate at the end of a submission changes nothing that was drawn.
LEMMA EndsKeeps ==
    ASSUME NEW A, NEW d \in Dialog(A), NEW then
    PROVE  /\ Ends(d, then) \in Dialog(A)
           /\ Ends(d, then).open = d.open /\ Ends(d, then).screen = d.screen
           /\ Ends(d, then).blocked = d.blocked /\ Ends(d, then).scrolled = d.scrolled
<1> DEFINE e == [d EXCEPT !.submitting = FALSE]
<1>1. /\ e \in Dialog(A) /\ e.open = d.open /\ e.screen = d.screen
      /\ e.blocked = d.blocked /\ e.scrolled = d.scrolled
  BY DEF Dialog
<1>2. Ends(d, then) = updateMergeApprovalGate(e) \/ Ends(d, then) = d
  BY DEF Ends
<1> HIDE DEF e
<1> QED  BY <1>1, <1>2, GateKeeps

\* The dialog when nothing is drawn and only its flags move.
LEMMA FlagsMove ==
    ASSUME DialogOK, Asked' = Asked, dialog' \in Dialog(Asked),
           dialog'.screen = dialog.screen, dialog'.blocked = dialog.blocked,
           dialog'.scrolled => dialog.scrolled, dialog'.open = dialog.open,
           UNCHANGED since
    PROVE  DialogOK' /\ Grows
<1>1. drawn' = drawn /\ read' = read /\ typedFor' = typedFor
  BY DEF since
<1>2. typedFor' \in Approval \cup {NONE} /\ dialog' \in Dialog(Asked')
  BY <1>1 DEF DialogOK
<1>3. DialogOK'
  BY <1>1, <1>2, Undrawn
<1> QED  BY <1>1, <1>3 DEF Grows

\* The server answers an inspection.
LEMMA ServeReadStep ==
    ASSUME IInv, NEW i \in 1..MaxCalls, ServeLoad(i) \/ ServeRepoll(i)
    PROVE  IInv'
<1>1. CASE ServeLoad(i)
  <2>1. i \in DOMAIN loads
    BY <1>1 DEF ServeLoad, Waits
  <2>2. loads[i] \in LoadCall(Asked) /\ loads[i].id \in Asked
    BY <2>1, LoadTypes DEF IInv
  <2>3. /\ Rows' /\ Asked' = Asked /\ Inspected(loads[i].id) \in Answer(Asked)
    BY <1>1, <2>2, Inspects DEF IInv, ServeLoad
  <2>4. UNCHANGED <<late, clash, dialog, polls, posts, acts, since>>
    BY <1>1 DEF ServeLoad
  <2>5. Grows /\ World'
    BY <2>3, <2>4 DEF Grows, since, IInv, World
  <2>6. LoadsOK'
    <3> DEFINE x == Inspected(loads[i].id)
    <3>0. loads \in Seq(LoadCall(Asked)) /\ Len(loads) <= MaxCalls
      BY DEF IInv, LoadsOK
    <3>1. [loads[i] EXCEPT !.answer = x] \in LoadCall(Asked)
      BY <2>2, <2>3 DEF LoadCall
    <3>2. loads' = Answered(loads, i, x)
      BY <1>1 DEF ServeLoad
    <3> HIDE DEF x
    <3>3. loads' \in Seq(LoadCall(Asked)) /\ Len(loads') = Len(loads)
      BY <2>1, <3>0, <3>1, <3>2, AnswerKeeps
    <3>4. loads' \in Seq(LoadCall(Asked')) /\ Len(loads') <= MaxCalls
      BY <2>3, <3>0, <3>3
    <3> QED  BY <3>4 DEF LoadsOK, LoadCall, Answer, ShownState, ClosedState
  <2> QED  BY <2>3, <2>4, <2>5, <2>6, DialogKept, PollsKept, PostsKept DEF IInv
<1>2. CASE ServeRepoll(i)
  <2>1. i \in DOMAIN polls
    BY <1>2 DEF ServeRepoll, Waits
  <2>2. polls[i] \in PollCall(Asked) /\ polls[i].id \in Asked
    BY <2>1, PollTypes DEF IInv
  <2>3. /\ Rows' /\ Asked' = Asked /\ Inspected(polls[i].id) \in Answer(Asked)
    BY <1>2, <2>2, Inspects DEF IInv, ServeRepoll
  <2>4. UNCHANGED <<late, clash, dialog, loads, posts, acts, since>>
    BY <1>2 DEF ServeRepoll
  <2>5. Grows /\ World'
    BY <2>3, <2>4 DEF Grows, since, IInv, World
  <2>6. PollsOK'
    <3> DEFINE x == Inspected(polls[i].id)
    <3>0. polls \in Seq(PollCall(Asked)) /\ Len(polls) <= MaxCalls
      BY DEF IInv, PollsOK
    <3>1. [polls[i] EXCEPT !.answer = x] \in PollCall(Asked)
      BY <2>2, <2>3 DEF PollCall
    <3>2. polls' = Answered(polls, i, x)
      BY <1>2 DEF ServeRepoll
    <3> HIDE DEF x
    <3>3. polls' \in Seq(PollCall(Asked)) /\ Len(polls') = Len(polls)
      BY <2>1, <3>0, <3>1, <3>2, AnswerKeeps
    <3>4. polls' \in Seq(PollCall(Asked')) /\ Len(polls') <= MaxCalls
      BY <2>3, <3>0, <3>3
    <3> QED  BY <3>4 DEF PollsOK, PollCall, Answer, Screen, ShownState, ClosedState
  <2> QED  BY <2>3, <2>4, <2>5, <2>6, DialogKept, LoadsKept, PostsKept DEF IInv
<1> QED  BY <1>1, <1>2

\* An answer of loadMergeApproval lands, or none comes.
LEMMA LandLoadStep ==
    ASSUME IInv, NEW i \in 1..MaxCalls, LandLoad(i) \/ LoadFails(i)
    PROVE  IInv'
<1>0. dialog \in Dialog(Asked) /\ DialogOK
  BY DEF IInv, DialogOK
<1>1. UNCHANGED <<server, polls, posts>> /\ (acts' = acts \/ Act) /\ i \in DOMAIN loads
      /\ loads' = RemoveAt(loads, i)
  BY DEF LandLoad, LoadFails, Ready
<1>2. Rows' /\ World' /\ Asked' = Asked
  BY <1>1, ServerKept
<1>3. DialogOK' /\ Grows
  <2>1. CASE LandLoad(i)
    <3> DEFINE x == loads[i].answer
               kept == dialog.typed /\ dialog.inputFor = x.id
               over == x.state # "requested"
               d == [dialog EXCEPT !.typed = kept, !.inputFor = x.id,
                                   !.screen = Shown(x), !.valid = x.valid, !.scan = x.scan,
                                   !.decided = over]
    <3>1. x \in Answer(Asked)
      BY <1>1, <2>1, LoadTypes DEF IInv, LandLoad, Ready
    <3>2. Draw(Ends(d, loads[i].then)) /\ typedFor' = typedFor
      BY <2>1 DEF LandLoad
    <3>3. Shown(x) \in Screen(Asked) /\ x.valid \in BOOLEAN /\ x.scan \in {"clean", "clash"} /\ x.id \in Asked
      BY <3>1 DEF Shown, Answer, Screen
    <3>4. d \in Dialog(Asked)
      <4>1. kept \in BOOLEAN /\ over \in BOOLEAN
        OBVIOUS
      <4> HIDE DEF x, kept, over
      <4> QED  BY <1>0, <3>3, <4>1 DEF Dialog
    <3> HIDE DEF d
    <3>5. Ends(d, loads[i].then) \in Dialog(Asked')
      BY <1>2, <3>4, EndsKeeps
    <3> QED  BY <1>0, <1>2, <3>2, <3>5, Drawn
  <2>2. CASE LoadFails(i)
    <3>1. dialog' = Ends(dialog, loads[i].then) /\ UNCHANGED since
      BY <2>2 DEF LoadFails
    <3>2. /\ dialog' \in Dialog(Asked) /\ dialog'.screen = dialog.screen
          /\ dialog'.blocked = dialog.blocked /\ dialog'.scrolled = dialog.scrolled
          /\ dialog'.open = dialog.open
      BY <1>0, <3>1, EndsKeeps
    <3> QED  BY <1>0, <1>2, <3>1, <3>2, FlagsMove
  <2> QED  BY <2>1, <2>2
<1>4. LoadsOK'
  BY <1>1, <1>3, LoadsLanded DEF IInv
<1> QED  BY <1>1, <1>2, <1>3, <1>4, PollsKept, PostsKept DEF IInv

\* The poll is sent, lands, or is lost.
LEMMA RepollStep ==
    ASSUME IInv, Repoll
    PROVE  IInv'
<1>0. dialog \in Dialog(Asked) /\ DialogOK
  BY DEF IInv, DialogOK
<1>1. UNCHANGED <<server, loads, posts, acts, since>> /\ dialog.screen # NONE
  BY DEF Repoll
<1>2. Rows' /\ World' /\ Asked' = Asked
  BY <1>1, ServerKept
<1>3. /\ dialog' \in Dialog(Asked) /\ dialog'.screen = dialog.screen
      /\ dialog'.blocked = dialog.blocked /\ dialog'.scrolled = dialog.scrolled
      /\ dialog'.open = dialog.open
  BY <1>0 DEF Repoll, Dialog
<1>4. DialogOK' /\ Grows
  BY <1>0, <1>1, <1>2, <1>3, FlagsMove
<1>5. PollsOK'
  <2> DEFINE c == [id |-> dialog.screen.id, was |-> dialog.screen, answer |-> NONE]
  <2>1. dialog.screen \in Screen(Asked) /\ dialog.screen.id \in Asked
    BY <1>0, <1>1 DEF Dialog, Screen
  <2>2. c \in PollCall(Asked)
    BY <2>1 DEF PollCall
  <2>3. polls \in Seq(PollCall(Asked)) /\ Len(polls) \in Nat
    BY DEF IInv, PollsOK
  <2>4. Len(polls) < MaxCalls /\ polls' = Append(polls, c)
    BY DEF Repoll
  <2> HIDE DEF c
  <2>5. polls' \in Seq(PollCall(Asked)) /\ Len(polls') = Len(polls) + 1
    BY <2>2, <2>3, <2>4, Sent
  <2>6. polls' \in Seq(PollCall(Asked')) /\ Len(polls') <= MaxCalls
    BY <1>2, <2>3, <2>4, <2>5, DialogAssumption
  <2> QED  BY <2>6 DEF PollsOK, PollCall, Answer, Screen, ShownState, ClosedState
<1> QED  BY <1>1, <1>2, <1>4, <1>5, LoadsKept, PostsKept DEF IInv

LEMMA LandRepollStep ==
    ASSUME IInv, NEW i \in 1..MaxCalls, LandRepoll(i) \/ RepollFails(i)
    PROVE  IInv'
<1>0. dialog \in Dialog(Asked) /\ DialogOK
  BY DEF IInv, DialogOK
<1>1. UNCHANGED <<server, loads, posts>> /\ (acts' = acts \/ Act) /\ i \in DOMAIN polls
      /\ polls' = RemoveAt(polls, i)
  BY DEF LandRepoll, RepollFails, Ready
<1>2. Rows' /\ World' /\ Asked' = Asked
  BY <1>1, ServerKept
<1>3. CASE dialog' = [dialog EXCEPT !.polling = FALSE] /\ UNCHANGED since
  <2>1. /\ dialog' \in Dialog(Asked) /\ dialog'.screen = dialog.screen
        /\ dialog'.blocked = dialog.blocked /\ dialog'.scrolled = dialog.scrolled
        /\ dialog'.open = dialog.open
    BY <1>0, <1>3 DEF Dialog
  <2>2. DialogOK' /\ Grows
    BY <1>0, <1>2, <1>3, <2>1, FlagsMove
  <2> QED  BY <1>1, <1>2, <2>2, PollsLanded, LoadsKept, PostsKept DEF IInv
<1>4. CASE LandRepoll(i) /\ ~Unchanged(polls[i])
  <2> DEFINE x == polls[i].answer
             d == [dialog EXCEPT !.screen = Shown(x), !.valid = x.valid,
                                 !.scan = x.scan, !.polling = FALSE]
  <2>1. x \in Answer(Asked)
    BY <1>1, <1>4, PollTypes DEF IInv, LandRepoll, Ready
  <2>2. Draw(d) /\ typedFor' = typedFor
    BY <1>4 DEF LandRepoll
  <2>3. Shown(x) \in Screen(Asked) /\ x.valid \in BOOLEAN /\ x.scan \in {"clean", "clash"}
    BY <2>1 DEF Shown, Answer, Screen
  <2>4. d \in Dialog(Asked')
    <3> HIDE DEF x
    <3> QED  BY <1>0, <1>2, <2>3 DEF Dialog
  <2> HIDE DEF d
  <2>5. DialogOK' /\ Grows
    BY <1>0, <1>2, <2>2, <2>4, Drawn
  <2> QED  BY <1>1, <1>2, <2>5, PollsLanded, LoadsKept, PostsKept DEF IInv
<1> QED  BY <1>3, <1>4 DEF LandRepoll, RepollFails, since

-----------------------------------------------------------------------------
(* Rulings.                                                                *)

\* An answer about an approval that was asked for can be shown.
LEMMA DecidedShows ==
    ASSUME NEW A, NEW a \in A, NEW s \in ShownState
    PROVE  Decided(a, s) \in Screen(A)
  BY DEF Decided, Screen

\* The server rules on an approval.
LEMMA Approves ==
    ASSUME Rows, NEW a \in Asked, NEW answer, approveAndPromoteMainMerge(a, answer)
    PROVE  Rows' /\ Asked' = Asked /\ answer \in Screen(Asked) \cup {Refused}
<1>0. /\ status \in [Task -> {"completed", "merged"}]
      /\ main \in [log: Seq(Task \cup {Own}), left: Approval \cup {NONE}]
      /\ appr[a].task \in Task /\ "consumed" \in ShownState
  BY DEF Rows, ApprovalTypeOK, ShownState, ClosedState
<1>1. Decided(a, "consumed") \in Screen(Asked)
  BY <1>0, DecidedShows
<1>2. CASE /\ Closes(a, "consumed") /\ answer = Decided(a, "consumed")
           /\ \/ /\ status' = [status EXCEPT ![appr[a].task] = "merged"]
                 /\ main' = [main EXCEPT !.log = Append(@, appr[a].task)]
              \/ UNCHANGED <<status, main>>
  <2>1. status' \in [Task -> {"completed", "merged"}]
    BY <1>0, <1>2
  <2>2. main' \in [log: Seq(Task \cup {Own}), left: Approval \cup {NONE}]
    <3>1. CASE main' = [main EXCEPT !.log = Append(@, appr[a].task)]
      <4>1. Append(main.log, appr[a].task) \in Seq(Task \cup {Own})
        BY <1>0
      <4> QED  BY <1>0, <3>1, <4>1
    <3> QED  BY <1>0, <1>2, <3>1
  <2>3. Rows' /\ Asked' = Asked
    BY <1>0, <1>2, <2>1, <2>2, Moved DEF Closes
  <2> QED  BY <1>1, <1>2, <2>3
<1>3. CASE answer = Decided(a, "consumed") /\ UNCHANGED <<appr, status, main>>
  BY <1>0, <1>1, <1>3, RowsKept
<1>4. CASE /\ answer = Refused /\ UNCHANGED <<status, main>>
           /\ \/ UNCHANGED appr
              \/ \E s \in {"expired", "invalidated", "rejected"} : Closes(a, s)
  <2>1. CASE UNCHANGED appr
    BY <1>0, <1>4, <2>1, RowsKept
  <2>2. ASSUME NEW s \in {"expired", "invalidated", "rejected"}, Closes(a, s)
        PROVE  Rows' /\ Asked' = Asked
    <3>1. s \in ShownState
      BY DEF ShownState, ClosedState
    <3> QED  BY <1>0, <1>4, <2>2, <3>1, Moved DEF Closes
  <2> QED  BY <1>4, <2>1, <2>2
<1> HIDE DEF Decided, Refused, Closes
<1>5. CASE /\ appr[a].state # "requested" \/ a \in late \/ Changed(a) \/ a \in clash
           /\ answer = Refused /\ UNCHANGED <<status, main>>
           /\ IF appr[a].state # "requested" THEN UNCHANGED appr
              ELSE Closes(a, IF a \in late THEN "expired"
                             ELSE IF Changed(a) THEN "invalidated" ELSE "rejected")
  <2>1. UNCHANGED appr \/ Closes(a, "expired") \/ Closes(a, "invalidated") \/ Closes(a, "rejected")
    BY <1>5
  <2> QED  BY <1>4, <1>5, <2>1
<1> QED  BY <1>2, <1>3, <1>5 DEF approveAndPromoteMainMerge

LEMMA Rejects ==
    ASSUME Rows, NEW a \in Asked, NEW answer, rejectMerge(a, answer)
    PROVE  Rows' /\ Asked' = Asked /\ answer \in Screen(Asked) \cup {Refused}
<1>0. /\ status' \in [Task -> {"completed", "merged"}]
      /\ main' \in [log: Seq(Task \cup {Own}), left: Approval \cup {NONE}]
      /\ "rejected" \in ShownState
  BY DEF Rows, ApprovalTypeOK, ShownState, ClosedState, rejectMerge
<1>1. Decided(a, "rejected") \in Screen(Asked)
  BY <1>0, DecidedShows
<1>2. CASE Closes(a, "rejected") /\ answer = Decided(a, "rejected")
  BY <1>0, <1>1, <1>2, Moved DEF Closes
<1>3. CASE answer = Refused /\ UNCHANGED appr
  BY <1>0, <1>3, RowsKept
<1> HIDE DEF Decided, Refused, Closes
<1> QED  BY <1>2, <1>3 DEF rejectMerge

\* The sweep closes open rows of a task and asks for nothing.
LEMMA Sweeps ==
    ASSUME Rows, NEW t
    PROVE  /\ Swept(t) \in [Approval -> ApprovalRow]
           /\ \A b \in Approval : /\ Swept(t)[b].task = appr[b].task
                                  /\ b \in Asked <=> Swept(t)[b].state # "none"
                                  /\ b \in Asked => Swept(t)[b].state \in ShownState
<1>1. appr \in [Approval -> ApprovalRow] /\ \A a \in Asked : appr[a].state \in ShownState
  BY DEF Rows, ApprovalTypeOK
<1>2. ASSUME NEW b \in Approval
      PROVE  /\ Swept(t)[b] \in ApprovalRow /\ Swept(t)[b].task = appr[b].task
             /\ b \in Asked <=> Swept(t)[b].state # "none"
             /\ b \in Asked => Swept(t)[b].state \in ShownState
  <2>0. appr[b] \in ApprovalRow
    BY <1>1
  <2>1. CASE b \in openMergeApproval(t) /\ b \in late
    <3>1. Swept(t)[b] = [appr[b] EXCEPT !.state = "expired"]
      BY <2>1 DEF Swept
    <3>2. appr[b].state \in OpenState
      BY <2>1 DEF openMergeApproval
    <3> QED  BY <2>0, <3>1, <3>2 DEF ApprovalRow, Asked, OpenState, ClosedState, ShownState
  <2>2. CASE ~(b \in openMergeApproval(t) /\ b \in late)
    <3>1. Swept(t)[b] = appr[b]
      BY <2>2 DEF Swept
    <3> QED  BY <1>1, <2>0, <3>1 DEF Asked
  <2> QED  BY <2>1, <2>2
<1>3. Swept(t) = [b \in Approval |-> Swept(t)[b]]
  BY DEF Swept
<1> HIDE DEF Swept
<1> QED  BY <1>2, <1>3

LEMMA Retries ==
    ASSUME Rows, NEW a \in Asked, NEW answer, retryMerge(a, answer)
    PROVE  Rows' /\ Asked \subseteq Asked' /\ answer \in Screen(Asked') \cup {Refused}
<1> DEFINE t == appr[a].task
<1>0. /\ status' = status /\ main' = main
      /\ status \in [Task -> {"completed", "merged"}]
      /\ main \in [log: Seq(Task \cup {Own}), left: Approval \cup {NONE}]
      /\ t \in Task /\ appr \in [Approval -> ApprovalRow]
      /\ \A b \in Asked : appr[b].task \in Task /\ appr[b].state \in ShownState
  BY DEF Rows, ApprovalTypeOK, retryMerge
<1>1. /\ Swept(t) \in [Approval -> ApprovalRow]
      /\ \A b \in Approval : /\ Swept(t)[b].task = appr[b].task
                             /\ b \in Asked <=> Swept(t)[b].state # "none"
                             /\ b \in Asked => Swept(t)[b].state \in ShownState
  BY Sweeps
<1>2. "requested" \in ShownState
  BY DEF ShownState
<1>3. CASE answer = Refused /\ appr' = appr
  BY <1>0, <1>3, RowsKept
<1>4. CASE answer = Refused /\ appr' = Swept(t)
  <2>1. Asked' = Asked
    BY <1>1, <1>4, AskedThen DEF Asked
  <2>2. \A b \in Asked' : appr'[b].task \in Task /\ appr'[b].state \in ShownState
    BY <1>0, <1>1, <1>4, <2>1 DEF Asked
  <2>3. ApprovalTypeOK'
    BY <1>0, <1>1, <1>4 DEF ApprovalTypeOK, ApprovalRow, OpenState, ClosedState
  <2> QED  BY <1>4, <2>1, <2>2, <2>3 DEF Rows, ShownState, ClosedState
<1>5. ASSUME NEW b \in Approval, answer = Decided(b, "requested"),
             appr' = [Swept(t) EXCEPT ![b] = [task |-> t, state |-> "requested",
                                              base |-> main.log]]
      PROVE  Rows' /\ Asked \subseteq Asked' /\ answer \in Screen(Asked') \cup {Refused}
  <2> DEFINE r == [task |-> t, state |-> "requested", base |-> main.log]
  <2>1. r \in ApprovalRow /\ r.task = t /\ r.state = "requested"
    BY <1>0 DEF ApprovalRow, OpenState
  <2>2. appr' = [Swept(t) EXCEPT ![b] = r]
    BY <1>5
  <2> HIDE DEF r, t
  <2>3. /\ appr' \in [Approval -> ApprovalRow]
        /\ \A c \in Approval : appr'[c] = IF c = b THEN r ELSE Swept(t)[c]
    BY <1>1, <2>1, <2>2
  <2>4. Asked \subseteq Asked' /\ b \in Asked'
    BY <1>1, <2>1, <2>3, AskedThen DEF Asked
  <2>5. \A c \in Asked' : appr'[c].task \in Task /\ appr'[c].state \in ShownState
    BY <1>0, <1>1, <1>2, <2>1, <2>3, AskedThen DEF Asked
  <2>6. ApprovalTypeOK'
    BY <1>0, <2>3 DEF ApprovalTypeOK, ApprovalRow, OpenState, ClosedState
  <2>7. answer \in Screen(Asked')
    BY <1>2, <1>5, <2>4, DecidedShows
  <2> QED  BY <2>4, <2>5, <2>6, <2>7 DEF Rows, ShownState, ClosedState
<1>6. \/ answer = Refused /\ (appr' = appr \/ appr' = Swept(t))
      \/ \E b \in Approval : /\ answer = Decided(b, "requested")
                             /\ appr' = [Swept(t) EXCEPT ![b] =
                                    [task |-> t, state |-> "requested", base |-> main.log]]
  BY DEF retryMerge
<1> QED  BY <1>3, <1>4, <1>5, <1>6

LEMMA ServePostStep ==
    ASSUME IInv, NEW i \in 1..MaxCalls, ServePost(i)
    PROVE  IInv'
<1>1. i \in DOMAIN posts /\ UNCHANGED <<late, clash, dialog, loads, polls, acts, since>>
  BY DEF ServePost, Waits
<1>2. /\ posts[i] \in PostCall(Asked) /\ posts[i] \in Vetted(Asked, read)
      /\ posts[i].id \in Asked /\ posts[i].kind \in {"approve", "reject", "retry"}
  BY <1>1, PostTypes DEF IInv
<1>3. PICK answer :
          /\ \/ posts[i].kind = "approve" /\ approveAndPromoteMainMerge(posts[i].id, answer)
             \/ posts[i].kind = "reject" /\ rejectMerge(posts[i].id, answer)
             \/ posts[i].kind = "retry" /\ retryMerge(posts[i].id, answer)
          /\ posts' = Answered(posts, i, answer)
  BY DEF ServePost
<1>4. Rows' /\ Asked \subseteq Asked' /\ answer \in Screen(Asked') \cup {Refused}
  BY <1>2, <1>3, Approves, Rejects, Retries DEF IInv
<1>5. Grows /\ World' /\ read' = read
  BY <1>1, <1>4 DEF Grows, since, IInv, World
<1>6. PostsOK'
  <2>1. Vetted(Asked, read) \subseteq Vetted(Asked', read')
    BY <1>5, Wider DEF Grows
  <2>2. posts \in Seq(Vetted(Asked', read')) /\ Len(posts) <= MaxCalls
    BY <2>1, SeqMonotonic DEF IInv, PostsOK
  <2>3. posts[i] \in Vetted(Asked', read')
    BY <1>2, <2>1
  <2>4. [posts[i] EXCEPT !.answer = answer] \in Vetted(Asked', read')
    BY <1>4, <2>3 DEF Vetted, PostCall
  <2>5. posts' \in Seq(Vetted(Asked', read')) /\ Len(posts') <= MaxCalls
    BY <1>1, <1>3, <2>2, <2>4, AnswerKeeps
  <2> QED  BY <2>5 DEF PostsOK, Vetted, PostCall, Screen, ShownState, ClosedState, Contents, Refused, Decided
<1> QED  BY <1>1, <1>4, <1>5, <1>6, DialogKept, LoadsKept, PollsKept DEF IInv

-----------------------------------------------------------------------------
(* A ruling lands.                                                         *)

\* After a refusal, or without an answer, nothing is drawn yet.
LEMMA Disappointed ==
    ASSUME IInv, Asked' = Asked, NEW c \in PostCall(Asked), Disappoints(c), typedFor' = typedFor
    PROVE  DialogOK' /\ Grows /\ LoadsOK'
<1>0. dialog \in Dialog(Asked) /\ DialogOK /\ LoadsOK
  BY DEF IInv, DialogOK
<1>1. CASE c.kind = "retry"
  <2> DEFINE d == [dialog EXCEPT !.submitting = FALSE]
  <2>1. dialog' = updateMergeApprovalGate(d) /\ UNCHANGED since /\ loads' = loads
    BY <1>1 DEF Disappoints, since
  <2>2. /\ d \in Dialog(Asked) /\ d.screen = dialog.screen /\ d.blocked = dialog.blocked
        /\ d.scrolled = dialog.scrolled /\ d.open = dialog.open
    BY <1>0 DEF Dialog
  <2> HIDE DEF d
  <2>3. /\ dialog' \in Dialog(Asked) /\ dialog'.screen = dialog.screen
        /\ dialog'.blocked = dialog.blocked /\ dialog'.scrolled = dialog.scrolled
        /\ dialog'.open = dialog.open
    BY <2>1, <2>2, GateKeeps
  <2>4. DialogOK' /\ Grows
    BY <1>0, <2>1, <2>3, FlagsMove
  <2> QED  BY <1>0, <2>1, <2>4, LoadsKept
<1>2. CASE c.kind # "retry"
  <2>1. UNCHANGED <<dialog, since>> /\ Load(c.id, IF c.kind = "approve" THEN "submit" ELSE "look")
    BY <1>2 DEF Disappoints, since
  <2>2. Grows
    BY <2>1 DEF Grows, since
  <2>3. c.id \in Asked'
    BY DEF PostCall
  <2> QED  BY <1>0, <2>1, <2>2, <2>3, DialogKept, Loads
<1> QED  BY <1>1, <1>2

LEMMA LandPostStep ==
    ASSUME IInv, NEW i \in 1..MaxCalls, LandPost(i) \/ PostFails(i)
    PROVE  IInv'
<1>0. dialog \in Dialog(Asked) /\ DialogOK /\ LoadsOK
  BY DEF IInv, DialogOK
<1>1. /\ UNCHANGED <<server, polls>> /\ (acts' = acts \/ Act) /\ i \in DOMAIN posts
      /\ posts' = RemoveAt(posts, i) /\ typedFor' = typedFor
  BY DEF LandPost, PostFails, Ready
<1>2. Rows' /\ World' /\ Asked' = Asked
  BY <1>1, ServerKept
<1>3. posts[i] \in PostCall(Asked) /\ posts[i].answer \in Screen(Asked) \cup {Refused, NONE}
  BY <1>1, PostTypes DEF IInv
<1>4. DialogOK' /\ Grows /\ LoadsOK'
  <2>1. CASE Disappoints(posts[i])
    BY <1>1, <1>2, <1>3, <2>1, Disappointed
  <2>2. CASE LandPost(i) /\ posts[i].answer # Refused
    <3> DEFINE c == posts[i]
    <3>1. c.answer \in Screen(Asked)
      BY <1>3, <2>2 DEF LandPost, Ready
    <3>2. CASE c.kind = "retry"
      <4>1. /\ dialog' = [dialog EXCEPT !.inputFor = NONE, !.typed = FALSE,
                                        !.decided = FALSE, !.scrolled = FALSE,
                                        !.scan = NONE]
            /\ Load(c.answer.id, "submit") /\ UNCHANGED since
        BY <1>1, <2>2, <3>2 DEF LandPost, since
      <4>2. /\ dialog' \in Dialog(Asked) /\ dialog'.screen = dialog.screen
            /\ dialog'.blocked = dialog.blocked /\ dialog'.scrolled = FALSE
            /\ dialog'.open = dialog.open
        BY <1>0, <4>1 DEF Dialog
      <4>3. DialogOK' /\ Grows
        BY <1>0, <1>2, <4>1, <4>2, FlagsMove
      <4>4. c.answer.id \in Asked'
        BY <1>2, <3>1 DEF Screen
      <4> QED  BY <1>0, <4>1, <4>3, <4>4, Loads
    <3>3. CASE c.kind # "retry"
      <4> DEFINE sub == IF c.kind = "approve" THEN FALSE ELSE dialog.submitting
                 d == [dialog EXCEPT !.screen = c.answer, !.decided = TRUE, !.submitting = sub]
      <4>1. Draw(d) /\ loads' = loads
        BY <2>2, <3>3 DEF LandPost
      <4>2. sub \in BOOLEAN
        BY <1>0 DEF Dialog
      <4>3. d \in Dialog(Asked')
        <5> HIDE DEF sub, c
        <5> QED  BY <1>0, <1>2, <3>1, <4>2 DEF Dialog
      <4> HIDE DEF d
      <4>4. DialogOK' /\ Grows
        BY <1>0, <1>1, <1>2, <4>1, <4>3, Drawn
      <4> QED  BY <1>0, <4>1, <4>4, LoadsKept
    <3> QED  BY <3>2, <3>3
  <2>3. Disappoints(posts[i]) \/ (LandPost(i) /\ posts[i].answer # Refused)
    BY DEF LandPost, PostFails
  <2> QED  BY <2>1, <2>2, <2>3
<1>5. PostsOK'
  BY <1>1, <1>4, PostsLanded DEF IInv
<1> QED  BY <1>1, <1>2, <1>4, <1>5, PollsKept DEF IInv

-----------------------------------------------------------------------------
(* The invariant, and what follows.                                        *)

LEMMA InitHolds == Init => IInv
<1> SUFFICES ASSUME Init PROVE IInv
  OBVIOUS
<1>1. PICK asked \in [Task -> Approval] :
          appr = [a \in Approval |->
                     IF \E t \in Task : asked[t] = a
                     THEN [task |-> CHOOSE t \in Task : asked[t] = a,
                           state |-> "requested", base |-> <<>>]
                     ELSE NoApproval]
  BY DEF Init
<1>2. <<>> \in Seq(Task \cup {Own})
  OBVIOUS
<1>3. \A a \in Approval : (\E t \in Task : asked[t] = a) =>
                             (CHOOSE t \in Task : asked[t] = a) \in Task
  OBVIOUS
<1>4. ASSUME NEW a \in Approval
      PROVE  /\ appr[a] \in ApprovalRow
             /\ a \in Asked => appr[a].task \in Task /\ appr[a].state \in ShownState
  <2>1. CASE \E t \in Task : asked[t] = a
    <3> DEFINE u == CHOOSE t \in Task : asked[t] = a
    <3>1. u \in Task
      BY <1>3, <2>1
    <3>2. appr[a] = [task |-> u, state |-> "requested", base |-> <<>>]
      BY <1>1, <2>1
    <3> HIDE DEF u
    <3> QED  BY <1>2, <3>1, <3>2 DEF ApprovalRow, OpenState, ShownState
  <2>2. CASE ~\E t \in Task : asked[t] = a
    <3>1. appr[a] = NoApproval
      BY <1>1, <2>2
    <3> QED  BY <1>2, <3>1 DEF NoApproval, ApprovalRow, Asked
  <2> QED  BY <2>1, <2>2
<1>5. appr \in [Approval -> ApprovalRow]
  <2>1. appr = [a \in Approval |-> appr[a]]
    BY <1>1
  <2> QED  BY <1>4, <2>1
<1>6. main \in [log: Seq(Task \cup {Own}), left: Approval \cup {NONE}]
  BY <1>2 DEF Init
<1>7. Rows
  BY <1>4, <1>5, <1>6 DEF Init, Rows, ApprovalTypeOK, Asked
<1>8. World
  BY DEF Init, World
<1>9. DialogOK
  <2>1. dialog \in Dialog(Asked) /\ dialog.screen = NONE
    BY DEF Init, Closed, Dialog
  <2> QED  BY <2>1 DEF Init, DialogOK, DrawnAsShown, Contents
<1>10. LoadsOK /\ PollsOK /\ PostsOK
  <2>1. Len(<<>>) = 0 /\ 0 <= MaxCalls
    BY DialogAssumption
  <2> QED  BY <2>1 DEF Init, LoadsOK, PollsOK, PostsOK
<1> QED  BY <1>7, <1>8, <1>9, <1>10 DEF IInv

LEMMA StepHolds == IInv /\ [Next]_vars => IInv'
<1> SUFFICES ASSUME IInv, [Next]_vars PROVE IInv'
  OBVIOUS
<1>1. CASE UNCHANGED vars
  <2>1. UNCHANGED <<server, dialog, calls, since>> /\ acts' = acts
    BY <1>1 DEF vars, server, approvalVars, calls, since
  <2>2. Rows' /\ World' /\ Asked' = Asked
    BY <2>1, ServerKept
  <2> QED  BY <2>1, <2>2, PageKept
<1>2. CASE OwnCommit \/ \E a \in Approval : Elapse(a) \/ FilesChange(a)
  BY <1>2, ProjectStep
<1>3. CASE Owner
  BY <1>3, LookStep, HandStep, PostStep DEF Owner
<1>4. CASE tickMergeApprovalTtl \/ Repoll
  BY <1>4, TickStep, RepollStep
<1>5. ASSUME NEW i \in 1..MaxCalls,
             Reads(i) \/ Polls(i) \/ Rules(i) \/ LoadFails(i) \/ RepollFails(i) \/ PostFails(i)
      PROVE  IInv'
  BY <1>5, ServeReadStep, LandLoadStep, LandRepollStep, ServePostStep, LandPostStep
     DEF Reads, Polls, Rules
<1> QED  BY <1>1, <1>2, <1>3, <1>4, <1>5 DEF Next

\* Every behaviour of the dialog keeps its invariant.
THEOREM Invariant == Spec => []IInv
<1>1. Init => IInv
  BY InitHolds
<1>2. IInv /\ [Next]_vars => IInv'
  BY StepHolds
<1> QED  BY <1>1, <1>2, PTL DEF Spec

\* The dialog and its calls keep their shape and are about approvals that were
\* asked for, whatever the server answers.
THEOREM TypeCorrect == Spec => []TypeOK
<1>1. IInv => TypeOK
  <2> SUFFICES ASSUME IInv PROVE TypeOK
    OBVIOUS
  <2>1. Vetted(Asked, read) \subseteq PostCall(Asked)
    BY DEF Vetted
  <2>2. posts \in Seq(PostCall(Asked)) /\ Len(posts) <= MaxCalls
    BY <2>1, SeqMonotonic DEF IInv, PostsOK
  <2> QED  BY <2>2 DEF IInv, TypeOK, Rows, World, DialogOK, LoadsOK, PollsOK
<1> QED  BY <1>1, Invariant, PTL

\* What the owner approves was on the screen for that approval, valid and
\* clean, and was read to its end (renderMergeApproval, the scroll gate).
THEOREM SignedAsReadHolds == Spec => []SignedAsRead
<1>1. IInv => SignedAsRead
  <2> SUFFICES ASSUME IInv, NEW i \in DOMAIN posts, posts[i].kind = "approve"
               PROVE  /\ posts[i].content = <<posts[i].id, TRUE, "clean">>
                      /\ posts[i].content \in read
    BY DEF SignedAsRead
  <2>1. posts[i] \in Vetted(Asked, read)
    BY PostTypes DEF IInv
  <2> QED  BY <2>1 DEF Vetted
<1> QED  BY <1>1, Invariant, PTL

-----------------------------------------------------------------------------
(* The evidence about a merge.                                             *)

\* The merge's group, as a record of this boot names it.
MergeGroup == [pgid |-> merge.pid, boot |-> bootAt]

\* What a record that is right can name.
Names(g) == g \in {NOID, MergeGroup}

\* The number of a merge whose group lives is the merge's, and nobody else
\* has it.
Held ==
    /\ left \subseteq {merge.pid} /\ (left # {} => merge.pid \in Pid)
    /\ merge.step = "running" =>
          merge.pid \in Pid /\ holder[merge.pid] = "merge" /\ left = {}
    /\ left # {} => holder[merge.pid] = "free"

\* While it lives every source names it or nothing.
Named ==
    GroupLives => /\ Names(row.column) /\ Names(row.group)
                  /\ Names(trace) /\ Names(marker) /\ Names(call.hand)

\* Before git is started no source names anything.
Unstarted ==
    call.step = "spent" =>
        /\ ~GroupLives /\ ~escaped /\ merge.step = "none"
        /\ row.column = NOID /\ row.group = NOID
        /\ trace = NOID /\ marker = NOID /\ call.hand = NOID

\* Only a program of the project leaves the group, and who saw the end saw it
\* for good.
SeenForGood ==
    /\ escaped => merge.hooked
    /\ merge.step = "none" => ~escaped
    /\ \A p \in Reader : "closed" \in told[p] =>
          ~GroupLives /\ ~escaped /\ call.step # "spent"

\* The invariant.
Evidence ==
    /\ IdentityTypeOK /\ bootAt <= FirstBoot + faults
    /\ Held /\ Named /\ Unstarted /\ SeenForGood

-----------------------------------------------------------------------------
(* What a reading names.                                                   *)

\* The sources as a reader at a row that holds takes them, or does not.
Told(r, trusted) == Sources(r, IF trusted THEN disownedMergeGroup(r) ELSE NOID)

\* A source names what the row, the trace or the marker does.
LEMMA SourceNames ==
    ASSUME NEW r, NEW d, NEW s \in Sources(r, d)
    PROVE  /\ s.group # NOID
           /\ \/ s.source = "column" /\ s.group = r.column
              \/ s.source = "payload" /\ s.group = r.group
              \/ s.source = "trace" /\ s.group = traceMergeIdentity
              \/ s.source = "spawn-record" /\ s.group = marker
  BY DEF Sources, columnMergeIdentity, payloadMergeIdentity

\* The group asked for is one that a source asked for names.
LEMMA FromNames ==
    ASSUME NEW S, NEW a, NEW b, From(S, a, b) # NOID
    PROVE  \E s \in S : s.source \in {a, b} /\ s.group = From(S, a, b)
<1> DEFINE A == {s \in S : s.source = a}
           B == {s \in S : s.source = b}
           P(s) == s \in A \/ A = {}
<1>1. A \cup B # {} /\ From(S, a, b) = (CHOOSE s \in A \cup B : P(s)).group
  BY DEF From
<1>2. \E s \in A \cup B : P(s)
  BY <1>1
<1>3. (CHOOSE s \in A \cup B : P(s)) \in A \cup B
  BY <1>2
<1> QED  BY <1>1, <1>3

\* What a reading takes for the merge a source names, and in the row a source of
\* the row does.
LEMMA ReadingNames ==
    ASSUME NEW r, NEW S
    PROVE  /\ Reading(r, S).candidates = {s.group : s \in S}
           /\ Reading(r, S).identity # NOID =>
                 \E s \in S : s.group = Reading(r, S).identity
           /\ Reading(r, S).namedInRow =>
                 \E s \in S : s.source \in {"column", "payload"} /\ s.group # NOID
<1>1. Reading(r, S).candidates = {s.group : s \in S}
  BY DEF Reading
<1>2. Reading(r, S).identity \in {NOID, From(S, "column", "payload"),
                                 From(S, "trace", "spawn-record")}
  BY DEF Reading
<1>3. Reading(r, S).namedInRow => From(S, "column", "payload") # NOID
  BY DEF Reading
<1>4. Reading(r, S).identity # NOID => \E s \in S : s.group = Reading(r, S).identity
  BY <1>2, FromNames
<1>5. Reading(r, S).namedInRow =>
          \E s \in S : s.source \in {"column", "payload"} /\ s.group # NOID
  BY <1>3, FromNames
<1> QED  BY <1>1, <1>4, <1>5

\* What is concluded, and from what.
LEMMA ConclusionIs ==
    ASSUME NEW r, NEW w, NEW trusted, NEW hand, NEW exit, NEW programs
    PROVE  LET c == mergeWriteConclusion(r, w, trusted, hand, exit, programs)
               st == Standing(Reading(r, Told(r, trusted)), hand)
           IN  c = Conclusion(st, Reason(r, st, w, trusted, exit, programs))
<1>1. durableMergeIdentity(r, IF trusted THEN disownedMergeGroup(r) ELSE NOID)
          = Reading(r, Told(r, trusted))
  BY DEF durableMergeIdentity, Given, Told
<1>2. mergeIdentityStanding(r, trusted, hand) = Standing(Reading(r, Told(r, trusted)), hand)
  BY <1>1 DEF mergeIdentityStanding, Given
<1> QED  BY <1>2 DEF mergeWriteConclusion, Given

\* What the record waits for is worked out from the conclusion.
LEMMA PendingIs ==
    ASSUME NEW r, NEW words
    PROVE  promotionPending(r, words) = PendingOn(r, promotionConclusion(r, words \ {"closed"}))
  BY DEF promotionPending, Given

LEMMA RequirementIs ==
    ASSUME NEW r
    PROVE  unreadableReleaseRequirement(r)
              = Requirement(r, mergeWriteConclusion(r, {}, FALSE, NOID, FALSE, FALSE))
  BY DEF unreadableReleaseRequirement, Given

LEMMA ResolveIs ==
    ASSUME NEW r, NEW words
    PROVE  resolvePromotion(r, words)
              = IF Settled(r) THEN r ELSE Reobserved(r, promotionConclusion(r, words))
  BY DEF resolvePromotion, Given

-----------------------------------------------------------------------------
(* A group that lives is seen.                                             *)

\* Whatever it looks for, a probe of the merge's number finds the merge or what
\* it left behind.
LEMMA Probed ==
    ASSUME Held, GroupLives
    PROVE  mergeGroupState(MergeGroup) \in {"running", "left behind"}
<1>1. MergeGroup.pgid = merge.pid /\ MergeGroup.boot = bootAt
  BY DEF MergeGroup
<1>2. CASE merge.step = "running"
  BY <1>1, <1>2 DEF Held, mergeGroupState, probe
<1>3. CASE left # {}
  <2>1. merge.pid \in left
    BY <1>3 DEF Held
  <2> QED  BY <1>1, <1>3, <2>1 DEF Held, mergeGroupState, probe
<1> QED  BY <1>2, <1>3 DEF GroupLives

\* What a trace names, read in the boot it was written in.
LEMMA TraceNames ==
    ASSUME Names(trace)
    PROVE  Names(traceMergeIdentity)
  BY DEF Names, MergeGroup, traceMergeIdentity, traceBootAtSec

\* A reader who finds any of it named, or was handed it, concludes nothing.
LEMMA SeenAlive ==
    ASSUME Held, GroupLives, Names(trace), Names(marker),
           NEW r, Names(r.column), Names(r.group),
           NEW w, NEW trusted, NEW hand, Names(hand), NEW exit, NEW programs,
           \/ hand # NOID
           \/ \E s \in Told(r, trusted) : TRUE
    PROVE  LET c == mergeWriteConclusion(r, w, trusted, hand, exit, programs)
           IN  /\ \E g : g \in c.standing.blocking \cup c.standing.survivors
               /\ c.reason \in {"MERGE_GROUP_STILL_RUNNING",
                                "MERGE_GROUP_SURVIVORS_STILL_ALIVE"}
<1> DEFINE reading == Reading(r, Told(r, trusted))
           st == Standing(reading, hand)
           probed == reading.candidates \cup ({hand} \ {NOID})
<1>1. MergeGroup \in probed
  <2>1. CASE hand # NOID
    BY <2>1 DEF Names
  <2>2. CASE \E s \in Told(r, trusted) : TRUE
    <3>1. PICK s \in Told(r, trusted) : TRUE
      BY <2>2
    <3>2. s.group = MergeGroup
      BY <3>1, SourceNames, TraceNames DEF Told, Names
    <3> QED  BY <3>2, ReadingNames
  <2> QED  BY <2>1, <2>2
<1>2. /\ st.blocking = {g \in probed : mergeGroupState(g) = "running"}
      /\ st.survivors = {g \in probed : mergeGroupState(g) = "left behind"}
  BY DEF Standing
<1>3. \E g : g \in st.blocking \cup st.survivors
  BY <1>1, <1>2, Probed
<1> HIDE DEF st
<1>4. Reason(r, st, w, trusted, exit, programs)
          \in {"MERGE_GROUP_STILL_RUNNING", "MERGE_GROUP_SURVIVORS_STILL_ALIVE"}
  BY <1>3 DEF Reason
<1>5. mergeWriteConclusion(r, w, trusted, hand, exit, programs)
          = Conclusion(st, Reason(r, st, w, trusted, exit, programs))
  BY ConclusionIs DEF st
<1> QED  BY <1>3, <1>4, <1>5 DEF Conclusion

-----------------------------------------------------------------------------
(* What is written names what was named.                                   *)

\* What is taken for the merge is what one of the sources says, or nothing.
LEMMA IdentityIn ==
    ASSUME NEW X, NOID \in X, NEW r, r.column \in X, r.group \in X,
           traceMergeIdentity \in X, marker \in X,
           NEW w, NEW trusted, NEW hand, NEW exit, NEW programs
    PROVE  mergeWriteConclusion(r, w, trusted, hand, exit, programs)
               .standing.reading.identity \in X
<1> DEFINE reading == Reading(r, Told(r, trusted))
<1>1. reading.identity \in X
  <2>1. CASE reading.identity = NOID
    BY <2>1
  <2>2. CASE reading.identity # NOID
    <3>1. PICK s \in Told(r, trusted) : s.group = reading.identity
      BY <2>2, ReadingNames
    <3>2. s.group \in X
      BY SourceNames DEF Told
    <3> QED  BY <3>1, <3>2
  <2> QED  BY <2>1, <2>2
<1> HIDE DEF reading
<1>2. mergeWriteConclusion(r, w, trusted, hand, exit, programs).standing = Standing(reading, hand)
  BY ConclusionIs DEF reading, Conclusion
<1>3. Standing(reading, hand).reading = reading
  BY DEF Standing
<1> QED  BY <1>1, <1>2, <1>3

LEMMA KeptIn ==
    ASSUME NEW X, NOID \in X, NEW c, c.standing.reading.identity \in X, NEW m
    PROVE  KeptGroup(c, m) \in X
  BY DEF KeptGroup

\* What a conclusion says, whatever it is from.
LEMMA ConclusionShape ==
    ASSUME NEW r, NEW w, NEW trusted, NEW hand, NEW exit, NEW programs
    PROVE  LET c == mergeWriteConclusion(r, w, trusted, hand, exit, programs)
           IN  c.concluded \in BOOLEAN /\ c.byOwner \in BOOLEAN
<1> DEFINE st == Standing(Reading(r, Told(r, trusted)), hand)
           reason == Reason(r, st, w, trusted, exit, programs)
<1>1. mergeWriteConclusion(r, w, trusted, hand, exit, programs) = Conclusion(st, reason)
  BY ConclusionIs
<1> HIDE DEF st, reason
<1>2. Conclusion(st, reason).concluded \in BOOLEAN /\ Conclusion(st, reason).byOwner \in BOOLEAN
  BY DEF Conclusion
<1> QED  BY <1>1, <1>2

\* A row that is written.
LEMMA WrittenShape ==
    ASSUME NEW r \in Row, NEW c, c.concluded \in BOOLEAN,
           NEW state \in {"applying", "applied", "rolled-back", "manual"},
           NEW group \in Group \cup {NOID}
    PROVE  /\ written(r, c, state, group) \in Row
           /\ written(r, c, state, group).column = group
           /\ written(r, c, state, group).group = group
<1> DEFINE said == IF c.reason = "MERGE_DECLARATION_NOT_FIRST_HAND" THEN r.concluded ELSE c.concluded
<1>1. said \in BOOLEAN
  BY DEF Row
<1> DEFINE new == [r EXCEPT !.state = state, !.column = group, !.group = group,
                            !.parses = TRUE, !.hashed = TRUE, !.byCall = FALSE,
                            !.concluded = said]
<1>2. written(r, c, state, group) = new
  BY DEF written
<1> HIDE DEF said
<1>3. new \in Row
  BY <1>1 DEF Row
<1>4. new.column = group /\ new.group = group
  BY DEF Row
<1> QED  BY <1>2, <1>3, <1>4

LEMMA ShownStates ==
    ASSUME NEW c, NEW m
    PROVE  holdMarkerOverSurvivors(c, m) \in {"applying", "applied", "rolled-back", "manual"}
  BY DEF holdMarkerOverSurvivors, Seen

\* A row that names what it should.
Right(r) ==
    /\ r \in Row
    /\ GroupLives => Names(r.column) /\ Names(r.group)
    /\ call.step = "spent" => r.column = NOID /\ r.group = NOID

LEMMA RowRight == Evidence => Right(row)
  BY DEF Evidence, IdentityTypeOK, Named, Unstarted, Right

\* What the other sources name.
LEMMA OthersName ==
    ASSUME Evidence
    PROVE  /\ traceMergeIdentity \in Group \cup {NOID} /\ marker \in Group \cup {NOID}
           /\ GroupLives => Names(traceMergeIdentity) /\ Names(marker)
           /\ call.step = "spent" => traceMergeIdentity = NOID /\ marker = NOID
<1>1. bootAt \in FirstBoot..(FirstBoot + MaxFaults) /\ trace \in Group \cup {NOID}
      /\ marker \in Group \cup {NOID}
  BY DEF Evidence, IdentityTypeOK
<1>2. traceMergeIdentity \in Group \cup {NOID}
  <2>1. bootAt \in 0..(FirstBoot + MaxFaults) /\ Before \in 0..(FirstBoot + MaxFaults)
    BY <1>1, IdentityAssumption DEF FirstBoot, Before
  <2> QED  BY <1>1, <2>1 DEF traceMergeIdentity, traceBootAtSec, Group
<1>3. GroupLives => Names(traceMergeIdentity) /\ Names(marker)
  BY TraceNames DEF Evidence, Named
<1>4. call.step = "spent" => traceMergeIdentity = NOID /\ marker = NOID
  BY DEF Evidence, Unstarted, traceMergeIdentity
<1> QED  BY <1>1, <1>2, <1>3, <1>4

\* What is concluded of such a row, and the group to be written with it.
LEMMA KeptRight ==
    ASSUME Evidence, NEW r, Right(r), NEW w, NEW trusted, NEW hand, NEW exit, NEW programs, NEW m
    PROVE  LET g == KeptGroup(mergeWriteConclusion(r, w, trusted, hand, exit, programs), m)
           IN  /\ g \in Group \cup {NOID}
               /\ GroupLives => Names(g)
               /\ call.step = "spent" => g = NOID
<1> DEFINE c == mergeWriteConclusion(r, w, trusted, hand, exit, programs)
<1>1. r.column \in Group \cup {NOID} /\ r.group \in Group \cup {NOID}
  BY DEF Right, Row
<1>2. KeptGroup(c, m) \in Group \cup {NOID}
  <2>1. c.standing.reading.identity \in Group \cup {NOID}
    BY <1>1, OthersName, IdentityIn
  <2> HIDE DEF c
  <2> QED  BY <2>1, KeptIn
<1>3. GroupLives => Names(KeptGroup(c, m))
  <2> SUFFICES ASSUME GroupLives PROVE Names(KeptGroup(c, m))
    OBVIOUS
  <2> DEFINE X == {NOID, MergeGroup}
  <2>1. r.column \in X /\ r.group \in X /\ traceMergeIdentity \in X /\ marker \in X /\ NOID \in X
    BY OthersName DEF Right, Names
  <2> HIDE DEF X
  <2>2. c.standing.reading.identity \in X
    BY <2>1, IdentityIn
  <2> HIDE DEF c
  <2>3. KeptGroup(c, m) \in X
    BY <2>1, <2>2, KeptIn
  <2> QED  BY <2>3 DEF X, Names
<1>4. call.step = "spent" => KeptGroup(c, m) = NOID
  <2> SUFFICES ASSUME call.step = "spent" PROVE KeptGroup(c, m) = NOID
    OBVIOUS
  <2> DEFINE X == {NOID}
  <2>1. r.column \in X /\ r.group \in X /\ traceMergeIdentity \in X /\ marker \in X /\ NOID \in X
    BY OthersName DEF Right
  <2> HIDE DEF X
  <2>2. c.standing.reading.identity \in X
    BY <2>1, IdentityIn
  <2> HIDE DEF c
  <2>3. KeptGroup(c, m) \in X
    BY <2>1, <2>2, KeptIn
  <2> QED  BY <2>3 DEF X
<1> QED  BY <1>2, <1>3, <1>4

\* Looking again at a row that names what it should leaves one that does.
LEMMA ResolvedRight ==
    ASSUME Evidence, NEW r, Right(r), NEW words
    PROVE  Right(resolvePromotion(r, words))
<1> DEFINE c == promotionConclusion(r, words)
           g == KeptGroup(c, repo)
           state == IF ~c.concluded /\ ~authorizedMergeCommit(repo) THEN "applying"
                    ELSE IF r.state = "applying" /\ ~c.byOwner THEN "applying"
                    ELSE holdMarkerOverSurvivors(c, repo)
<1>1. /\ g \in Group \cup {NOID}
      /\ GroupLives => Names(g)
      /\ call.step = "spent" => g = NOID
  BY KeptRight DEF promotionConclusion
<1>2. c.concluded \in BOOLEAN
  BY ConclusionShape DEF promotionConclusion
<1>3. state \in {"applying", "applied", "rolled-back", "manual"}
  <2> HIDE DEF c
  <2> QED  BY ShownStates
<1>4. resolvePromotion(r, words) = r \/ resolvePromotion(r, words) = written(r, c, state, g)
  BY ResolveIs DEF Reobserved
<1> HIDE DEF c, g, state
<1>5. Right(written(r, c, state, g))
  BY <1>1, <1>2, <1>3, WrittenShape DEF Right
<1> QED  BY <1>4, <1>5

-----------------------------------------------------------------------------
(* Steps that leave the machine alone.                                     *)

\* At most one thing goes wrong in a step.
LEMMA FaultsCount ==
    ASSUME Evidence, faults' = faults \/ \E kind \in Fault : Happens(kind)
    PROVE  faults' \in 0..MaxFaults /\ (faults' = faults \/ faults' = faults + 1)
  BY IdentityAssumption DEF Evidence, IdentityTypeOK, Happens

\* Each boot is a fault of its own.
LEMMA BootsCount ==
    ASSUME NEW b \in Nat, NEW f \in Nat, b <= FirstBoot + f, NEW g, g = f \/ g = f + 1
    PROVE  b <= FirstBoot + g /\ (g = f + 1 => b + 1 <= FirstBoot + g)
  BY DEF FirstBoot

\* A step that only writes the row, and what a process was told.
LEMMA RowStep ==
    ASSUME Evidence, Right(row'), UNCHANGED <<machineVars, marker, call>>,
           faults' \in 0..MaxFaults, faults' = faults \/ faults' = faults + 1,
           told' \in [Reader -> SUBSET Word],
           \A p \in Reader : "closed" \in told'[p] => "closed" \in told[p]
    PROVE  Evidence'
<1>1. /\ bootAt' = bootAt /\ holder' = holder /\ left' = left /\ merge' = merge
      /\ escaped' = escaped /\ repo' = repo /\ trace' = trace
      /\ marker' = marker /\ call' = call
  BY DEF machineVars
<1>2. GroupLives' <=> GroupLives
  BY <1>1 DEF GroupLives
<1>3. IdentityTypeOK'
  BY <1>1 DEF Evidence, IdentityTypeOK, Right
<1>4. bootAt' <= FirstBoot + faults'
  <2>1. bootAt \in Nat /\ faults \in Nat /\ bootAt <= FirstBoot + faults
    BY IdentityAssumption DEF Evidence, IdentityTypeOK, FirstBoot
  <2> QED  BY <1>1, <2>1, BootsCount
<1>5. Held'
  BY <1>1 DEF Evidence, Held
<1>6. Named'
  BY <1>1, <1>2 DEF Evidence, Named, Right, Names, MergeGroup
<1>7. Unstarted'
  BY <1>1, <1>2 DEF Evidence, Unstarted, Right
<1>8. SeenForGood'
  BY <1>1, <1>2 DEF Evidence, SeenForGood
<1> QED  BY <1>3, <1>4, <1>5, <1>6, <1>7, <1>8 DEF Evidence

LEMMA ResolveStep ==
    ASSUME Evidence, NEW p \in Reader, ResolvePromotion(p)
    PROVE  Evidence'
<1>1. Right(row')
  BY RowRight, ResolvedRight DEF ResolvePromotion
<1>2. told' = told /\ faults' = faults /\ UNCHANGED <<machineVars, marker, call>>
  BY DEF ResolvePromotion
<1>3. told \in [Reader -> SUBSET Word] /\ faults \in 0..MaxFaults
  BY DEF Evidence, IdentityTypeOK
<1> QED  BY <1>1, <1>2, <1>3, RowStep

\* The owner's word is added to what a process was told, and is not that it saw
\* the end.
LEMMA WordsAdd ==
    ASSUME Evidence, NEW p \in Reader, NEW words \in SUBSET {"group", "account"},
           told' = [told EXCEPT ![p] = @ \cup words]
    PROVE  /\ told' \in [Reader -> SUBSET Word]
           /\ \A q \in Reader : "closed" \in told'[q] => "closed" \in told[q]
  BY DEF Evidence, IdentityTypeOK, Word

LEMMA OwnerReleases ==
    ASSUME Evidence, NEW p \in Reader, NEW r, Right(r),
           NEW words \in SUBSET {"group", "account"}, Release(p, r, words)
    PROVE  Evidence'
<1> DEFINE s == [r EXCEPT !.byCall = FALSE]
<1>1. Right(s)
  BY DEF Right, Row
<1> HIDE DEF s
<1>2. Right(row')
  BY <1>1, ResolvedRight DEF Release, s
<1>3. faults' = faults /\ UNCHANGED <<machineVars, marker, call>> /\ faults \in 0..MaxFaults
  BY DEF Release, Evidence, IdentityTypeOK
<1>4. /\ told' \in [Reader -> SUBSET Word]
      /\ \A q \in Reader : "closed" \in told'[q] => "closed" \in told[q]
  BY WordsAdd DEF Release
<1> QED  BY <1>2, <1>3, <1>4, RowStep

\* A row that disowns a group names none.
LEMMA DisownedRight ==
    ASSUME Evidence, NEW r, Right(r), NEW n \in Pid
    PROVE  Right(Disowned(r, n))
<1>1. bootAt \in 0..(FirstBoot + MaxFaults)
  BY IdentityAssumption DEF Evidence, IdentityTypeOK, FirstBoot
<1> DEFINE g == [pgid |-> n, boot |-> bootAt]
<1>2. g \in Group
  BY <1>1 DEF Group
<1>3. Disowned(r, n) = [r EXCEPT !.column = NOID, !.group = NOID, !.disowned = g]
  BY DEF Disowned
<1> HIDE DEF g
<1> QED  BY <1>2, <1>3 DEF Right, Row, Names

LEMMA UnreadableStep ==
    ASSUME Evidence, NEW p \in Reader, NEW requirement, NEW typed, NEW n,
           ReleaseUnreadablePromotion(p, requirement, typed, n)
    PROVE  Evidence'
<1> DEFINE group == IF row.parses THEN row.group ELSE NOID
           disowned == IF row.parses THEN row.disowned ELSE NOID
           owner == row.parses /\ row.ownerDisowned
           abandoned == row.parses /\ row.abandoned
           concluded == row.parses /\ row.concluded
<1>0. Right(row)
  BY RowRight
<1>1. row' = [row EXCEPT !.state = "manual", !.parses = TRUE, !.hashed = FALSE,
                         !.group = group, !.disowned = disowned,
                         !.ownerDisowned = owner, !.abandoned = abandoned,
                         !.concluded = concluded]
  BY DEF ReleaseUnreadablePromotion
<1>2. /\ group \in {row.group, NOID} /\ disowned \in Group \cup {NOID}
      /\ owner \in BOOLEAN /\ abandoned \in BOOLEAN /\ concluded \in BOOLEAN
  BY <1>0 DEF Right, Row
<1> HIDE DEF group, disowned, owner, abandoned, concluded
<1>3. Right(row')
  <2>0. row \in Row /\ group \in Group \cup {NOID}
    BY <1>0, <1>2 DEF Right, Row
  <2>1. row' \in Row
    <3> DEFINE new == [row EXCEPT !.state = "manual", !.parses = TRUE, !.hashed = FALSE,
                                  !.group = group, !.disowned = disowned,
                                  !.ownerDisowned = owner, !.abandoned = abandoned,
                                  !.concluded = concluded]
    <3>1. new \in Row
      BY <1>2, <2>0 DEF Row
    <3> QED  BY <1>1, <3>1
  <2>2. row'.column = row.column /\ row'.group \in {row.group, NOID}
    BY <1>1, <1>2, <2>0 DEF Row
  <2> QED  BY <1>0, <2>1, <2>2 DEF Right, Names
<1>4. faults' = faults /\ UNCHANGED <<machineVars, marker, call>> /\ faults \in 0..MaxFaults
  BY DEF ReleaseUnreadablePromotion, Evidence, IdentityTypeOK
<1>5. /\ told' \in [Reader -> SUBSET Word]
      /\ \A q \in Reader : "closed" \in told'[q] => "closed" \in told[q]
  BY WordsAdd DEF ReleaseUnreadablePromotion
<1> QED  BY <1>3, <1>4, <1>5, RowStep

\* Whatever sentence the owner types.
LEMMA TypesStep ==
    ASSUME Evidence, NEW p \in Reader, NEW phrases, Types(p, phrases)
    PROVE  Evidence'
<1>1. ASSUME NEW pending, NEW typed, NEW n \in Pid, AbandonMergeProcessGroup(p, pending, typed, n)
      PROVE  Evidence'
  <2>1. Right(Disowned(row, n))
    BY RowRight, DisownedRight
  <2>2. Release(p, Disowned(row, n), {"group"})
    BY <1>1 DEF AbandonMergeProcessGroup
  <2> QED  BY <2>1, <2>2, OwnerReleases
<1>2. ASSUME NEW pending, NEW typed, AbandonMergeAccount(p, pending, typed)
      PROVE  Evidence'
  <2>1. Right([row EXCEPT !.abandoned = TRUE])
    BY RowRight DEF Right, Row
  <2> QED  BY <1>2, <2>1, OwnerReleases DEF AbandonMergeAccount
<1>3. ASSUME NEW pending, NEW typed, NEW n, AbandonPromotionOwnerProcess(p, pending, typed, n)
      PROVE  Evidence'
  <2>1. Right([row EXCEPT !.ownerDisowned = TRUE])
    BY RowRight DEF Right, Row
  <2> QED  BY <1>3, <2>1, OwnerReleases DEF AbandonPromotionOwnerProcess
<1>4. ASSUME NEW pending, NEW typed, NEW n, NEW also \in Pid,
             AbandonPromotionEntirely(p, pending, typed, n, also)
      PROVE  Evidence'
  <2> DEFINE d == Disowned(row, also)
  <2>1. Right(d)
    BY RowRight, DisownedRight
  <2> HIDE DEF d
  <2>2. Right([d EXCEPT !.ownerDisowned = TRUE])
    BY <2>1 DEF Right, Row
  <2> QED  BY <1>4, <2>2, OwnerReleases DEF AbandonPromotionEntirely, d
<1> QED  BY <1>1, <1>2, <1>3, <1>4, UnreadableStep DEF Types

LEMMA DamageStep ==
    ASSUME Evidence, DamageRow
    PROVE  Evidence'
<1>1. Right(row)
  BY RowRight
<1>2. \/ row' = [row EXCEPT !.parses = FALSE]
      \/ row' = [row EXCEPT !.column = NOID, !.hashed = FALSE]
      \/ row' = [row EXCEPT !.hashed = FALSE, !.byCall = FALSE]
  BY DEF DamageRow
<1>3. row' \in Row /\ row'.column \in {row.column, NOID} /\ row'.group = row.group
  BY <1>1, <1>2 DEF Right, Row
<1>4. Right(row')
  BY <1>1, <1>3 DEF Right, Names
<1>5. faults' \in 0..MaxFaults /\ (faults' = faults \/ faults' = faults + 1)
  BY FaultsCount DEF DamageRow, Fault
<1>6. told' = told /\ UNCHANGED <<machineVars, marker, call>> /\ told \in [Reader -> SUBSET Word]
  BY DEF DamageRow, Evidence, IdentityTypeOK
<1> QED  BY <1>4, <1>5, <1>6, RowStep

-----------------------------------------------------------------------------
(* The promoting call.                                                     *)

\* A step keeps the count of boots that boots nothing.
LEMMA SameBoot ==
    ASSUME Evidence, bootAt' = bootAt, faults' = faults \/ faults' = faults + 1
    PROVE  bootAt' <= FirstBoot + faults'
<1>1. bootAt \in Nat /\ faults \in Nat /\ bootAt <= FirstBoot + faults
  BY IdentityAssumption DEF Evidence, IdentityTypeOK, FirstBoot
<1> QED  BY <1>1, BootsCount

LEMMA RecordStep ==
    ASSUME Evidence, NEW n \in Pid, RecordMergePgid(n)
    PROVE  Evidence'
<1> DEFINE hand == [pgid |-> n, boot |-> bootAt]
<1>1. /\ call.step = "spent" /\ holder[n] = "free"
      /\ holder' = [holder EXCEPT ![n] = "merge"]
      /\ merge' = [merge EXCEPT !.step = "running", !.pid = n]
      /\ marker' \in {hand, NOID}
      /\ call' \in {[step |-> "merging", hand |-> hand, recorded |-> b] : b \in BOOLEAN}
      /\ row' \in {row, [IntentRow EXCEPT !.column = hand, !.group = hand]}
      /\ faults' = faults \/ Happens("row")
      /\ UNCHANGED <<bootAt, left, escaped, repo, trace, told>>
  <2>1. marker = NOID
    BY DEF Evidence, Unstarted, RecordMergePgid
  <2> QED  BY <2>1 DEF RecordMergePgid
<1>2. /\ ~GroupLives /\ ~escaped /\ row.column = NOID /\ row.group = NOID /\ trace = NOID
      /\ \A p \in Reader : "closed" \notin told[p]
  BY <1>1 DEF Evidence, Unstarted, SeenForGood
<1>3. hand \in Group
  <2>1. bootAt \in 0..(FirstBoot + MaxFaults)
    BY IdentityAssumption DEF Evidence, IdentityTypeOK, FirstBoot
  <2> QED  BY <2>1 DEF Group
<1>4. faults' \in 0..MaxFaults /\ (faults' = faults \/ faults' = faults + 1)
  BY <1>1, FaultsCount DEF Fault
<1>5. call' \in [step: {"merging"}, hand: {hand}, recorded: BOOLEAN]
  <2> HIDE DEF hand
  <2> QED  BY <1>1
<1>6. /\ merge' \in [step: {"running"}, pid: {n}, traced: BOOLEAN, hooked: Hooked]
      /\ merge'.hooked = merge.hooked
  BY <1>1 DEF Evidence, IdentityTypeOK
<1>7. MergeGroup' = hand
  BY <1>1, <1>6 DEF MergeGroup
<1>8. row' \in Row /\ row'.column \in {hand, NOID} /\ row'.group \in {hand, NOID}
  <2>1. row \in Row
    BY DEF Evidence, IdentityTypeOK
  <2> HIDE DEF hand
  <2>2. CASE row' = row
    BY <1>2, <2>1, <2>2
  <2>3. CASE row' = [IntentRow EXCEPT !.column = hand, !.group = hand]
    BY <1>3, <2>3 DEF IntentRow, Row
  <2> QED  BY <1>1, <2>2, <2>3
<1> HIDE DEF hand
<1>9. IdentityTypeOK'
  <2>1. holder' \in [Pid -> {"free", "starter", "merge", "own", "foreign"}]
    BY <1>1 DEF Evidence, IdentityTypeOK
  <2>2. merge' \in [step: {"none", "running", "over"}, pid: Pid \cup {NOID},
                    traced: BOOLEAN, hooked: Hooked]
    BY <1>6
  <2>3. call' \in [step: {"spent", "merging", "ended"}, hand: Group \cup {NOID},
                   recorded: BOOLEAN]
    BY <1>3, <1>5
  <2>4. marker' \in Group \cup {NOID}
    BY <1>1, <1>3
  <2> QED  BY <1>1, <1>4, <1>8, <2>1, <2>2, <2>3, <2>4 DEF Evidence, IdentityTypeOK
<1>10. bootAt' <= FirstBoot + faults'
  BY <1>1, <1>4, SameBoot
<1>11. Held'
  <2>1. left' = {} /\ holder'[n] = "merge"
    BY <1>1, <1>2 DEF GroupLives, Evidence, IdentityTypeOK
  <2> QED  BY <1>6, <2>1 DEF Held
<1>12. Named'
  BY <1>1, <1>2, <1>5, <1>7, <1>8 DEF Named, Names
<1>13. Unstarted'
  BY <1>5 DEF Unstarted
<1>14. SeenForGood'
  BY <1>1, <1>2 DEF SeenForGood
<1> QED  BY <1>9, <1>10, <1>11, <1>12, <1>13, <1>14 DEF Evidence

\* A call that takes what it saw for the end of the merge saw the end.
LEMMA ExitSeen ==
    ASSUME Evidence, NEW r, Right(r),
           (call.step = "merging" /\ merge.step = "over") \/ call.step = "spent",
           SettleConclusion(r, told[Starter]).reason = "MERGE_LEADER_EXIT_OBSERVED"
    PROVE  ~GroupLives /\ ~escaped
<1> DEFINE exit == call.hand # NOID
           programs == merge.hooked \/ (call.hand # NOID /\ ~merge.traced)
           words == told[Starter]
           st == Standing(Reading(r, Told(r, TRUE)), call.hand)
<1>1. Reason(r, st, words, TRUE, exit, programs) = "MERGE_LEADER_EXIT_OBSERVED"
  <2> DEFINE reason == Reason(r, st, words, TRUE, exit, programs)
  <2>1. SettleConclusion(r, words) = Conclusion(st, reason)
    BY ConclusionIs DEF SettleConclusion
  <2>2. Conclusion(st, reason).reason = reason
    BY DEF Conclusion
  <2> HIDE DEF reason
  <2>3. reason = "MERGE_LEADER_EXIT_OBSERVED"
    BY <2>1, <2>2
  <2> QED  BY <2>3 DEF reason
<1>2. "closed" \in words \/ (exit /\ ~programs)
  <2> HIDE DEF st, exit, programs, words
  <2> QED  BY <1>1 DEF Reason
<1>3. CASE call.step = "spent"
  BY <1>3 DEF Evidence, Unstarted
<1>4. CASE "closed" \in words
  BY <1>4, IdentityAssumption DEF Evidence, SeenForGood
<1>5. CASE call.step = "merging" /\ merge.step = "over" /\ exit /\ ~programs
  <2>1. ~escaped
    BY <1>5 DEF Evidence, SeenForGood
  <2>2. ASSUME GroupLives PROVE FALSE
    <3>1. Names(call.hand) /\ Names(trace) /\ Names(marker) /\ Names(r.column) /\ Names(r.group)
      BY <2>2 DEF Evidence, Named, Right
    <3>2. mergeWriteConclusion(r, words, TRUE, call.hand, exit, programs).reason
              \in {"MERGE_GROUP_STILL_RUNNING", "MERGE_GROUP_SURVIVORS_STILL_ALIVE"}
      BY <1>5, <2>2, <3>1, SeenAlive DEF Evidence
    <3> QED  BY <3>2 DEF SettleConclusion
  <2> QED  BY <2>1, <2>2
<1> QED  BY <1>2, <1>3, <1>4, <1>5

LEMMA SettleStep ==
    ASSUME Evidence, SettlePromotion
    PROVE  Evidence'
<1> DEFINE named == IF call.recorded THEN call.hand ELSE NOID
           intent == [IntentRow EXCEPT !.column = named, !.group = named]
           c == SettleConclusion(intent, told[Starter])
<1>1. /\ (call.step = "merging" /\ merge.step = "over") \/ call.step = "spent"
      /\ SettleWith(intent, c) /\ call' = [call EXCEPT !.step = "ended"]
      /\ faults' = faults \/ Happens("spawn")
      /\ UNCHANGED <<bootAt, holder, left, merge, escaped, trace, marker>>
  BY DEF SettlePromotion
<1>2. call.hand \in Group \cup {NOID} /\ call.recorded \in BOOLEAN
  BY DEF Evidence, IdentityTypeOK
<1>3. Right(intent)
  <2>1. /\ named \in Group \cup {NOID}
        /\ GroupLives => Names(named)
        /\ call.step = "spent" => named = NOID
    BY <1>2 DEF Evidence, Named, Unstarted, Names
  <2> HIDE DEF named
  <2>2. intent \in Row /\ intent.column = named /\ intent.group = named
    BY <2>1 DEF IntentRow, Row
  <2> HIDE DEF intent
  <2> QED  BY <2>1, <2>2 DEF Right
<1> HIDE DEF named, intent
<1>4. c.concluded \in BOOLEAN
  BY ConclusionShape DEF SettleConclusion
<1>5. c.reason = "MERGE_LEADER_EXIT_OBSERVED" => ~GroupLives /\ ~escaped
  BY <1>1, <1>3, ExitSeen
<1>6. \A m : /\ KeptGroup(c, m) \in Group \cup {NOID}
             /\ GroupLives => Names(KeptGroup(c, m))
  BY <1>3, KeptRight DEF SettleConclusion
<1> HIDE DEF c
<1>7. call.hand \in Group \cup {NOID} /\ (GroupLives => Names(call.hand))
  BY <1>2 DEF Evidence, Named
<1>8. PICK m \in {repo} \cup (IF repo = "half" THEN {"before"} ELSE {}),
           state \in {"applying", "applied", "rolled-back", "manual"},
           g \in Group \cup {NOID} :
        /\ repo' = m
        /\ GroupLives => Names(g)
        /\ row' = row \/ row' = written(intent, c, state, g)
  <2> DEFINE state(m) == IF /\ ~c.concluded
                            /\ ~authorizedMergeCommit(m)
                            /\ ~(m = "before" /\ call.hand = NOID)
                         THEN "applying" ELSE holdMarkerOverSurvivors(c, m)
             group(m) == IF state(m) = "applying" /\ call.hand # NOID THEN call.hand
                         ELSE KeptGroup(c, m)
  <2>1. PICK m \in {repo} \cup (IF repo = "half" THEN {"before"} ELSE {}) :
           repo' = m /\ (row' = row \/ row' = written(intent, c, state(m), group(m)))
    BY <1>1 DEF SettleWith
  <2>2. state(m) \in {"applying", "applied", "rolled-back", "manual"}
    BY ShownStates
  <2>3. group(m) \in Group \cup {NOID} /\ (GroupLives => Names(group(m)))
    BY <1>6, <1>7
  <2> HIDE DEF state, group
  <2> QED  BY <2>1, <2>2, <2>3
<1>9. /\ row' \in Row
      /\ GroupLives => Names(row'.column) /\ Names(row'.group)
  <2>1. Right(row) /\ intent \in Row
    BY <1>3, RowRight DEF Right
  <2>2. CASE row' = row
    BY <2>1, <2>2 DEF Right
  <2>3. CASE row' = written(intent, c, state, g)
    BY <1>4, <1>8, <2>1, <2>3, WrittenShape
  <2> QED  BY <1>8, <2>2, <2>3
<1>10. call' \in [step: {"ended"}, hand: {call.hand}, recorded: BOOLEAN]
  BY <1>1 DEF Evidence, IdentityTypeOK
<1>11. faults' \in 0..MaxFaults /\ (faults' = faults \/ faults' = faults + 1)
  BY <1>1, FaultsCount DEF Fault
<1>12. \/ told' = told
       \/ told' = [told EXCEPT ![Starter] = @ \cup {"closed"}] /\ ~GroupLives /\ ~escaped
  BY <1>1, <1>5 DEF SettleWith
<1>13. GroupLives' <=> GroupLives
  BY <1>1 DEF GroupLives
<1>14. IdentityTypeOK'
  <2>1. call' \in [step: {"spent", "merging", "ended"}, hand: Group \cup {NOID},
                   recorded: BOOLEAN]
    BY <1>2, <1>10
  <2>2. told' \in [Reader -> SUBSET Word]
    BY <1>12 DEF Evidence, IdentityTypeOK, Word
  <2>3. repo' \in {"before", "half", "dirty", "merged"}
    BY <1>8 DEF Evidence, IdentityTypeOK
  <2> QED  BY <1>1, <1>9, <1>11, <2>1, <2>2, <2>3 DEF Evidence, IdentityTypeOK
<1>15. bootAt' <= FirstBoot + faults'
  BY <1>1, <1>11, SameBoot
<1>16. Held'
  BY <1>1 DEF Evidence, Held
<1>17. Named'
  BY <1>1, <1>9, <1>10, <1>13 DEF Evidence, Named, Names, MergeGroup
<1>18. Unstarted'
  BY <1>10 DEF Unstarted
<1>19. SeenForGood'
  <2>1. \A p \in Reader : "closed" \in told'[p] => ~GroupLives /\ ~escaped
    BY <1>12, IdentityAssumption DEF Evidence, IdentityTypeOK, SeenForGood
  <2> QED  BY <1>1, <1>10, <1>13, <2>1 DEF Evidence, SeenForGood
<1> QED  BY <1>14, <1>15, <1>16, <1>17, <1>18, <1>19 DEF Evidence

-----------------------------------------------------------------------------
(* git, the machine and what goes wrong.                                   *)

LEMMA GitStep ==
    ASSUME Evidence, GitTraces \/ GitWrites
    PROVE  Evidence'
<1>1. /\ merge.step = "running"
      /\ merge'.step = "running" /\ merge'.pid = merge.pid /\ merge'.hooked = merge.hooked
      /\ merge' \in [step: {"none", "running", "over"}, pid: Pid \cup {NOID},
                     traced: BOOLEAN, hooked: Hooked]
      /\ trace' = trace \/ trace' = MergeGroup
      /\ repo' \in {"before", "half", "dirty", "merged"}
      /\ UNCHANGED <<bootAt, holder, left, escaped, row, marker, call, told, faults>>
  BY DEF Evidence, IdentityTypeOK, GitTraces, GitWrites, MergeGroup
<1>2. GroupLives /\ GroupLives' /\ call.step # "spent" /\ MergeGroup' = MergeGroup
  BY <1>1 DEF GroupLives, Evidence, Unstarted, MergeGroup
<1>3. MergeGroup \in Group
  <2>1. merge.pid \in Pid /\ bootAt \in 0..(FirstBoot + MaxFaults)
    BY <1>1, IdentityAssumption DEF Evidence, Held, IdentityTypeOK, FirstBoot
  <2> QED  BY <2>1 DEF MergeGroup, Group
<1>4. IdentityTypeOK'
  BY <1>1, <1>3 DEF Evidence, IdentityTypeOK
<1>5. bootAt' <= FirstBoot + faults'
  BY <1>1, SameBoot
<1>6. Held'
  BY <1>1 DEF Evidence, Held
<1>7. Named'
  BY <1>1, <1>2 DEF Evidence, Named, Names
<1>8. Unstarted'
  BY <1>1, <1>2 DEF Unstarted
<1>9. SeenForGood'
  BY <1>1, <1>2 DEF Evidence, SeenForGood
<1> QED  BY <1>4, <1>5, <1>6, <1>7, <1>8, <1>9 DEF Evidence

LEMMA GitEndsStep ==
    ASSUME Evidence, GitEnds
    PROVE  Evidence'
<1>1. /\ merge.step = "running" /\ merge.pid \in Pid
      /\ merge'.step = "over" /\ merge'.pid = merge.pid /\ merge'.hooked = merge.hooked
      /\ merge' \in [step: {"none", "running", "over"}, pid: Pid \cup {NOID},
                     traced: BOOLEAN, hooked: Hooked]
      /\ holder' = [holder EXCEPT ![merge.pid] = "free"]
      /\ left' \subseteq {merge.pid} /\ escaped' \in {FALSE, merge.hooked}
      /\ UNCHANGED <<bootAt, repo, row, trace, marker, call, told, faults>>
  BY DEF Evidence, IdentityTypeOK, Held, GitEnds
<1>2. GroupLives /\ call.step # "spent" /\ MergeGroup' = MergeGroup
  BY <1>1 DEF GroupLives, Evidence, Unstarted, MergeGroup
<1>3. IdentityTypeOK'
  <2>1. escaped' \in BOOLEAN
    BY <1>1, IdentityAssumption DEF Evidence, IdentityTypeOK
  <2> QED  BY <1>1, <2>1 DEF Evidence, IdentityTypeOK
<1>4. bootAt' <= FirstBoot + faults'
  BY <1>1, SameBoot
<1>5. Held'
  BY <1>1 DEF Evidence, Held, IdentityTypeOK
<1>6. Named'
  BY <1>1, <1>2 DEF Evidence, Named, Names
<1>7. Unstarted'
  BY <1>1, <1>2 DEF Unstarted
<1>8. SeenForGood'
  BY <1>1, <1>2 DEF Evidence, SeenForGood
<1> QED  BY <1>3, <1>4, <1>5, <1>6, <1>7, <1>8 DEF Evidence

\* Nothing begins to live, and nothing is named, in a step like these.
LEMMA EndStep ==
    ASSUME Evidence, holder' \in [Pid -> {"free", "starter", "merge", "own", "foreign"}],
           left' \subseteq left, merge' = merge, escaped' => escaped, escaped' \in BOOLEAN,
           merge.step = "running" => holder'[merge.pid] = "merge",
           left # {} => holder'[merge.pid] = "free",
           UNCHANGED <<bootAt, repo, row>>, trace' \in {trace, NOID}, marker' \in {marker, NOID},
           \/ call' = call
           \/ call' = [call EXCEPT !.step = "ended"],
           told' \in [Reader -> SUBSET Word], \A p \in Reader : told'[p] \subseteq told[p],
           faults' \in 0..MaxFaults, faults' = faults \/ faults' = faults + 1
    PROVE  Evidence'
<1>1. GroupLives' => GroupLives
  BY DEF GroupLives
<1>2. MergeGroup' = MergeGroup
  BY DEF MergeGroup
<1>3. /\ call'.hand = call.hand /\ call'.step \in {call.step, "ended"}
      /\ call' \in [step: {"spent", "merging", "ended"}, hand: Group \cup {NOID},
                    recorded: BOOLEAN]
  BY DEF Evidence, IdentityTypeOK
<1>4. IdentityTypeOK'
  <2>1. /\ trace' \in Group \cup {NOID} /\ marker' \in Group \cup {NOID} /\ left' \subseteq Pid
    BY DEF Evidence, IdentityTypeOK
  <2> QED  BY <1>3, <2>1 DEF Evidence, IdentityTypeOK
<1>5. bootAt' <= FirstBoot + faults'
  BY SameBoot
<1>6. Held'
  BY DEF Evidence, Held
<1>7. Named'
  BY <1>1, <1>2, <1>3 DEF Evidence, Named, Names
<1>8. Unstarted'
  BY <1>1, <1>3 DEF Evidence, Unstarted
<1>9. SeenForGood'
  BY <1>1, <1>3 DEF Evidence, SeenForGood
<1> QED  BY <1>4, <1>5, <1>6, <1>7, <1>8, <1>9 DEF Evidence

LEMMA GroupEndsStep ==
    ASSUME Evidence, GroupEnds \/ EscapedEnds
    PROVE  Evidence'
<1>1. /\ holder' = holder /\ left' \subseteq left /\ (escaped' = escaped \/ ~escaped')
      /\ told' = told /\ faults' = faults /\ call' = call
      /\ UNCHANGED <<bootAt, merge, repo, row, trace, marker>>
  BY DEF GroupEnds, EscapedEnds
<1>2. /\ merge.step = "running" => holder[merge.pid] = "merge"
      /\ left # {} => holder[merge.pid] = "free"
  BY DEF Evidence, Held
<1>3. /\ holder \in [Pid -> {"free", "starter", "merge", "own", "foreign"}]
      /\ told \in [Reader -> SUBSET Word] /\ faults \in 0..MaxFaults
  BY DEF Evidence, IdentityTypeOK
<1>4. escaped' \in BOOLEAN
  BY DEF GroupEnds, EscapedEnds, Evidence, IdentityTypeOK
<1> QED  BY <1>1, <1>2, <1>3, <1>4, EndStep

\* A number is given to somebody while nobody has it, nor a group.
LEMMA ReuseStep ==
    ASSUME Evidence, NEW n \in Pid, NEW who \in {"own", "foreign"}, Reuse(n, who)
    PROVE  Evidence'
<1>1. /\ holder[n] = "free" /\ n \notin left
      /\ holder' = [holder EXCEPT ![n] = who]
      /\ holder \in [Pid -> {"free", "starter", "merge", "own", "foreign"}]
      /\ left \subseteq {merge.pid}
  BY DEF Reuse, Evidence, IdentityTypeOK, Held
<1>2. faults' \in 0..MaxFaults /\ (faults' = faults \/ faults' = faults + 1)
  BY FaultsCount DEF Reuse, Fault
<1>3. merge.step = "running" => holder'[merge.pid] = "merge"
  BY <1>1 DEF Evidence, Held
<1>4. left # {} => holder'[merge.pid] = "free"
  BY <1>1 DEF Evidence, Held
<1> QED  BY <1>1, <1>2, <1>3, <1>4, EndStep DEF Reuse, Evidence, IdentityTypeOK

LEMMA DieStep ==
    ASSUME Evidence, NEW p \in Reader, Die(p)
    PROVE  Evidence'
<1>1. faults' \in 0..MaxFaults /\ (faults' = faults \/ faults' = faults + 1)
  BY FaultsCount DEF Die, Fault
<1>2. /\ holder' = holder \/ holder' = [n \in Pid |-> IF holder[n] = "starter" THEN "free"
                                                      ELSE holder[n]]
      /\ call' = call \/ call' = [call EXCEPT !.step = "ended"]
      /\ told' = [told EXCEPT ![p] = {}]
      /\ UNCHANGED <<bootAt, left, merge, escaped, repo, row, trace, marker>>
  BY DEF Die
<1>3. /\ holder' \in [Pid -> {"free", "starter", "merge", "own", "foreign"}]
      /\ \A n \in Pid : holder[n] # "starter" => holder'[n] = holder[n]
  BY <1>2 DEF Evidence, IdentityTypeOK
<1>4. told' \in [Reader -> SUBSET Word] /\ \A q \in Reader : told'[q] \subseteq told[q]
  BY <1>2 DEF Evidence, IdentityTypeOK
<1>5. /\ merge.step = "running" => holder'[merge.pid] = "merge"
      /\ left # {} => holder'[merge.pid] = "free"
  BY <1>3 DEF Evidence, Held
<1>6. escaped \in BOOLEAN
  BY DEF Evidence, IdentityTypeOK
<1> QED  BY <1>1, <1>2, <1>3, <1>4, <1>5, <1>6, EndStep

LEMMA LoseStep ==
    ASSUME Evidence, LoseFile
    PROVE  Evidence'
<1>1. faults' \in 0..MaxFaults /\ (faults' = faults \/ faults' = faults + 1)
  BY FaultsCount DEF LoseFile, Fault
<1>2. /\ trace' \in {trace, NOID} /\ marker' \in {marker, NOID}
      /\ UNCHANGED <<bootAt, holder, left, merge, escaped, repo, row, call, told>>
  BY DEF LoseFile
<1>3. /\ merge.step = "running" => holder[merge.pid] = "merge"
      /\ left # {} => holder[merge.pid] = "free"
  BY DEF Evidence, Held
<1>4. /\ holder \in [Pid -> {"free", "starter", "merge", "own", "foreign"}]
      /\ told \in [Reader -> SUBSET Word] /\ escaped \in BOOLEAN
  BY DEF Evidence, IdentityTypeOK
<1> QED  BY <1>1, <1>2, <1>3, <1>4, EndStep

\* Nothing of a merge outlives the machine.
LEMMA RebootStep ==
    ASSUME Evidence, Reboot
    PROVE  Evidence'
<1>1. /\ faults' = faults + 1 /\ bootAt' = bootAt + 1 /\ faults' \in 0..MaxFaults
      /\ left' = {} /\ ~escaped' /\ merge'.step # "running" /\ merge'.hooked = merge.hooked
      /\ \A p \in Reader : told'[p] = {}
      /\ UNCHANGED <<repo, row, trace, marker>>
  BY IdentityAssumption DEF Evidence, IdentityTypeOK, Reboot, Happens
<1>2. call' \in [step: {"ended"}, hand: Group \cup {NOID}, recorded: BOOLEAN]
  BY DEF Evidence, IdentityTypeOK, Reboot
<1>3. ~GroupLives'
  BY <1>1 DEF GroupLives
<1>4. bootAt' <= FirstBoot + faults'
  <2>1. bootAt \in Nat /\ faults \in Nat /\ bootAt <= FirstBoot + faults
    BY IdentityAssumption DEF Evidence, IdentityTypeOK, FirstBoot
  <2> QED  BY <1>1, <2>1, BootsCount
<1>5. IdentityTypeOK'
  <2>1. bootAt' \in FirstBoot..(FirstBoot + MaxFaults)
    <3>1. bootAt \in FirstBoot..(FirstBoot + MaxFaults) /\ faults' \in 0..MaxFaults
      BY <1>1 DEF Evidence, IdentityTypeOK
    <3> QED  BY <1>1, <1>4, <3>1, IdentityAssumption DEF FirstBoot
  <2>2. merge' \in [step: {"none", "running", "over"}, pid: Pid \cup {NOID},
                    traced: BOOLEAN, hooked: Hooked]
    BY DEF Evidence, IdentityTypeOK, Reboot
  <2>3. /\ holder' \in [Pid -> {"free", "starter", "merge", "own", "foreign"}]
        /\ told' \in [Reader -> SUBSET Word]
        /\ escaped' \in BOOLEAN
    BY DEF Reboot
  <2>4. call' \in [step: {"spent", "merging", "ended"}, hand: Group \cup {NOID},
                   recorded: BOOLEAN]
    BY <1>2
  <2> QED  BY <1>1, <2>1, <2>2, <2>3, <2>4 DEF Evidence, IdentityTypeOK
<1>6. Held'
  BY <1>1 DEF Held
<1>7. Named' /\ Unstarted' /\ SeenForGood'
  BY <1>1, <1>2, <1>3 DEF Named, Unstarted, SeenForGood
<1> QED  BY <1>4, <1>5, <1>6, <1>7 DEF Evidence

-----------------------------------------------------------------------------
(* The invariant, and what follows.                                        *)

LEMMA EvidenceInit == IdentityInit => Evidence
<1> SUFFICES ASSUME IdentityInit PROVE Evidence
  OBVIOUS
<1>1. ~GroupLives
  BY DEF IdentityInit, GroupLives
<1>2. IdentityTypeOK
  <2>1. row \in Row
    BY DEF IdentityInit, IntentRow, Row
  <2>2. bootAt \in FirstBoot..(FirstBoot + MaxFaults) /\ faults \in 0..MaxFaults
    BY IdentityAssumption DEF IdentityInit, FirstBoot
  <2>3. /\ holder \in [Pid -> {"free", "starter", "merge", "own", "foreign"}]
        /\ merge \in [step: {"none", "running", "over"}, pid: Pid \cup {NOID},
                      traced: BOOLEAN, hooked: Hooked]
        /\ call \in [step: {"spent", "merging", "ended"}, hand: Group \cup {NOID},
                     recorded: BOOLEAN]
        /\ told \in [Reader -> SUBSET Word]
    BY DEF IdentityInit
  <2> QED  BY <2>1, <2>2, <2>3 DEF IdentityInit, IdentityTypeOK
<1>3. bootAt <= FirstBoot + faults
  BY DEF IdentityInit, FirstBoot
<1>4. Held /\ Named /\ SeenForGood
  BY <1>1 DEF IdentityInit, Held, Named, SeenForGood
<1>5. Unstarted
  BY <1>1 DEF IdentityInit, Unstarted, IntentRow
<1> QED  BY <1>2, <1>3, <1>4, <1>5 DEF Evidence

LEMMA EvidenceStep == Evidence /\ [IdentityNext]_identityVars => Evidence'
<1> SUFFICES ASSUME Evidence, [IdentityNext]_identityVars PROVE Evidence'
  OBVIOUS
<1>1. CASE UNCHANGED identityVars
  <2>1. /\ UNCHANGED <<machineVars, marker, call>> /\ told' = told /\ faults' = faults
        /\ row' = row
    BY <1>1 DEF identityVars, machineVars
  <2>2. Right(row')
    BY <2>1, RowRight
  <2>3. told \in [Reader -> SUBSET Word] /\ faults \in 0..MaxFaults
    BY DEF Evidence, IdentityTypeOK
  <2> QED  BY <2>1, <2>2, <2>3, RowStep
<1>2. CASE \E n \in Pid : RecordMergePgid(n)
  BY <1>2, RecordStep
<1>3. CASE SettlePromotion
  BY <1>3, SettleStep
<1>4. CASE \E p \in Reader : ResolvePromotion(p) \/ Types(p, Phrase) \/ Die(p)
  BY <1>4, ResolveStep, TypesStep, DieStep
<1>5. CASE GitTraces \/ GitWrites \/ GitEnds \/ GroupEnds \/ EscapedEnds
  BY <1>5, GitStep, GitEndsStep, GroupEndsStep
<1>6. CASE \E n \in Pid, who \in {"own", "foreign"} : Reuse(n, who)
  BY <1>6, ReuseStep
<1>7. CASE Reboot \/ DamageRow \/ LoseFile
  BY <1>7, RebootStep, DamageStep, LoseStep
<1> QED  BY <1>1, <1>2, <1>3, <1>4, <1>5, <1>6, <1>7 DEF IdentityNext

\* Every behaviour of the promotion and its readers keeps the invariant.
THEOREM EvidenceInvariant == IdentitySpec => []Evidence
<1>1. IdentityInit => Evidence
  BY EvidenceInit
<1>2. Evidence /\ [IdentityNext]_identityVars => Evidence'
  BY EvidenceStep
<1> QED  BY <1>1, <1>2, PTL DEF IdentitySpec

\* The machine, the row, the files and what each process was told keep their
\* shape, and no boot or group is counted past the bounds.
THEOREM EvidenceTypeCorrect == IdentitySpec => []IdentityTypeOK
<1>1. Evidence => IdentityTypeOK
  BY DEF Evidence
<1> QED  BY <1>1, EvidenceInvariant, PTL

\* A process that concludes the merge is over from what it saw is right.
THEOREM ClosedMeansOverHolds == IdentitySpec => []ClosedMeansOver
<1>1. Evidence => ClosedMeansOver
  BY DEF Evidence, SeenForGood, ClosedMeansOver
<1> QED  BY <1>1, EvidenceInvariant, PTL

\* The short sentences are shown for a row whose own sources name a group; such a
\* source would name the one that lives, and the reader would have seen it.
THEOREM ShortPhraseMeansGoneHolds == IdentitySpec => []ShortPhraseMeansGone
<1>1. Evidence => ShortPhraseMeansGone
  <2> SUFFICES ASSUME Evidence, GroupLives, NEW p \in Reader,
                      Sentence(p) \in {"MERGE_GROUP_ABANDON", "MERGE_UNREADABLE_ABANDON"}
               PROVE  FALSE
    BY DEF ShortPhraseMeansGone
  <2>1. Names(trace) /\ Names(marker) /\ Names(row.column) /\ Names(row.group)
    BY DEF Evidence, Named
  <2>2. CASE promotionRowReadable(row)
    <3> DEFINE w == told[p] \ {"closed"}
               c == promotionConclusion(row, w)
    <3>1. PendingOn(row, c).release \in {"MERGE_GROUP_ABANDON", "MERGE_UNREADABLE_ABANDON"}
      BY <2>2, PendingIs DEF Sentence
    <3>2. c.reason = "MERGE_GROUP_PROBED_GONE"
      <4> HIDE DEF c
      <4> QED  BY <3>1 DEF PendingOn, Pending, NotPending
    <3>3. \E s \in Told(row, TRUE) : TRUE
      <4> DEFINE reading == Reading(row, Told(row, TRUE))
                 st == Standing(reading, NOID)
                 reason == Reason(row, st, w, TRUE, FALSE, FALSE)
      <4>1. c = Conclusion(st, reason)
        BY ConclusionIs DEF promotionConclusion
      <4>2. Conclusion(st, reason).reason = reason /\ st.reading = reading
        BY DEF Conclusion, Standing
      <4>3. reason = "MERGE_GROUP_PROBED_GONE" => st.reading.namedInRow
        <5> HIDE DEF st
        <5> QED  BY DEF Reason
      <4> HIDE DEF c, reason, st
      <4>4. reading.namedInRow
        BY <3>2, <4>1, <4>2, <4>3
      <4> QED  BY <4>4, ReadingNames
    <3>4. Names(NOID)
      BY DEF Names
    <3> QED  BY <2>1, <3>2, <3>3, <3>4, SeenAlive DEF promotionConclusion, Evidence
  <2>3. CASE ~promotionRowReadable(row)
    <3> DEFINE c == mergeWriteConclusion(row, {}, FALSE, NOID, FALSE, FALSE)
    <3>1. Requirement(row, c).confirmation \in {"MERGE_GROUP_ABANDON", "MERGE_UNREADABLE_ABANDON"}
      BY <2>3, RequirementIs DEF Sentence
    <3>2. c.standing.reading.namedInRow /\ c.standing.blocking \cup c.standing.survivors = {}
      <4> HIDE DEF c
      <4> QED  BY <3>1 DEF Requirement
    <3>3. \E s \in Told(row, FALSE) : TRUE
      <4> DEFINE reading == Reading(row, Told(row, FALSE))
                 st == Standing(reading, NOID)
      <4>1. c.standing = st
        BY ConclusionIs DEF Conclusion
      <4>2. st.reading = reading
        BY DEF Standing
      <4> HIDE DEF c, st
      <4>3. reading.namedInRow
        BY <3>2, <4>1, <4>2
      <4> QED  BY <4>3, ReadingNames
    <3>4. Names(NOID)
      BY DEF Names
    <3>5. Held
      BY DEF Evidence
    <3>6. \E g : g \in c.standing.blocking \cup c.standing.survivors
      BY <2>1, <3>3, <3>4, <3>5, SeenAlive
    <3> HIDE DEF c
    <3> QED  BY <3>2, <3>6
  <2> QED  BY <2>2, <2>3
<1> QED  BY <1>1, EvidenceInvariant, PTL
=============================================================================
