----------------------------- MODULE MergeDialog -----------------------------
(***************************************************************************)
(* The dialog of the Room page in which the owner answers a merge approval *)
(* (src/public/room.js), over the approvals the server keeps               *)
(* (MergeApproval): what is drawn, what was read to its end, the phrase in *)
(* the input, and the calls whose answers land later, in any order, and    *)
(* after the owner has turned to another approval or closed the dialog.    *)
(*                                                                         *)
(* A change of room closes the dialog, and is such a Close.  A promotion   *)
(* is one step here (MergePromotion has its parts); the list beside the    *)
(* dialog and the history of merges are left out.                          *)
(***************************************************************************)
EXTENDS MergeApproval, SequencesExt

CONSTANTS
    Short,     \* approvals whose changes fit the region: nothing to scroll
    MaxCalls,  \* bound on the calls of one kind in flight
    MaxActs    \* bound on what the owner, the project and the network do

ASSUME DialogAssumption ==
    /\ Short \subseteq Approval
    /\ MaxCalls \in Nat \ {0} /\ MaxActs \in Nat

VARIABLES
    late,     \* approvals whose time is over
    clash,    \* approvals that would overwrite a file nobody tracks
    dialog,   \* what the page keeps of the dialog, by the names of state.*
    loads,    \* calls of loadMergeApproval, in the order they were sent
    polls,    \* calls of repollMergeApproval
    posts,    \* calls that approve, reject or ask again
    acts,
    typedFor, \* history: which approval the phrase was typed for
    drawn,    \* history: the content last drawn on the screen
    read      \* history: the contents that were on the screen to their end

server == <<approvalVars, late, clash>>
calls == <<loads, polls, posts>>
since == <<typedFor, drawn, read>>
vars == <<approvalVars, late, clash, dialog, loads, polls, posts, acts,
          typedFor, drawn, read>>

Act == acts < MaxActs /\ acts' = acts + 1

Closed == [open |-> FALSE, screen |-> NONE, valid |-> TRUE, scan |-> NONE,
           blocked |-> FALSE, scrolled |-> FALSE, decided |-> FALSE,
           submitting |-> FALSE, inputFor |-> NONE, typed |-> FALSE, polling |-> FALSE]

\* Approvals of different tasks wait, and ids are left for new ones.
Init ==
    /\ \E asked \in [Task -> Approval] :
          /\ \A s, t \in Task : asked[s] = asked[t] => s = t
          /\ appr = [a \in Approval |->
                        IF \E t \in Task : asked[t] = a
                        THEN [task |-> CHOOSE t \in Task : asked[t] = a,
                              state |-> "requested", base |-> <<>>]
                        ELSE NoApproval]
    /\ status = [t \in Task |-> "completed"]
    /\ main = [log |-> <<>>, left |-> NONE]
    /\ late = {} /\ clash = {}
    /\ dialog = Closed
    /\ loads = <<>> /\ polls = <<>> /\ posts = <<>>
    /\ acts = 0
    /\ typedFor = NONE /\ drawn = NONE /\ read = {}

-----------------------------------------------------------------------------
(* The project and the clock.                                              *)

OwnCommit ==
    /\ Act
    /\ OwnerCommits
    /\ UNCHANGED <<late, clash, dialog, calls, since>>

Elapse(a) ==
    /\ Act
    /\ appr[a].state = "requested" /\ a \notin late
    /\ late' = late \cup {a}
    /\ UNCHANGED <<approvalVars, clash, dialog, calls, since>>

\* A file appears where the merge would write one, or goes away.
FilesChange(a) ==
    /\ Act
    /\ appr[a].state = "requested"
    /\ clash' = (clash \ {a}) \cup ({a} \ clash)
    /\ UNCHANGED <<approvalVars, late, dialog, calls, since>>

-----------------------------------------------------------------------------
(* What is drawn.                                                          *)

\* An answer of the inspection: a row that has drifted is closed by it; one
\* past its time is only said to be so.
Inspected(a) ==
    LET drifted == appr[a].state \in OpenState /\ a \notin late /\ Changed(a)
    IN [id |-> a,
        state |-> IF drifted THEN "invalidated" ELSE appr[a].state,
        lapsed |-> appr[a].state \in OpenState /\ a \in late,
        valid |-> appr[a].state \in OpenState /\ a \notin late /\ ~drifted,
        scan |-> IF a \in clash THEN "clash" ELSE "clean"]
inspectMergeApproval(a) ==
    appr' = [appr EXCEPT ![a].state = Inspected(a).state]

mergeApprovalBlockers(d) ==
    /\ d.screen # NONE
    /\ \/ d.scan # "clean"
       \/ d.screen.state # "requested"
       \/ d.screen.lapsed
       \/ ~d.valid

\* The input is emptied when there is nothing left to decide.
updateMergeApprovalGate(d) ==
    [d EXCEPT !.typed = @ /\ ~d.decided /\ (d.screen # NONE => ~d.screen.lapsed)]

\* Drawing takes the countdown along, and begins at the top: what does not
\* fit the region is unread again.  A region that is not shown has no height,
\* and is at its bottom.
AtBottom(d) == ~d.open \/ (d.screen # NONE /\ d.screen.id \in Short)
Lapsed(d) == IF d.screen # NONE /\ d.screen.id \in late
             THEN [d EXCEPT !.screen.lapsed = TRUE] ELSE d

\* A drawing that keeps the place the owner had scrolled to.
RenderInPlace(d) ==
    LET e == Lapsed(d)
    IN updateMergeApprovalGate(
           [e EXCEPT !.blocked = mergeApprovalBlockers(e),
                     !.scrolled = @ \/ AtBottom(e)])

renderMergeApproval(d) ==
    LET e == Lapsed(d)
    IN updateMergeApprovalGate(
           [e EXCEPT !.blocked = mergeApprovalBlockers(e),
                     !.scrolled = AtBottom(e)])

\* What a drawing puts on the screen, and what is seen to its end by it.
Content(d) == IF d.screen = NONE THEN NONE ELSE <<d.screen.id, d.valid, d.scan>>
Draw(d) ==
    /\ dialog' = renderMergeApproval(d)
    /\ drawn' = Content(d)
    /\ read' = IF d.open /\ AtBottom(d) THEN read \cup {Content(d)} ELSE read

Shown(answer) == [id |-> answer.id, state |-> answer.state, lapsed |-> answer.lapsed]

-----------------------------------------------------------------------------
(* The owner at the dialog.                                                *)

\* What a call of loadMergeApproval does once its answer is here: nothing
\* more, or it ends the submission that waits for it.
Load(a, then) ==
    /\ Len(loads) < MaxCalls
    /\ loads' = Append(loads, [id |-> a, then |-> then, answer |-> NONE])

openMergeApprovalDialog(a) ==
    /\ Act
    /\ ~dialog.open /\ appr[a].state # "none"
    /\ dialog' = [dialog EXCEPT !.open = TRUE, !.decided = FALSE,
                                !.scrolled = FALSE, !.polling = FALSE, !.scan = NONE]
    /\ Load(a, "look")
    /\ UNCHANGED <<server, polls, posts, since>>

closeMergeApprovalDialog ==
    /\ Act
    /\ dialog.open
    /\ dialog' = [dialog EXCEPT !.open = FALSE, !.screen = NONE, !.blocked = FALSE,
                                !.scrolled = FALSE, !.submitting = FALSE,
                                !.inputFor = NONE, !.typed = FALSE]
    /\ UNCHANGED <<server, calls, since>>

\* The picker.  What was on the screen stays until the answer is here.
Choose(a) ==
    /\ Act
    /\ dialog.open /\ appr[a].state = "requested"
    /\ dialog' = [dialog EXCEPT !.decided = FALSE, !.scrolled = FALSE]
    /\ Load(a, "look")
    /\ UNCHANGED <<server, polls, posts, since>>

Type ==
    /\ Act
    /\ dialog.open /\ dialog.screen # NONE
    /\ ~dialog.decided /\ ~dialog.screen.lapsed /\ ~dialog.typed
    /\ dialog' = [dialog EXCEPT !.typed = TRUE]
    /\ typedFor' = dialog.screen.id
    /\ UNCHANGED <<server, calls, drawn, read>>

ScrollToEnd ==
    /\ Act
    /\ dialog.open /\ dialog.screen # NONE /\ ~dialog.scrolled
    /\ dialog' = [dialog EXCEPT !.scrolled = TRUE]
    /\ read' = read \cup {drawn}
    /\ UNCHANGED <<server, calls, typedFor, drawn>>

Post(kind) ==
    /\ Len(posts) < MaxCalls
    /\ posts' = Append(posts, [kind |-> kind, id |-> dialog.screen.id,
                               content |-> drawn, phrase |-> typedFor,
                               answer |-> NONE])

approveMergeIntoMain ==
    /\ Act
    /\ dialog.open /\ dialog.screen # NONE
    /\ ~dialog.decided /\ ~dialog.screen.lapsed
    /\ ~dialog.blocked /\ dialog.scrolled /\ dialog.typed
    /\ ~dialog.submitting
    /\ dialog' = [dialog EXCEPT !.submitting = TRUE]
    /\ Post("approve")
    /\ UNCHANGED <<server, loads, polls, since>>

rejectMergeIntoMain ==
    /\ Act
    /\ dialog.open /\ dialog.screen # NONE
    /\ dialog.screen.state = "requested" /\ ~dialog.decided
    /\ Post("reject")
    /\ UNCHANGED <<server, dialog, loads, polls, since>>

mergeApprovalRetryEligible == dialog.screen.state \in {"rejected", "invalidated", "expired"}

\* Reading the same approval again.
repreviewMergeApproval ==
    /\ Act
    /\ dialog.open /\ dialog.screen # NONE /\ ~mergeApprovalRetryEligible
    /\ dialog' = [dialog EXCEPT !.scrolled = FALSE]
    /\ Load(dialog.screen.id, "look")
    /\ UNCHANGED <<server, polls, posts, since>>

\* Asking anew about one that is closed.
retryMergeApprovalWithFreshSnapshot ==
    /\ Act
    /\ dialog.open /\ dialog.screen # NONE /\ mergeApprovalRetryEligible
    /\ ~dialog.submitting
    /\ dialog' = updateMergeApprovalGate([dialog EXCEPT !.submitting = TRUE])
    /\ Post("retry")
    /\ UNCHANGED <<server, loads, polls, since>>

\* The countdown reaches its end.
tickMergeApprovalTtl ==
    /\ dialog.open /\ dialog.screen # NONE
    /\ dialog.screen.id \in late /\ ~dialog.screen.lapsed
    /\ Draw(dialog)
    /\ UNCHANGED <<server, calls, acts, typedFor>>

-----------------------------------------------------------------------------
(* Reading an approval.                                                    *)

Answered(s, i, x) == [s EXCEPT ![i].answer = x]
Waits(s, i) == i \in DOMAIN s /\ s[i].answer = NONE
Ready(s, i) == i \in DOMAIN s /\ s[i].answer # NONE

ServeLoad(i) ==
    /\ Waits(loads, i)
    /\ loads' = Answered(loads, i, Inspected(loads[i].id))
    /\ inspectMergeApproval(loads[i].id)
    /\ UNCHANGED <<status, main, late, clash, dialog, polls, posts, acts, since>>

Ends(d, then) == IF then = "submit"
                 THEN updateMergeApprovalGate([d EXCEPT !.submitting = FALSE]) ELSE d

\* Another approval than the input was for empties the input.
LandLoad(i) ==
    /\ Ready(loads, i)
    /\ LET x == loads[i].answer
       IN Draw(Ends([dialog EXCEPT !.typed = @ /\ dialog.inputFor = x.id,
                                   !.inputFor = x.id,
                                   !.screen = Shown(x), !.valid = x.valid, !.scan = x.scan,
                                   !.decided = x.state # "requested"],
                    loads[i].then))
    /\ loads' = RemoveAt(loads, i)
    /\ UNCHANGED <<server, polls, posts, acts, typedFor>>

LoadFails(i) ==
    /\ Act
    /\ i \in DOMAIN loads
    /\ dialog' = Ends(dialog, loads[i].then)
    /\ loads' = RemoveAt(loads, i)
    /\ UNCHANGED <<server, polls, posts, since>>

\* Every five seconds while the dialog is open.
Repoll ==
    /\ dialog.open /\ dialog.screen # NONE /\ ~dialog.decided
    /\ ~dialog.polling
    /\ Len(polls) < MaxCalls
    /\ dialog' = [dialog EXCEPT !.polling = TRUE]
    /\ polls' = Append(polls, [id |-> dialog.screen.id, was |-> dialog.screen, answer |-> NONE])
    /\ UNCHANGED <<server, loads, posts, acts, since>>

ServeRepoll(i) ==
    /\ Waits(polls, i)
    /\ polls' = Answered(polls, i, Inspected(polls[i].id))
    /\ inspectMergeApproval(polls[i].id)
    /\ UNCHANGED <<status, main, late, clash, dialog, loads, posts, acts, since>>

\* The same signature: what was on the screen when it asked, with the binding
\* and the scan that are there now.
Unchanged(c) == /\ Shown(c.answer) = c.was
                /\ c.answer.valid = dialog.valid
                /\ c.answer.scan = dialog.scan

\* A poll that returns on an answer it knows already with its flag set.
LandRepollReturns(i) ==
    /\ Ready(polls, i)
    /\ LET x == polls[i].answer
       IN IF Unchanged(polls[i])
          THEN UNCHANGED <<dialog, drawn, read>>
          ELSE Draw([dialog EXCEPT !.screen = Shown(x), !.valid = x.valid,
                                   !.scan = x.scan, !.polling = FALSE])
    /\ polls' = RemoveAt(polls, i)
    /\ UNCHANGED <<server, loads, posts, acts, typedFor>>

LandRepoll(i) ==
    /\ Ready(polls, i)
    /\ LET x == polls[i].answer
       IN IF Unchanged(polls[i])
          THEN dialog' = [dialog EXCEPT !.polling = FALSE] /\ UNCHANGED <<drawn, read>>
          ELSE Draw([dialog EXCEPT !.screen = Shown(x), !.valid = x.valid,
                                   !.scan = x.scan, !.polling = FALSE])
    /\ polls' = RemoveAt(polls, i)
    /\ UNCHANGED <<server, loads, posts, acts, typedFor>>

RepollFails(i) ==
    /\ Act
    /\ i \in DOMAIN polls
    /\ dialog' = [dialog EXCEPT !.polling = FALSE]
    /\ polls' = RemoveAt(polls, i)
    /\ UNCHANGED <<server, loads, posts, since>>

-----------------------------------------------------------------------------
(* Deciding.                                                               *)

Closes(a, state) == appr' = [appr EXCEPT ![a].state = state]
Decided(a, state) == [id |-> a, state |-> state, lapsed |-> FALSE]
Refused == Decided(NONE, "refused")

\* A grant that nothing follows is withdrawn again.
approveAndPromoteMainMerge(a, answer) ==
    \/ /\ appr[a].state = "requested" /\ a \notin late /\ ~Changed(a) /\ a \notin clash
       /\ Closes(a, "consumed")
       /\ \/ /\ status' = [status EXCEPT ![appr[a].task] = "merged"]
             /\ main' = [main EXCEPT !.log = Append(@, appr[a].task)]
          \/ UNCHANGED <<status, main>>
       /\ answer = Decided(a, "consumed")
    \/ /\ appr[a].state = "consumed"
       /\ answer = Decided(a, "consumed")
       /\ UNCHANGED <<appr, status, main>>
    \/ /\ appr[a].state # "requested" \/ a \in late \/ Changed(a) \/ a \in clash
       /\ appr[a].state # "consumed"
       /\ answer = Refused
       /\ IF appr[a].state # "requested" THEN UNCHANGED appr
          ELSE Closes(a, IF a \in late THEN "expired"
                         ELSE IF Changed(a) THEN "invalidated" ELSE "rejected")
       /\ UNCHANGED <<status, main>>

\* Rows of the task that are past their time are closed before a new one is
\* asked for; any other open row keeps the task's slot.
Swept(t) == [a \in Approval |->
                IF a \in openMergeApproval(t) /\ a \in late
                THEN [appr[a] EXCEPT !.state = "expired"] ELSE appr[a]]
retryMerge(a, answer) ==
    LET t == appr[a].task
        slot == openMergeApproval(t) \ late
    IN /\ \/ /\ appr[a].state \in {"rejected", "invalidated", "expired"}
             /\ status[t] = "completed" /\ slot = {}
             /\ \E b \in Approval :
                   /\ appr[b].state = "none"
                   /\ appr' = [Swept(t) EXCEPT ![b] = [task |-> t, state |-> "requested",
                                                       base |-> main.log]]
                   /\ answer = Decided(b, "requested")
          \/ answer = Refused /\ appr' \in {appr, Swept(t)}
       /\ UNCHANGED <<status, main>>

rejectMerge(a, answer) ==
    /\ IF appr[a].state = "requested"
       THEN Closes(a, "rejected") /\ answer = Decided(a, "rejected")
       ELSE answer = Refused /\ UNCHANGED appr
    /\ UNCHANGED <<status, main>>

ServePost(i) ==
    /\ Waits(posts, i)
    /\ \E answer \in {Refused} \cup {Decided(a, s) : a \in Approval,
                                     s \in {"requested", "consumed", "rejected"}} :
          /\ \/ posts[i].kind = "approve" /\ approveAndPromoteMainMerge(posts[i].id, answer)
             \/ posts[i].kind = "reject" /\ rejectMerge(posts[i].id, answer)
             \/ posts[i].kind = "retry" /\ retryMerge(posts[i].id, answer)
          /\ posts' = Answered(posts, i, answer)
    /\ UNCHANGED <<late, clash, dialog, loads, polls, acts, since>>

\* A refusal, or no answer at all: the approval is read again.
Disappoints(c) ==
    IF c.kind = "retry"
    THEN /\ dialog' = updateMergeApprovalGate([dialog EXCEPT !.submitting = FALSE])
         /\ UNCHANGED <<loads, drawn, read>>
    ELSE /\ Load(c.id, IF c.kind = "approve" THEN "submit" ELSE "look")
         /\ UNCHANGED <<dialog, drawn, read>>

LandPost(i) ==
    /\ Ready(posts, i)
    /\ LET c == posts[i]
       IN CASE c.answer = Refused -> Disappoints(c)
            [] c.answer # Refused /\ c.kind = "retry" ->
                 /\ dialog' = [dialog EXCEPT !.inputFor = NONE, !.typed = FALSE,
                                             !.decided = FALSE, !.scrolled = FALSE,
                                             !.scan = NONE]
                 /\ Load(c.answer.id, "submit")
                 /\ UNCHANGED <<drawn, read>>
            [] OTHER ->
                 /\ Draw([dialog EXCEPT !.screen = c.answer, !.decided = TRUE,
                                        !.submitting = IF c.kind = "approve" THEN FALSE ELSE @])
                 /\ UNCHANGED loads
    /\ posts' = RemoveAt(posts, i)
    /\ UNCHANGED <<server, polls, acts, typedFor>>

PostFails(i) ==
    /\ Act
    /\ i \in DOMAIN posts
    /\ Disappoints(posts[i])
    /\ posts' = RemoveAt(posts, i)
    /\ UNCHANGED <<server, polls, typedFor>>

-----------------------------------------------------------------------------
Owner ==
    \/ \E a \in Approval : openMergeApprovalDialog(a) \/ Choose(a)
    \/ closeMergeApprovalDialog \/ Type \/ ScrollToEnd
    \/ approveMergeIntoMain \/ rejectMergeIntoMain
    \/ repreviewMergeApproval \/ retryMergeApprovalWithFreshSnapshot

Reads(i) == ServeLoad(i) \/ LandLoad(i)
Polls(i) == ServeRepoll(i) \/ LandRepoll(i)
Rules(i) == ServePost(i) \/ LandPost(i)

Next ==
    \/ OwnCommit
    \/ \E a \in Approval : Elapse(a) \/ FilesChange(a)
    \/ Owner
    \/ tickMergeApprovalTtl \/ Repoll
    \/ \E i \in 1..MaxCalls : \/ Reads(i) \/ Polls(i) \/ Rules(i)
                              \/ LoadFails(i) \/ RepollFails(i) \/ PostFails(i)

Spec == Init /\ [][Next]_vars

=============================================================================
