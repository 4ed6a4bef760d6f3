------------------------ MODULE MergePromotionProofs ------------------------
(***************************************************************************)
(* Theorems about the merge promotion, for every number of approvals, tasks*)
(* and processes, every subset of hooked merges and faults, and any number *)
(* of deaths.  The inductive invariant relates the promoting call of a     *)
(* record (CallInv, SoleCall), the merge processes (GitInv), the row       *)
(* (RowInv, OneMarker), what a process was told or concluded (MemInv), a   *)
(* re-observation under way (LookInv), the one live question of a task     *)
(* (SoleLive) and the history of main since a record began (LogInv).  At   *)
(* the end every step is shown to be silent, a move of one question, of    *)
(* one record or of one merge, and so a step of the decision.              *)
(***************************************************************************)
EXTENDS MergePromotionProps, TLAPS

-----------------------------------------------------------------------------
(* The inductive invariant.                                                *)

Early == {"approved", "gated", "verified", "restored"}
Driving == {"intent", "spent", "merging", "closed", "observed"}
Drives(p, a) == run[p].step \in Driving /\ run[p].a = a

\* A merge that has nothing more to do.
Done(a) == git[a].leader = "over" /\ ~git[a].group

\* The question of a is open, or its yes is spent and the record not ended.
Live(a) == \/ appr[a].state \in OpenState
           \/ appr[a].state = "consumed" /\ prom[a].state \in {"applying", "manual"}

\* What a call knows of its own record at each step.
EarlyOK(p) == run[p].step \in Early =>
    /\ run[p].a \in Approval
    /\ appr[run[p].a].state \notin {"none", "requested"}
    /\ prom[run[p].a].state = "none"
    /\ ~run[p].spawned
DrivingOK(p) == run[p].step \in Driving =>
    /\ run[p].a \in Approval
    /\ prom[run[p].a].state # "none"
    /\ run[p].a \in ruled \/ prom[run[p].a].state = "applying"
    /\ prom[run[p].a].byCall => prom[run[p].a].state = "applying"
    /\ run[p].step # "intent" => appr[run[p].a].state = "consumed"
    /\ run[p].spawned <=> git[run[p].a].leader # "none"
    /\ run[p].step \in {"intent", "spent"} => ~run[p].spawned
    /\ run[p].step = "merging" => run[p].spawned
    /\ run[p].step \in {"closed", "observed"} /\ run[p].spawned =>
          git[run[p].a].leader = "over"
ObservedOK(p) == run[p].step = "observed" =>
    /\ run[p].seen # "none"
    /\ run[p].over => ~run[p].group
    /\ run[p].over /\ run[p].a \notin ruled => Done(run[p].a)
    /\ ~run[p].group => ~git[run[p].a].group
    /\ run[p].seen \in {"applied", "authorized"} /\ run[p].a \notin ruled =>
          Credited(run[p].a) # {}
    /\ run[p].seen = "rolled-back" => ~git[run[p].a].landed
CallInv == \A p \in Proc : EarlyOK(p) /\ DrivingOK(p) /\ ObservedOK(p)

\* A record is driven by one call.
SoleCall == \A p, q \in Proc :
    (run[p].step # "idle" /\ run[q].step # "idle" /\ run[p].a = run[q].a) => p = q

GitOK(a) ==
    /\ git[a].leader = "none" => ~git[a].group /\ ~git[a].landed
    /\ git[a].leader # "none" => appr[a].state = "consumed"
    /\ git[a].landed => git[a].leader \in {"commit", "over"}
    /\ Running(a) => ~git[a].group
    /\ Running(a) /\ a \notin ruled => prom[a].state = "applying"
GitInv == \A a \in Approval : GitOK(a)

RowOK(a) ==
    /\ appr[a].state # "none" => appr[a].task \in Task
    /\ prom[a].state # "none" => appr[a].state \notin {"none", "requested"}
    /\ prom[a].state = "none" => git[a].leader = "none"
    /\ appr[a].state = "consumed" => prom[a].state # "none"
    /\ prom[a].hint = "reset" => Done(a)
    /\ prom[a].state = "manual" /\ a \notin ruled => appr[a].state = "consumed"
RowInv == \A a \in Approval : RowOK(a)

OneMarker == \A a, b \in Approval :
    holdsExclusiveMarker(a) /\ holdsExclusiveMarker(b) => a = b

MemInv == \A p \in Proc :
    /\ mem[p].declared \subseteq ruled
    /\ \A a \in mem[p].concluded \ ruled : Done(a)

\* Nobody drives the record, nor will.
Settled(a) == /\ prom[a].state # "none"
              /\ ~Running(a)
              /\ \A q \in Proc : ~Drives(q, a)
LookOK(p) == look[p].a # NONE =>
    /\ look[p].seen # "none"
    /\ look[p].row.state \in {"applying", "manual"}
    /\ look[p].by => look[p].a \in ruled
    /\ look[p].row.state = "manual" /\ look[p].a \notin ruled =>
          /\ Settled(look[p].a)
          /\ look[p].seen \in {"applied", "authorized"} => Credited(look[p].a) # {}
          /\ look[p].seen = "rolled-back" => ~git[look[p].a].landed
LookInv == \A p \in Proc : LookOK(p)

SoleLive == \A a, b \in Approval :
    Live(a) /\ Live(b) /\ appr[a].task = appr[b].task => a = b

\* A merge of the task since main was at before is credited to the record.
Accounted(a, before) ==
    \A i \in DOMAIN main.log :
        i > Len(before) /\ main.log[i] = appr[a].task => Credited(a) # {}
LogInv ==
    /\ \A a \in Approval :
          /\ Len(prom[a].before) <= Len(main.log)
          /\ git[a].landed => Len(prom[a].before) < Len(main.log)
          /\ prom[a].state # "none" /\ Live(a) /\ a \notin ruled =>
                Accounted(a, prom[a].before)
    /\ \A p \in Proc :
          /\ Len(run[p].before) <= Len(main.log)
          /\ run[p].step = "restored" /\ Live(run[p].a) /\ run[p].a \notin ruled =>
                Accounted(run[p].a, run[p].before)

IInv == /\ TypeOK /\ CallInv /\ SoleCall /\ GitInv /\ RowInv /\ OneMarker
        /\ MemInv /\ LookInv /\ SoleLive /\ LogInv

-----------------------------------------------------------------------------
(* The moves of a question, and types.                                     *)

Asked(a, t) ==
    /\ appr[a].state = "none" /\ openMergeApproval(t) = {}
    /\ appr' = [appr EXCEPT ![a] = [task |-> t, state |-> "requested",
                                    base |-> main.log]]
Becomes(a, from, to) ==
    appr[a].state \in from /\ appr' = [appr EXCEPT ![a].state = to]
Closed(a) == \E s \in {"rejected", "expired", "invalidated"} :
                Becomes(a, OpenState, s)

LEMMA ApprTypes ==
    ASSUME appr \in [Approval -> ApprovalRow], main.log \in Log, NEW a \in Approval,
           \/ UNCHANGED appr
           \/ \E t \in Task : Asked(a, t)
           \/ Becomes(a, {"requested"}, "approved") \/ Closed(a)
           \/ Becomes(a, {"approved"}, "consumed")
    PROVE  appr' \in [Approval -> ApprovalRow]
<1>1. ASSUME NEW from, NEW s \in OpenState \cup ClosedState, Becomes(a, from, s)
      PROVE  appr' \in [Approval -> ApprovalRow]
  BY <1>1 DEF ApprovalRow, Becomes
<1>2. ASSUME NEW t \in Task, Asked(a, t) PROVE appr' \in [Approval -> ApprovalRow]
  BY <1>2 DEF ApprovalRow, Asked, OpenState, Log
<1>3. CASE Closed(a)
  BY <1>1, <1>3 DEF Closed, ClosedState
<1>4. CASE Becomes(a, {"requested"}, "approved") \/ Becomes(a, {"approved"}, "consumed")
  BY <1>1, <1>4 DEF OpenState, ClosedState
<1> QED
  BY <1>2, <1>3, <1>4

LEMMA NothingTyped ==
    /\ NoRun \in PromotingCall
    /\ NoPromotion \in PromotionRow
    /\ NoLook \in Reobservation
    /\ NoMem \in FirstHand
    /\ NoGit \in MergeProcess
<1>1. NoPromotion \in PromotionRow
  BY DEF NoPromotion, PromotionRow, Log
<1> QED
  BY <1>1 DEF NoRun, NoLook, NoMem, NoGit, Log, Step, Outcome, PromotingCall,
     Reobservation, FirstHand, MergeProcess

LEMMA TypeInit == Init => TypeOK
<1> SUFFICES ASSUME Init PROVE TypeOK
  OBVIOUS
<1>1. ApprovalTypeOK
  BY DEF Init, ApprovalInit, ApprovalTypeOK, ApprovalRow, NoApproval
<1> QED
  BY <1>1, NothingTyped, PromotionAssumption DEF Init, TypeOK

RowState == {"none", "applying", "applied", "rolled-back", "manual"}
Hint == {"none", "look", "reset"}

-----------------------------------------------------------------------------
(* What the writers of each variable change, and what they keep.           *)

SameCall(q) == /\ run'[q].a = run[q].a /\ run'[q].before = run[q].before
               /\ run'[q].spawned = run[q].spawned
Others(p) == \A q \in Proc \ {p} : run'[q] = run[q]

LEMMA GotoMoves ==
    ASSUME run \in [Proc -> PromotingCall], NEW p \in Proc, NEW s \in Step, Goto(p, s)
    PROVE  /\ run' \in [Proc -> PromotingCall]
           /\ Others(p) /\ SameCall(p) /\ run'[p].step = s
  BY DEF Goto, PromotingCall, Others, SameCall

LEMMA ReturnMoves ==
    ASSUME run \in [Proc -> PromotingCall], NEW p \in Proc, Return(p)
    PROVE  /\ run' \in [Proc -> PromotingCall]
           /\ Others(p) /\ run'[p] = NoRun
  BY NothingTyped DEF Return, Others

LEMMA ApproveMoves ==
    ASSUME run \in [Proc -> PromotingCall], NEW p \in Proc, NEW a \in Approval,
           ApproveAndPromote(p, a)
    PROVE  /\ run' \in [Proc -> PromotingCall]
           /\ Others(p) /\ run'[p].step = "approved" /\ run'[p].a = a
           /\ run'[p].before = <<>> /\ ~run'[p].spawned
<1>1. [NoRun EXCEPT !.step = "approved", !.a = a] \in PromotingCall
  BY NothingTyped DEF PromotingCall, Step
<1>2. run' = [run EXCEPT ![p] = [NoRun EXCEPT !.step = "approved", !.a = a]]
  BY DEF ApproveAndPromote
<1> QED
  BY <1>1, <1>2 DEF Others, NoRun

LEMMA RestorePointMoves ==
    ASSUME run \in [Proc -> PromotingCall], main.log \in Log, NEW p \in Proc, RestorePoint(p)
    PROVE  /\ run' \in [Proc -> PromotingCall]
           /\ Others(p) /\ run'[p].step = "restored" /\ run'[p].a = run[p].a
           /\ run'[p].before = main.log /\ run'[p].spawned = run[p].spawned
<1>1. run' = [run EXCEPT ![p].step = "restored", ![p].before = main.log]
  BY DEF RestorePoint
<1> QED
  BY <1>1 DEF PromotingCall, Step, Others

\* What a call that observes may take as the end of its merge.
MayConclude(p) ==
    LET a == run[p].a IN
    /\ ~(run[p].spawned /\ git[a].group)
    /\ mergeWriteConclusion(p, a) \/ (run[p].spawned /\ ~Survivors(a))

LEMMA ObserveMoves ==
    ASSUME TypeOK, NEW p \in Proc, run[p].a \in Approval, ObservePromotion(p)
    PROVE  /\ run' \in [Proc -> PromotingCall]
           /\ Others(p) /\ SameCall(p) /\ run'[p].step = "observed"
           /\ run'[p].seen = observeMain(run[p].a)
           /\ run'[p].group = (run[p].spawned /\ git[run[p].a].group)
           /\ run'[p].over => MayConclude(p)
<1> DEFINE a == run[p].a
           group == run[p].spawned /\ git[a].group
           over == /\ ~group
                   /\ \/ mergeWriteConclusion(p, a)
                      \/ run[p].spawned /\ a \notin Hooked /\ ~Survivors(a)
           seen == observeMain(a)
<1>0. run \in [Proc -> PromotingCall] /\ git \in [Approval -> MergeProcess]
  BY DEF TypeOK
<1>1. seen \in Outcome
  BY DEF observeMain, Outcome
<1>2. over \in BOOLEAN
  BY DEF mergeWriteConclusion
<1>3. group \in BOOLEAN
  BY <1>0 DEF PromotingCall, MergeProcess
<1>4. run' = [run EXCEPT ![p] = [@ EXCEPT !.step = "observed", !.seen = seen,
                                          !.over = over, !.group = group]]
  BY DEF ObservePromotion
<1>5. over => MayConclude(p)
  BY DEF MayConclude
<1> HIDE DEF over, group, seen
<1>6. [run[p] EXCEPT !.step = "observed", !.seen = seen, !.over = over, !.group = group]
      \in PromotingCall
  BY <1>0, <1>1, <1>2, <1>3 DEF PromotingCall, Step
<1>7. /\ run' \in [Proc -> PromotingCall]
      /\ Others(p)
      /\ run'[p] = [run[p] EXCEPT !.step = "observed", !.seen = seen, !.over = over,
                                  !.group = group]
  BY <1>0, <1>4, <1>6 DEF Others
<1>8. /\ SameCall(p) /\ run'[p].step = "observed" /\ run'[p].seen = seen
      /\ run'[p].group = group /\ run'[p].over = over
  BY <1>7, <1>0 DEF PromotingCall, SameCall
<1> QED
  BY <1>5, <1>7, <1>8 DEF group, seen

OtherRows(a) == \A b \in Approval \ {a} : prom'[b] = prom[b]
SameRow(a) == /\ prom'[a].before = prom[a].before /\ prom'[a].owner = prom[a].owner

LEMMA WriteMoves ==
    ASSUME prom \in [Approval -> PromotionRow], NEW a \in Approval,
           NEW s \in RowState, NEW h \in Hint, NEW c \in BOOLEAN, writePromotion(a, s, h, c)
    PROVE  /\ prom' \in [Approval -> PromotionRow]
           /\ OtherRows(a) /\ SameRow(a)
           /\ prom'[a].state = s /\ prom'[a].hint = h /\ prom'[a].byCall = c
<1> DEFINE r == [prom[a] EXCEPT !.state = s, !.hint = h, !.byCall = c]
<1>1. r \in PromotionRow
  BY DEF PromotionRow, RowState, Hint
<1>2. prom' = [prom EXCEPT ![a] = r]
  BY DEF writePromotion, PromotionRow
<1>3. /\ r.state = s /\ r.hint = h /\ r.byCall = c
      /\ r.before = prom[a].before /\ r.owner = prom[a].owner
  BY DEF PromotionRow
<1> HIDE DEF r
<1>4. prom'[a] = r
  BY <1>2
<1> QED
  BY <1>1, <1>2, <1>3, <1>4 DEF OtherRows, SameRow

LEMMA InsertMoves ==
    ASSUME prom \in [Approval -> PromotionRow], run \in [Proc -> PromotingCall],
           NEW p \in Proc, run[p].a \in Approval, InsertPromotion(p)
    PROVE  LET a == run[p].a IN
           /\ prom' \in [Approval -> PromotionRow]
           /\ OtherRows(a) /\ prom'[a].state = "applying" /\ prom'[a].hint = "none"
           /\ prom'[a].byCall /\ prom'[a].before = run[p].before
<1> DEFINE a == run[p].a
           r == [NoPromotion EXCEPT !.state = "applying", !.owner = p,
                                    !.before = run[p].before, !.byCall = TRUE]
<1>1. r \in PromotionRow
  BY DEF NoPromotion, PromotionRow, PromotingCall
<1>2. prom' = [prom EXCEPT ![a] = r]
  BY DEF InsertPromotion
<1>3. r.state = "applying" /\ r.hint = "none" /\ r.byCall /\ r.before = run[p].before
  BY DEF NoPromotion
<1> HIDE DEF r
<1> QED
  BY <1>1, <1>2, <1>3 DEF OtherRows

OtherMerges(a) == \A b \in Approval \ {a} : git'[b] = git[b]
SameMerge(a) == git'[a].group = git[a].group /\ git'[a].landed = git[a].landed

LEMMA MergeIntoHeadMoves ==
    ASSUME TypeOK, NEW p \in Proc, run[p].a \in Approval, MergeIntoHead(p)
    PROVE  LET a == run[p].a IN
           /\ run' \in [Proc -> PromotingCall] /\ Others(p)
           /\ run'[p].step = "merging" /\ run'[p].spawned /\ run'[p].a = a
           /\ run'[p].before = run[p].before
           /\ prom' \in [Approval -> PromotionRow] /\ OtherRows(a) /\ SameRow(a)
           /\ prom'[a].state = prom[a].state /\ prom'[a].hint = prom[a].hint
           /\ prom'[a].byCall = prom[a].byCall
           /\ git' \in [Approval -> MergeProcess] /\ OtherMerges(a) /\ SameMerge(a)
           /\ git'[a].leader = "start"
<1> DEFINE a == run[p].a
<1>0. /\ run \in [Proc -> PromotingCall] /\ prom \in [Approval -> PromotionRow]
      /\ git \in [Approval -> MergeProcess]
  BY DEF TypeOK
<1>1. run' = [run EXCEPT ![p].step = "merging", ![p].spawned = TRUE]
  BY DEF MergeIntoHead
<1>2. git' = [git EXCEPT ![a].leader = "start"]
  BY DEF MergeIntoHead
<1>3. PICK n \in BOOLEAN : prom' = [prom EXCEPT ![a].named = n]
  BY DEF MergeIntoHead
<1>4. /\ run' \in [Proc -> PromotingCall] /\ Others(p)
      /\ run'[p].step = "merging" /\ run'[p].spawned /\ run'[p].a = a
      /\ run'[p].before = run[p].before
  BY <1>0, <1>1 DEF PromotingCall, Step, Others
<1>5. /\ git' \in [Approval -> MergeProcess] /\ OtherMerges(a) /\ SameMerge(a)
      /\ git'[a].leader = "start"
  BY <1>0, <1>2 DEF MergeProcess, OtherMerges, SameMerge
<1>6. /\ prom' \in [Approval -> PromotionRow] /\ OtherRows(a) /\ SameRow(a)
      /\ prom'[a].state = prom[a].state /\ prom'[a].hint = prom[a].hint
      /\ prom'[a].byCall = prom[a].byCall
  BY <1>0, <1>3 DEF PromotionRow, OtherRows, SameRow
<1> QED
  BY <1>4, <1>5, <1>6

\* A step of git: the leader gets to l, the group is left as g.
GitStep(a, l) == /\ git' \in [Approval -> MergeProcess] /\ OtherMerges(a)
                 /\ git'[a].leader = l

LEMMA GitMoves ==
    ASSUME git \in [Approval -> MergeProcess], NEW a \in Approval
    PROVE  /\ GitWritesTree(a) => GitStep(a, "tree") /\ SameMerge(a)
           /\ GitCommits(a) => /\ GitStep(a, "commit") /\ git'[a].landed
                               /\ git'[a].group = git[a].group
           /\ \A e : e \in {"ok", "bad"} /\ Ends(a, e) =>
                 GitStep(a, "over") /\ git'[a].landed = git[a].landed
           /\ GroupEnds(a) => /\ GitStep(a, git[a].leader) /\ ~git'[a].group
                              /\ git'[a].landed = git[a].landed
<1>1. ASSUME NEW l \in {"start", "tree"}, git' = [git EXCEPT ![a].leader = l]
      PROVE  GitStep(a, l) /\ SameMerge(a)
  BY <1>1 DEF MergeProcess, GitStep, OtherMerges, SameMerge
<1>2. ASSUME git' = [git EXCEPT ![a] = [@ EXCEPT !.leader = "commit", !.landed = TRUE]]
      PROVE  /\ GitStep(a, "commit") /\ git'[a].landed
             /\ git'[a].group = git[a].group
  BY <1>2 DEF MergeProcess, GitStep, OtherMerges
<1>3. ASSUME NEW e \in {"ok", "bad"}, NEW g \in BOOLEAN,
             git' = [git EXCEPT ![a] = [@ EXCEPT !.leader = "over", !.exit = e,
                                                 !.group = g]]
      PROVE  GitStep(a, "over") /\ git'[a].landed = git[a].landed
  BY <1>3 DEF MergeProcess, GitStep, OtherMerges
<1>4. ASSUME git' = [git EXCEPT ![a].group = FALSE]
      PROVE  /\ GitStep(a, git[a].leader) /\ ~git'[a].group
             /\ git'[a].landed = git[a].landed
  BY <1>4 DEF MergeProcess, GitStep, OtherMerges
<1>5. ASSUME NEW e \in {"ok", "bad"}, Ends(a, e)
      PROVE  GitStep(a, "over") /\ git'[a].landed = git[a].landed
  <2>1. PICK g \in BOOLEAN :
           git' = [git EXCEPT ![a] = [@ EXCEPT !.leader = "over", !.exit = e,
                                               !.group = g]]
    BY <1>5 DEF Ends, Leavings
  <2> QED
    BY <2>1, <1>3
<1>6. GitWritesTree(a) => GitStep(a, "tree") /\ SameMerge(a)
  <2>1. GitWritesTree(a) => git' = [git EXCEPT ![a].leader = "tree"]
    BY DEF GitWritesTree
  <2> QED
    BY <2>1, <1>1
<1>7. GitCommits(a) => /\ GitStep(a, "commit") /\ git'[a].landed
                       /\ git'[a].group = git[a].group
  BY <1>2 DEF GitCommits
<1>8. GroupEnds(a) => /\ GitStep(a, git[a].leader) /\ ~git'[a].group
                      /\ git'[a].landed = git[a].landed
  BY <1>4 DEF GroupEnds
<1> QED
  BY <1>5, <1>6, <1>7, <1>8

\* The memory of a process: what it was told and what it concluded.
SameTold == \A q \in Proc : /\ mem'[q].declared = mem[q].declared
                            /\ mem'[q].concluded = mem[q].concluded

LEMMA AttestMoves ==
    ASSUME mem \in [Proc -> FirstHand], NEW p \in Proc, NEW a \in Approval, NEW s,
           mem' = attestPromotion(p, a, s) \/ mem' = Forget(a)
    PROVE  mem' \in [Proc -> FirstHand] /\ SameTold
<1>1. ASSUME NEW q \in Proc
      PROVE  /\ [mem[q] EXCEPT !.attested = @ \cup {a}, !.settled = @ \cup {a}] \in FirstHand
             /\ [mem[q] EXCEPT !.attested = @ \ {a}] \in FirstHand
  BY DEF FirstHand
<1>2. CASE mem' = attestPromotion(p, a, s)
  BY <1>1, <1>2 DEF attestPromotion, SameTold, FirstHand
<1>3. CASE mem' = Forget(a)
  BY <1>1, <1>3 DEF Forget, SameTold, FirstHand
<1> QED
  BY <1>2, <1>3

LEMMA DeclarationMoves ==
    ASSUME mem \in [Proc -> FirstHand], NEW p \in Proc, NEW a \in Approval,
           recordOwnerDeclaration(p, a)
    PROVE  /\ mem' \in [Proc -> FirstHand]
           /\ \A q \in Proc : /\ mem'[q].declared \subseteq mem[q].declared \cup {a}
                              /\ mem'[q].concluded = mem[q].concluded
<1> DEFINE m == Forget(a)
<1>1. ASSUME NEW q \in Proc PROVE [mem[q] EXCEPT !.attested = @ \ {a}] \in FirstHand
  BY DEF FirstHand
<1>2. /\ m \in [Proc -> FirstHand]
      /\ \A q \in Proc : /\ m[q].declared = mem[q].declared
                         /\ m[q].concluded = mem[q].concluded
  BY <1>1 DEF Forget, FirstHand
<1>3. mem' = [m EXCEPT ![p].declared = @ \cup {a}]
  BY DEF recordOwnerDeclaration
<1> HIDE DEF m
<1>4. mem' \in [Proc -> FirstHand]
  BY <1>2, <1>3 DEF FirstHand
<1>5. \A q \in Proc : /\ mem'[q].declared \subseteq m[q].declared \cup {a}
                      /\ mem'[q].concluded = m[q].concluded
  BY <1>2, <1>3 DEF FirstHand
<1> QED
  BY <1>2, <1>4, <1>5

LEMMA ConclusionMoves ==
    ASSUME mem \in [Proc -> FirstHand], NEW p \in Proc, run[p].a \in Approval,
           ObservePromotion(p)
    PROVE  /\ mem' \in [Proc -> FirstHand]
           /\ \A q \in Proc : /\ mem'[q].declared = mem[q].declared
                              /\ mem'[q].concluded \subseteq mem[q].concluded \cup {run[p].a}
                              /\ mem'[q].concluded # mem[q].concluded =>
                                    q = p /\ MayConclude(p)
<1> DEFINE a == run[p].a
<1>1. CASE UNCHANGED mem
  BY <1>1
<1>2. CASE MayConclude(p) /\ mem' = [mem EXCEPT ![p].concluded = @ \cup {a}]
  BY <1>2 DEF FirstHand
<1>3. \/ UNCHANGED mem
      \/ MayConclude(p) /\ mem' = [mem EXCEPT ![p].concluded = @ \cup {a}]
  BY DEF ObservePromotion, MayConclude
<1> QED
  BY <1>1, <1>2, <1>3

LEMMA AcknowledgeMoves ==
    ASSUME mem \in [Proc -> FirstHand], ruled \subseteq Approval, NEW p \in Proc,
           AcknowledgeUnattestedPromotions(p)
    PROVE  /\ mem' \in [Proc -> FirstHand]
           /\ ruled \subseteq ruled' /\ ruled' \subseteq Approval
           /\ \A q \in Proc : /\ mem'[q].declared \subseteq mem[q].declared \cup ruled'
                              /\ mem'[q].concluded = mem[q].concluded
<1>1. PICK rows \in SUBSET Approval :
         /\ mem' = [mem EXCEPT ![p].attested = @ \cup rows, ![p].settled = @ \cup rows,
                               ![p].declared = @ \cup rows]
         /\ ruled' = ruled \cup rows
  BY DEF AcknowledgeUnattestedPromotions
<1> DEFINE r == [mem[p] EXCEPT !.attested = @ \cup rows, !.settled = @ \cup rows,
                               !.declared = @ \cup rows]
<1>2. mem' = [mem EXCEPT ![p] = r]
  BY <1>1 DEF FirstHand
<1>3. r \in FirstHand /\ r.declared = mem[p].declared \cup rows
      /\ r.concluded = mem[p].concluded
  BY DEF FirstHand
<1> HIDE DEF r
<1> QED
  BY <1>1, <1>2, <1>3

\* The owner's rulings rewrite a record without saying how it ended.
Rewritten(p, a) == \/ RewritePromotion(p, a, [prom[a] EXCEPT !.named = FALSE])
                   \/ RewritePromotion(p, a, [prom[a] EXCEPT !.disowned = TRUE])
                   \/ RewritePromotion(p, a, [prom[a] EXCEPT !.named = FALSE,
                                                             !.disowned = TRUE])

LEMMA RewriteMoves ==
    ASSUME TypeOK, NEW p \in Proc, NEW a \in Approval, Rewritten(p, a)
    PROVE  /\ prom' \in [Approval -> PromotionRow] /\ OtherRows(a) /\ SameRow(a)
           /\ prom'[a].state = prom[a].state /\ prom'[a].hint = prom[a].hint
           /\ ~prom'[a].byCall
           /\ UNCHANGED <<approvalVars, git, run, orphan, deaths>>
           /\ \/ UNCHANGED look
              \/ MayLook(a)' /\ look' = [look EXCEPT ![p] = Looked(p, a, prom[a])']
<1>0. prom \in [Approval -> PromotionRow] /\ prom[a] \in PromotionRow
  BY DEF TypeOK
<1>1. ASSUME NEW row \in PromotionRow, RewritePromotion(p, a, row),
             row.state = prom[a].state, row.hint = prom[a].hint,
             row.before = prom[a].before, row.owner = prom[a].owner
      PROVE  /\ prom' \in [Approval -> PromotionRow] /\ OtherRows(a) /\ SameRow(a)
             /\ prom'[a].state = prom[a].state /\ prom'[a].hint = prom[a].hint
             /\ ~prom'[a].byCall
  <2> DEFINE r == [row EXCEPT !.byCall = FALSE]
  <2>1. /\ r \in PromotionRow /\ ~r.byCall
        /\ r.state = row.state /\ r.hint = row.hint
        /\ r.before = row.before /\ r.owner = row.owner
    BY DEF PromotionRow
  <2>2. prom' = [prom EXCEPT ![a] = r]
    BY <1>1 DEF RewritePromotion
  <2> HIDE DEF r
  <2> QED
    BY <2>1, <2>2, <1>0, <1>1 DEF OtherRows, SameRow
<1>2. PICK row \in PromotionRow :
         /\ RewritePromotion(p, a, row)
         /\ row.state = prom[a].state /\ row.hint = prom[a].hint
         /\ row.before = prom[a].before /\ row.owner = prom[a].owner
  <2>1. \A n, d \in BOOLEAN : \A row \in {[prom[a] EXCEPT !.named = n],
            [prom[a] EXCEPT !.disowned = d], [prom[a] EXCEPT !.named = n, !.disowned = d]} :
         /\ row \in PromotionRow
         /\ row.state = prom[a].state /\ row.hint = prom[a].hint
         /\ row.before = prom[a].before /\ row.owner = prom[a].owner
    BY <1>0 DEF PromotionRow
  <2>2. CASE RewritePromotion(p, a, [prom[a] EXCEPT !.named = FALSE])
    <3> [prom[a] EXCEPT !.named = FALSE] \in PromotionRow
      BY <2>1
    <3> WITNESS [prom[a] EXCEPT !.named = FALSE] \in PromotionRow
    <3> QED
      BY <2>1, <2>2
  <2>3. CASE RewritePromotion(p, a, [prom[a] EXCEPT !.disowned = TRUE])
    <3> [prom[a] EXCEPT !.disowned = TRUE] \in PromotionRow
      BY <2>1
    <3> WITNESS [prom[a] EXCEPT !.disowned = TRUE] \in PromotionRow
    <3> QED
      BY <2>1, <2>3
  <2>4. CASE RewritePromotion(p, a, [prom[a] EXCEPT !.named = FALSE, !.disowned = TRUE])
    <3> [prom[a] EXCEPT !.named = FALSE, !.disowned = TRUE] \in PromotionRow
      BY <2>1
    <3> WITNESS [prom[a] EXCEPT !.named = FALSE, !.disowned = TRUE] \in PromotionRow
    <3> QED
      BY <2>1, <2>4
  <2> QED
    BY <2>2, <2>3, <2>4 DEF Rewritten
<1>3. /\ UNCHANGED <<approvalVars, git, run, orphan, deaths>>
      /\ look' = IF MayLook(a)' THEN [look EXCEPT ![p] = Looked(p, a, prom[a])']
                 ELSE look
  BY <1>2 DEF RewritePromotion
<1>4. /\ prom' \in [Approval -> PromotionRow] /\ OtherRows(a) /\ SameRow(a)
      /\ prom'[a].state = prom[a].state /\ prom'[a].hint = prom[a].hint
      /\ ~prom'[a].byCall
  BY <1>1, <1>2
<1> QED
  BY <1>3, <1>4

LEMMA WhatIsSeen ==
    ASSUME git \in [Approval -> MergeProcess], prom \in [Approval -> PromotionRow],
           NEW p \in Proc, NEW a \in Approval, NEW row \in PromotionRow
    PROVE  /\ observeMain(a) \in Outcome \ {"none"}
           /\ Looked(p, a, row) \in Reobservation
           /\ Looked(p, a, row).a = a /\ Looked(p, a, row).row = row
           /\ Looked(p, a, row).seen = observeMain(a)
           /\ Looked(p, a, row).by => a \in mem[p].declared
<1>1. observeMain(a) \in Outcome \ {"none"}
  BY DEF observeMain, Outcome
<1>2. mergeWriteConclusion(p, a) \in BOOLEAN
  BY DEF mergeWriteConclusion
<1>3. prom[a].named \in BOOLEAN /\ git[a].group \in BOOLEAN
  BY DEF PromotionRow, MergeProcess
<1>4. Survivors(a) \in BOOLEAN
  BY <1>3 DEF Survivors
<1>5. Looked(p, a, row) \in Reobservation
  BY <1>1, <1>2, <1>4 DEF Looked, Reobservation
<1> QED
  BY <1>1, <1>5 DEF Looked

\* A record written by the promoting call, or by a re-observation.
WrittenAs(a, s, h, c) ==
    /\ prom' \in [Approval -> PromotionRow] /\ OtherRows(a) /\ SameRow(a)
    /\ prom'[a].state = s /\ prom'[a].hint = h /\ prom'[a].byCall = c

LEMMA SettleMoves ==
    ASSUME TypeOK, NEW p \in Proc, run[p].a \in Approval, run[p].seen # "none",
           SettlePromotion(p), prom[run[p].a].byCall
    PROVE  LET r == run[p] IN
           /\ mem' \in [Proc -> FirstHand] /\ SameTold
           /\ markCandidateMerged(r.a, r.seen = "applied")
           /\ \E s \in RowState \ {"none"}, h \in Hint :
                 /\ WrittenAs(r.a, s, h, s = "applying")
                 /\ s = "applied" => r.seen = "applied" /\ ~r.group
                 /\ s = "rolled-back" => r.seen = "rolled-back" /\ (r.over \/ ~r.spawned)
                 /\ s = "manual" => \/ r.seen = "authorized"
                                    \/ r.seen = "manual" /\ r.over
                 /\ h = "reset" => r.over /\ r.spawned
<1>0. /\ prom \in [Approval -> PromotionRow] /\ mem \in [Proc -> FirstHand]
      /\ run[p].seen \in Outcome \ {"none"}
  BY DEF TypeOK, PromotingCall
<1> DEFINE a == run[p].a
           s == IF ~run[p].over /\ ~selfEvidencingOutcome(run[p].seen, ~run[p].spawned)
                THEN "applying" ELSE holdMarkerOverSurvivors(run[p].seen, run[p].group)
           h == recoveryHint(run[p].seen, s, run[p].over,
                             run[p].spawned /\ ~ownerDeclarationHere(p, a))
<1>1. s \in RowState \ {"none"} /\ h \in Hint
  BY <1>0 DEF holdMarkerOverSurvivors, recoveryHint, RowState, Hint, Outcome, Merged
<1>2. /\ s = "applied" => run[p].seen = "applied" /\ ~run[p].group
      /\ s = "rolled-back" => run[p].seen = "rolled-back" /\ (run[p].over \/ ~run[p].spawned)
      /\ s = "manual" => \/ run[p].seen = "authorized"
                         \/ run[p].seen = "manual" /\ run[p].over
      /\ h = "reset" => run[p].over /\ run[p].spawned
  BY <1>0 DEF holdMarkerOverSurvivors, recoveryHint, selfEvidencingOutcome, Outcome, Merged
<1>3. /\ writePromotion(a, s, h, s = "applying") /\ mem' = attestPromotion(p, a, s)
      /\ markCandidateMerged(a, run[p].seen = "applied")
  BY DEF SettlePromotion
<1> HIDE DEF s, h
<1>4. WrittenAs(a, s, h, s = "applying")
  <2>1. PICK c \in BOOLEAN : c = (s = "applying")
    OBVIOUS
  <2>2. writePromotion(a, s, h, c)
    BY <1>3, <2>1
  <2>3. WrittenAs(a, s, h, c)
    BY <1>0, <1>1, <2>2, WriteMoves DEF WrittenAs
  <2> QED
    BY <2>1, <2>3
<1>5. mem' \in [Proc -> FirstHand] /\ SameTold
  BY <1>0, <1>3, AttestMoves
<1> QED
  BY <1>1, <1>2, <1>3, <1>4, <1>5

LEMMA ResolveMoves ==
    ASSUME TypeOK, NEW p \in Proc, ResolveWrites(p), look[p].seen # "none",
           look[p].row.state \in {"applying", "manual"}
    PROVE  LET v == look[p] IN
           /\ v.a \in Approval
           /\ UNCHANGED <<appr, main, git, run, orphan, deaths, ruled>>
           /\ look' = [look EXCEPT ![p] = NoLook]
           /\ mem' \in [Proc -> FirstHand] /\ SameTold
           /\ \/ UNCHANGED <<prom, mem, status>>
              \/ /\ prom[v.a] = v.row
                 /\ markCandidateMerged(v.a, v.by /\ v.seen = "applied")
                 /\ \E s \in RowState \ {"none"}, h \in Hint \ {"reset"} :
                       /\ WrittenAs(v.a, s, h, FALSE)
                       /\ s = "applying" => MarkerFree(v.a)
                       /\ s = "applied" => v.seen = "applied"
                       /\ s = "rolled-back" => v.seen = "rolled-back"
                       /\ v.row.state = "applying" /\ s # "applying" => v.by
<1>0. /\ prom \in [Approval -> PromotionRow] /\ mem \in [Proc -> FirstHand]
      /\ look[p].seen \in Outcome \ {"none"} /\ look[p].a \in Approval
  BY DEF TypeOK, Reobservation, ResolveWrites
<1> DEFINE v == look[p]
           a == v.a
           wanted == holdMarkerOverSurvivors(v.seen, v.group)
           leaves == v.row.state = "applying" /\ wanted # "applying"
           claim == v.over \/ selfEvidencingOutcome(v.seen, FALSE)
           s == IF ~claim \/ (leaves /\ ~v.by) THEN "applying" ELSE wanted
           seen == IF claim /\ leaves /\ ~v.by THEN "manual" ELSE v.seen
           h == recoveryHint(seen, s, v.over, FALSE)
<1>1. s \in RowState \ {"none"} /\ h \in Hint \ {"reset"}
  BY <1>0 DEF holdMarkerOverSurvivors, recoveryHint, RowState, Hint, Outcome, Merged
<1>2. /\ s = "applied" => v.seen = "applied"
      /\ s = "rolled-back" => v.seen = "rolled-back"
      /\ v.row.state = "applying" /\ s # "applying" => v.by
  BY <1>0 DEF holdMarkerOverSurvivors, selfEvidencingOutcome, Outcome, Merged
<1>3. /\ UNCHANGED <<appr, main, git, run, orphan, deaths, ruled>>
      /\ look' = [look EXCEPT ![p] = NoLook]
  BY DEF ResolveWrites
<1>4. \/ UNCHANGED <<prom, mem, status>>
      \/ /\ prom[a] = v.row /\ (s = "applying" => MarkerFree(a))
         /\ writePromotion(a, s, h, FALSE)
         /\ mem' = attestPromotion(p, a, s)
         /\ markCandidateMerged(a, v.by /\ v.seen = "applied")
  BY DEF ResolveWrites
<1> HIDE DEF s, h
<1>5. writePromotion(a, s, h, FALSE) => WrittenAs(a, s, h, FALSE)
  BY <1>0, <1>1, WriteMoves DEF WrittenAs
<1>6. mem' = attestPromotion(p, a, s) => mem' \in [Proc -> FirstHand] /\ SameTold
  BY <1>0, AttestMoves
<1>7. UNCHANGED mem => mem' \in [Proc -> FirstHand] /\ SameTold
  BY <1>0 DEF SameTold
<1> QED
  BY <1>0, <1>1, <1>2, <1>3, <1>4, <1>5, <1>6, <1>7

LEMMA Questions ==
    ASSUME NEW p \in Proc, NEW a \in Approval
    PROVE  /\ \A t : RequestMainMerge(p, a, t) =>
                 Asked(a, t) /\ UNCHANGED <<status, main, promotionVars>>
           /\ \A b \in Approval : RetryMainMergeApproval(p, a, b) =>
                 /\ appr[a].state # "none" /\ Asked(b, appr[a].task)
                 /\ UNCHANGED <<status, main, promotionVars>>
           /\ RejectMainMerge(a) \/ ExpireMergeApproval(a)
              \/ ObserveMergeApproval(a) \/ ListMergeHistory(p, a) =>
                 Closed(a) /\ UNCHANGED <<status, main, promotionVars>>
           /\ ApproveAndPromote(p, a) =>
                 /\ Becomes(a, {"requested"}, "approved")
                 /\ run' = [run EXCEPT ![p] = [NoRun EXCEPT !.step = "approved", !.a = a]]
                 /\ UNCHANGED <<status, main, prom, git, look, mem, orphan, deaths, ruled>>
           /\ settleMergeApproval(a) => Closed(a)
<1>1. \A from, to : writeMergeApproval(a, from, to) =>
         Becomes(a, from, to) /\ Becomes(a, OpenState, to)
  BY DEF writeMergeApproval, Becomes
<1>2. \A t, res : requestMainMerge(a, t, res) =>
         Asked(a, t) /\ UNCHANGED <<status, main>>
  BY DEF requestMainMerge, Asked
<1>3. \A b, t, res : requestMainMerge(b, t, res) =>
         Asked(b, t) /\ UNCHANGED <<status, main>>
  BY DEF requestMainMerge, Asked
<1>4. rejectMainMerge(a) \/ sweepExpired(a) \/ observeMergeApproval(a) =>
         Closed(a) /\ UNCHANGED <<status, main>>
  BY <1>1 DEF rejectMainMerge, sweepExpired, observeMergeApproval, settleMergeApproval, Closed
<1>5. settleMergeApproval(a) => Closed(a)
  BY <1>1 DEF settleMergeApproval, Closed
<1>6. ApproveAndPromote(p, a) =>
         /\ Becomes(a, {"requested"}, "approved")
         /\ UNCHANGED <<status, main>>
  BY <1>1 DEF ApproveAndPromote, grantMainMerge
<1>7. \A b \in Approval : RetryMainMergeApproval(p, a, b) =>
                 /\ appr[a].state # "none" /\ Asked(b, appr[a].task)
                 /\ UNCHANGED <<status, main, promotionVars>>
  BY <1>3 DEF RetryMainMergeApproval, retryMainMergeApproval, ClosedState
<1> QED
  BY <1>2, <1>4, <1>5, <1>6, <1>7 DEF RequestMainMerge, RejectMainMerge, ExpireMergeApproval,
     ObserveMergeApproval, ListMergeHistory, ApproveAndPromote, promotionVars

LEMMA Calls ==
    ASSUME NEW p \in Proc
    PROVE  /\ RefusePromotion(p) =>
                 /\ UNCHANGED appr \/ Closed(run[p].a)
                 /\ run[p].step \in Early
                 /\ Return(p)
                 /\ UNCHANGED <<status, main, prom, git, look, mem, orphan, deaths, ruled>>
           /\ VerifyMergeBinding(p) =>
                 /\ \/ Closed(run[p].a) /\ Return(p)
                    \/ UNCHANGED appr /\ Goto(p, "verified")
                 /\ run[p].step = "gated"
                 /\ UNCHANGED <<status, main, prom, git, look, mem, orphan, deaths, ruled>>
           /\ ConsumeApproval(p) =>
                 /\ Becomes(run[p].a, {"approved"}, "consumed")
                 /\ run[p].step = "intent"
                 /\ Goto(p, "spent")
                 /\ UNCHANGED <<status, main, prom, git, look, mem, orphan, deaths, ruled>>
<1>1. \A a, from, to : writeMergeApproval(a, from, to) =>
         Becomes(a, from, to) /\ Becomes(a, OpenState, to)
  BY DEF writeMergeApproval, Becomes
<1>2. \A a : rejectMainMerge(a) \/ settleMergeApproval(a) => Closed(a)
  BY <1>1 DEF rejectMainMerge, settleMergeApproval, Closed
<1>3. \A a : rejectMainMerge(a) => UNCHANGED <<status, main>>
  BY DEF rejectMainMerge
<1>4. RefusePromotion(p) =>
                 /\ UNCHANGED appr \/ Closed(run[p].a)
                 /\ run[p].step \in Early
                 /\ Return(p)
                 /\ UNCHANGED <<status, main, prom, git, look, mem, orphan, deaths, ruled>>
  BY <1>2, <1>3 DEF RefusePromotion, Early, approvalVars
<1>5. VerifyMergeBinding(p) =>
                 /\ \/ Closed(run[p].a) /\ Return(p)
                    \/ UNCHANGED appr /\ Goto(p, "verified")
                 /\ run[p].step = "gated"
                 /\ UNCHANGED <<status, main, prom, git, look, mem, orphan, deaths, ruled>>
  BY <1>2 DEF VerifyMergeBinding, At
<1>6. ConsumeApproval(p) =>
                 /\ Becomes(run[p].a, {"approved"}, "consumed")
                 /\ run[p].step = "intent"
                 /\ Goto(p, "spent")
                 /\ UNCHANGED <<status, main, prom, git, look, mem, orphan, deaths, ruled>>
  BY <1>1 DEF ConsumeApproval, At
<1> QED
  BY <1>4, <1>5, <1>6

\* What a call acts on, and what git does.
LEMMA Subjects ==
    ASSUME IInv
    PROVE  /\ \A p \in Proc : run[p].step # "idle" => run[p].a \in Approval
           /\ \A p \in Proc : run[p].step \in Early \cup Driving \cup {"idle"}
           /\ \A a \in Approval : git[a].leader # "none" => appr[a].task \in Task
<1>1. \A p \in Proc : run[p].step \in Early \cup Driving \cup {"idle"}
  BY DEF IInv, TypeOK, PromotingCall, Step, Early, Driving
<1>2. \A p \in Proc : run[p].step # "idle" => run[p].a \in Approval
  BY <1>1 DEF IInv, CallInv, EarlyOK, DrivingOK
<1>3. \A a \in Approval : git[a].leader # "none" => appr[a].task \in Task
  BY DEF IInv, GitInv, GitOK, RowInv, RowOK
<1> QED
  BY <1>1, <1>2, <1>3

LEMMA TypeStep ==
    ASSUME IInv, [Next]_vars
    PROVE  TypeOK'
<1>t. TypeOK
  BY DEF IInv
<1>0. /\ appr \in [Approval -> ApprovalRow]
      /\ status \in [Task -> {"completed", "merged"}]
      /\ main \in [log: Log, left: Approval \cup {NONE}]
      /\ prom \in [Approval -> PromotionRow]
      /\ git \in [Approval -> MergeProcess]
      /\ run \in [Proc -> PromotingCall]
      /\ look \in [Proc -> Reobservation]
      /\ mem \in [Proc -> FirstHand]
      /\ orphan \subseteq Approval /\ ruled \subseteq Approval
      /\ deaths \in 0..MaxDeaths
  BY <1>t DEF TypeOK, ApprovalTypeOK, Log
<1> DEFINE Typed == /\ appr' \in [Approval -> ApprovalRow]
                    /\ status' \in [Task -> {"completed", "merged"}]
                    /\ main' \in [log: Log, left: Approval \cup {NONE}]
                    /\ prom' \in [Approval -> PromotionRow]
                    /\ git' \in [Approval -> MergeProcess]
                    /\ run' \in [Proc -> PromotingCall]
                    /\ look' \in [Proc -> Reobservation]
                    /\ mem' \in [Proc -> FirstHand]
                    /\ orphan' \subseteq Approval /\ ruled' \subseteq Approval
                    /\ deaths' \in 0..MaxDeaths
<1>a. SUFFICES Typed
  BY DEF TypeOK, ApprovalTypeOK, Log
<1>b. main.log \in Log
  BY <1>0
<1>c. ASSUME NEW a \in Approval,
             \/ UNCHANGED appr
             \/ \E t \in Task : Asked(a, t)
             \/ Becomes(a, {"requested"}, "approved") \/ Closed(a)
             \/ Becomes(a, {"approved"}, "consumed")
      PROVE  appr' \in [Approval -> ApprovalRow]
  BY <1>c, <1>0, <1>b, ApprTypes
<1>s. ASSUME NEW p \in Proc, run[p].step # "idle" PROVE run[p].a \in Approval
  BY <1>s, Subjects
<1>g. ASSUME NEW p \in Proc, NEW s \in Step, Goto(p, s)
      PROVE  run' \in [Proc -> PromotingCall]
  BY <1>g, <1>0, GotoMoves
<1>r. ASSUME NEW p \in Proc, Return(p) PROVE run' \in [Proc -> PromotingCall]
  BY <1>r, <1>0, ReturnMoves
<1>1. CASE UNCHANGED vars
  BY <1>1, <1>0 DEF vars, approvalVars, promotionVars
<1>2. ASSUME NEW p \in Proc, Asking(p) PROVE Typed
  <2>1. ASSUME NEW a \in Approval, NEW t \in Task, RequestMainMerge(p, a, t) PROVE Typed
    BY <2>1, <1>0, <1>c, Questions DEF promotionVars
  <2>2. ASSUME NEW a \in Approval, NEW b \in Approval, RetryMainMergeApproval(p, a, b)
        PROVE Typed
    <3>1. /\ appr[a].task \in Task /\ Asked(b, appr[a].task)
          /\ UNCHANGED <<status, main, promotionVars>>
      BY <2>2, Questions DEF IInv, RowInv, RowOK
    <3> QED
      BY <3>1, <1>0, <1>c DEF promotionVars
  <2>3. ASSUME NEW a \in Approval,
               RejectMainMerge(a) \/ ExpireMergeApproval(a)
               \/ ObserveMergeApproval(a) \/ ListMergeHistory(p, a)
        PROVE Typed
    BY <2>3, <1>0, <1>c, Questions DEF promotionVars
  <2>4. ASSUME NEW a \in Approval, ApproveAndPromote(p, a) PROVE Typed
    BY <2>4, <1>0, <1>c, ApproveMoves, Questions
  <2> QED
    BY <1>2, <2>1, <2>2, <2>3, <2>4 DEF Asking
<1>3. ASSUME NEW p \in Proc, Call(p) PROVE Typed
  <2>1. CASE RefusePromotion(p)
    BY <2>1, <1>r, <1>s, <1>0, <1>c, Calls DEF Early
  <2>2. CASE PassGates(p)
    BY <2>2, <1>g, <1>0 DEF PassGates, approvalVars, Step
  <2>3. CASE VerifyMergeBinding(p)
    BY <2>3, <1>g, <1>r, <1>s, <1>0, <1>c, Calls DEF Step
  <2>4. CASE RestorePoint(p)
    BY <2>4, <1>0, <1>b, RestorePointMoves DEF RestorePoint, approvalVars
  <2>5. CASE InsertPromotion(p)
    <3>1. run[p].a \in Approval
      BY <2>5, <1>s DEF InsertPromotion, At
    <3>2. prom' \in [Approval -> PromotionRow]
      BY <2>5, <3>1, <1>0, InsertMoves
    <3> QED
      BY <2>5, <3>2, <1>g, <1>0 DEF InsertPromotion, approvalVars, Step
  <2>6. CASE ConsumeApproval(p)
    BY <2>6, <1>g, <1>s, <1>0, <1>c, Calls DEF Step
  <2>7. CASE ConsumeLost(p)
    <3>1. run[p].a \in Approval
      BY <2>7, <1>s DEF ConsumeLost, At
    <3>2. prom' \in [Approval -> PromotionRow] /\ mem' \in [Proc -> FirstHand]
      <4>1. writePromotion(run[p].a, "rolled-back", "none", TRUE)
            => prom' \in [Approval -> PromotionRow]
        BY <3>1, <1>0, WriteMoves DEF RowState, Hint
      <4>2. mem' = Forget(run[p].a) => mem' \in [Proc -> FirstHand]
        BY <3>1, <1>0, AttestMoves
      <4> QED
        BY <2>7, <4>1, <4>2, <1>0 DEF ConsumeLost
    <3> QED
      BY <2>7, <3>2, <1>r, <1>0 DEF ConsumeLost, approvalVars
  <2>8. CASE MergeIntoHead(p)
    <3>1. run[p].a \in Approval
      BY <2>8, <1>s DEF MergeIntoHead, At
    <3>2. /\ prom' \in [Approval -> PromotionRow] /\ git' \in [Approval -> MergeProcess]
          /\ run' \in [Proc -> PromotingCall]
      BY <2>8, <3>1, <1>t, MergeIntoHeadMoves
    <3> QED
      BY <2>8, <3>2, <1>0 DEF MergeIntoHead, approvalVars
  <2>9. CASE MergeNotStarted(p)
    BY <2>9, <1>g, <1>0 DEF MergeNotStarted, approvalVars, Step
  <2>10. CASE MergeClosed(p)
    BY <2>10, <1>g, <1>0 DEF MergeClosed, Step
  <2>11. CASE ObservePromotion(p)
    <3>1. run[p].a \in Approval
      BY <2>11, <1>s DEF ObservePromotion, At
    <3>2. run' \in [Proc -> PromotingCall] /\ mem' \in [Proc -> FirstHand]
      BY <2>11, <3>1, <1>0, <1>t, ObserveMoves, ConclusionMoves
    <3> QED
      BY <2>11, <3>2, <1>0 DEF ObservePromotion, approvalVars
  <2>12. CASE SettlePromotion(p)
    <3>1. run[p].a \in Approval
      BY <2>12, <1>s DEF SettlePromotion, At
    <3>2. run[p].seen \in Outcome \ {"none"}
      BY <2>12, <1>0 DEF SettlePromotion, At, IInv, CallInv, ObservedOK, PromotingCall
    <3>3. prom' \in [Approval -> PromotionRow] /\ mem' \in [Proc -> FirstHand]
      <4>1. CASE prom[run[p].a].byCall
        BY <2>12, <3>1, <3>2, <4>1, <1>t, SettleMoves DEF WrittenAs
      <4>2. CASE ~prom[run[p].a].byCall
        BY <2>12, <4>2, <1>0 DEF SettlePromotion
      <4> QED
        BY <4>1, <4>2
    <3>4. status' \in [Task -> {"completed", "merged"}]
      BY <2>12, <1>0 DEF SettlePromotion, markCandidateMerged
    <3> QED
      BY <2>12, <3>3, <3>4, <1>r, <1>0 DEF SettlePromotion
  <2> QED
    BY <1>3, <2>1, <2>2, <2>3, <2>4, <2>5, <2>6, <2>7, <2>8, <2>9, <2>10, <2>11, <2>12 DEF Call
<1>4. ASSUME NEW p \in Proc, Record(p) PROVE Typed
  <2>l. ASSUME NEW a \in Approval, Rewritten(p, a),
               mem' \in [Proc -> FirstHand], ruled' \subseteq Approval
        PROVE  Typed
    <3>1. /\ prom' \in [Approval -> PromotionRow]
          /\ UNCHANGED <<approvalVars, git, run, orphan, deaths>>
          /\ \/ UNCHANGED look
             \/ look' = [look EXCEPT ![p] = Looked(p, a, prom[a])']
      BY <2>l, <1>t, RewriteMoves
    <3>2. Looked(p, a, prom[a])' \in Reobservation
      <4>1. observeMain(a)' \in Outcome
        BY DEF observeMain, Outcome
      <4>2. mergeWriteConclusion(p, a)' \in BOOLEAN
        BY DEF mergeWriteConclusion
      <4>3. prom[a]'.named \in BOOLEAN /\ git[a]'.group \in BOOLEAN /\ prom[a]' \in PromotionRow
        BY <3>1, <1>0 DEF PromotionRow, MergeProcess
      <4>4. Survivors(a)' \in BOOLEAN
        BY <4>3 DEF Survivors
      <4> QED
        BY <4>1, <4>2, <4>3, <4>4 DEF Looked, Reobservation
    <3>3. look' \in [Proc -> Reobservation]
      BY <3>1, <3>2, <1>0
    <3> QED
      BY <2>l, <3>1, <3>3, <1>0 DEF approvalVars
  <2>1. CASE ResolveWrites(p)
    <3>1. look' \in [Proc -> Reobservation]
      BY <2>1, <1>0, NothingTyped DEF ResolveWrites
    <3>2. status' \in [Task -> {"completed", "merged"}]
      BY <2>1, <1>0 DEF ResolveWrites, markCandidateMerged
    <3>3. prom' \in [Approval -> PromotionRow] /\ mem' \in [Proc -> FirstHand]
      <4>1. look[p].seen # "none" /\ look[p].row.state \in {"applying", "manual"}
        BY <2>1 DEF ResolveWrites, IInv, LookInv, LookOK
      <4> QED
        BY <2>1, <4>1, <1>0, <1>t, ResolveMoves DEF WrittenAs
    <3> QED
      BY <2>1, <3>1, <3>2, <3>3, <1>0 DEF ResolveWrites
  <2>2. ASSUME NEW a \in Approval, ResolvePromotion(p, a) PROVE Typed
    <3>1. Looked(p, a, prom[a]) \in Reobservation
      BY <1>0, WhatIsSeen
    <3> QED
      BY <2>2, <3>1, <1>0 DEF ResolvePromotion, approvalVars
  <2>3. ASSUME NEW a \in Approval,
               AbandonMergeProcessGroup(p, a) \/ AbandonPromotionEntirely(p, a)
        PROVE Typed
    <3>1. Rewritten(p, a) /\ recordOwnerDeclaration(p, a)
      BY <2>3 DEF AbandonMergeProcessGroup, AbandonPromotionEntirely, Rewritten
    <3>2. ruled' \subseteq Approval
      BY <3>1, <1>0 DEF recordOwnerDeclaration
    <3> QED
      BY <3>1, <3>2, <2>l, <1>0, DeclarationMoves
  <2>4. ASSUME NEW a \in Approval, AbandonPromotionOwnerProcess(p, a) PROVE Typed
    <3>1. Rewritten(p, a) /\ mem' = Forget(a) /\ UNCHANGED ruled
      BY <2>4 DEF AbandonPromotionOwnerProcess, Rewritten
    <3> QED
      BY <3>1, <2>l, <1>0, AttestMoves
  <2>6. CASE AcknowledgeUnattestedPromotions(p)
    <3>1. mem' \in [Proc -> FirstHand] /\ ruled' \subseteq Approval
      BY <2>6, <1>0, AcknowledgeMoves
    <3> QED
      BY <2>6, <3>1, <1>0 DEF AcknowledgeUnattestedPromotions, approvalVars
  <2> QED
    BY <1>4, <2>1, <2>2, <2>3, <2>4, <2>6 DEF Record
<1>5. ASSUME NEW p \in Proc, Die(p) PROVE Typed
  BY <1>5, <1>0, NothingTyped, PromotionAssumption DEF Die, approvalVars
<1>6. ASSUME NEW a \in Approval, Git(a) PROVE Typed
  <2>1. CASE GitWritesTree(a)
    BY <2>1, <1>0, GitMoves DEF GitWritesTree, GitStep
  <2>2. CASE GitCommits(a)
    <3>1. appr[a].task \in Task
      BY <2>2, Subjects DEF GitCommits
    <3>2. Append(main.log, appr[a].task) \in Log
      BY <3>1, <1>b DEF Log
    <3> QED
      BY <2>2, <3>2, <1>0, GitMoves DEF GitCommits, GitStep
  <2>3. CASE GitClearsMergeHead(a)
    BY <2>3, <1>0, GitMoves DEF GitClearsMergeHead, GitStep
  <2>4. CASE GitGivesUp(a)
    BY <2>4, <1>0, GitMoves DEF GitGivesUp, approvalVars, GitStep
  <2>5. CASE GroupEnds(a)
    BY <2>5, <1>0, GitMoves DEF GroupEnds, approvalVars, GitStep
  <2> QED
    BY <1>6, <2>1, <2>2, <2>3, <2>4, <2>5 DEF Git
<1>7. CASE OwnerWorks
  <2>1. Append(main.log, Own) \in Log
    BY <1>b DEF Log
  <2> QED
    BY <1>7, <2>1, <1>0 DEF OwnerWorks, OwnerCommits, promotionVars
<1>8. CASE OwnerClearsMerge
  BY <1>8, <1>0 DEF OwnerClearsMerge, promotionVars
<1> QED
  BY <1>1, <1>2, <1>3, <1>4, <1>5, <1>6, <1>7, <1>8 DEF Next

-----------------------------------------------------------------------------
(* The parts of the invariant that a step leaves alone.                    *)

\* The questions of b and its neighbours: the same candidates, and an open one may
\* have been closed.
OnlyClosed == \A b \in Approval :
    /\ appr'[b].task = appr[b].task
    /\ \/ appr'[b].state = appr[b].state
       \/ /\ appr[b].state \in OpenState
          /\ appr'[b].state \in {"rejected", "expired", "invalidated"}

LEMMA ClosedMoves ==
    ASSUME appr \in [Approval -> ApprovalRow], NEW a \in Approval,
           UNCHANGED appr \/ Closed(a)
    PROVE  OnlyClosed
<1>1. CASE UNCHANGED appr
  BY <1>1 DEF OnlyClosed
<1>2. ASSUME NEW s \in {"rejected", "expired", "invalidated"}, Becomes(a, OpenState, s)
      PROVE  OnlyClosed
  BY <1>2 DEF Becomes, ApprovalRow, OnlyClosed
<1> QED
  BY <1>1, <1>2 DEF Closed

\* What credits a record keeps crediting it.
LEMMA CreditStays ==
    ASSUME IInv, \A b \in Approval : git[b].landed => git'[b].landed,
           ruled \subseteq ruled',
           \A b \in Approval : git[b].leader # "none" => appr'[b].task = appr[b].task,
           NEW a \in Approval, appr'[a].task = appr[a].task, Credited(a) # {}
    PROVE  Credited(a)' # {}
<1>1. PICK b \in Approval : git[b].landed /\ (b = a \/ (b \in ruled /\ appr[b].task = appr[a].task))
  BY DEF Credited
<1>2. git[b].leader # "none"
  BY <1>1 DEF IInv, GitInv, GitOK
<1> QED
  BY <1>1, <1>2 DEF Credited

\* A call ends, or goes on without having recorded an intent.
CallStep == \/ UNCHANGED run
            \/ \E p \in Proc :
                  /\ Others(p)
                  /\ \/ run'[p] = NoRun
                     \/ /\ run[p].step \in Early /\ run'[p].step \in Early
                        /\ run'[p].a = run[p].a /\ ~run'[p].spawned
                        /\ run'[p].step = "restored" => run'[p].before = main.log
                        /\ run'[p].before \in {run[p].before, main.log}

\* A process may have forgotten what it saw and what it was told.
Forgotten == \A q \in Proc :
    /\ look'[q] = look[q] \/ look'[q].a = NONE
    /\ mem'[q].declared \subseteq mem[q].declared
    /\ mem'[q].concluded \subseteq mem[q].concluded

LEMMA QuietStep ==
    ASSUME IInv, TypeOK', OnlyClosed, CallStep, Forgotten, main'.log = main.log,
           UNCHANGED <<prom, git, ruled>>
    PROVE  IInv'
<1>0. \A q \in Proc : \/ run'[q] = run[q]
                      \/ run'[q].step = "idle" /\ run'[q].before = <<>>
                      \/ /\ run[q].step \in Early /\ run'[q].step \in Early
                         /\ run'[q].a = run[q].a /\ ~run'[q].spawned
                         /\ run'[q].step = "restored" => run'[q].before = main.log
                         /\ run'[q].before \in {run[q].before, main.log}
  BY DEF CallStep, Others, NoRun
<1>c. \A a \in Approval : Credited(a)' = Credited(a)
  BY DEF Credited, OnlyClosed
<1>l. \A a \in Approval : /\ Live(a)' => Live(a)
                          /\ git[a].leader # "none" => appr'[a].state = appr[a].state
                          /\ Done(a)' = Done(a) /\ Running(a)' = Running(a)
  <2>1. \A a \in Approval : git[a].leader # "none" => appr'[a].state = appr[a].state
    BY DEF IInv, GitInv, GitOK, OnlyClosed, OpenState
  <2>2. \A a \in Approval : Live(a)' => Live(a)
    BY DEF Live, OnlyClosed, OpenState
  <2> QED
    BY <2>1, <2>2 DEF Done, Running
<1>1. CallInv'
  <2> SUFFICES ASSUME NEW q \in Proc PROVE (EarlyOK(q) /\ DrivingOK(q) /\ ObservedOK(q))'
    BY DEF CallInv
  <2>0. EarlyOK(q) /\ DrivingOK(q) /\ ObservedOK(q)
    BY DEF IInv, CallInv
  <2>1. EarlyOK(q)'
    BY <1>0, <2>0 DEF EarlyOK, Early, OnlyClosed, OpenState
  <2>2. DrivingOK(q)'
    BY <1>0, <2>0 DEF DrivingOK, Early, Driving, OnlyClosed, OpenState
  <2>3. ObservedOK(q)'
    <3>1. run'[q].step = "observed" => run'[q] = run[q] /\ run[q].a \in Approval
      BY <1>0, <2>0 DEF Early, DrivingOK, Driving
    <3> QED
      BY <3>1, <2>0, <1>c, <1>l DEF ObservedOK, Done
  <2> QED
    BY <2>1, <2>2, <2>3
<1>2. SoleCall'
  BY <1>0 DEF IInv, SoleCall, Early
<1>3. GitInv'
  BY <1>l DEF IInv, GitInv, GitOK
<1>4. RowInv'
  <2> SUFFICES ASSUME NEW a \in Approval PROVE RowOK(a)'
    BY DEF RowInv
  <2>1. RowOK(a)
    BY DEF IInv, RowInv
  <2> QED
    BY <2>1, <1>l DEF RowOK, OnlyClosed, OpenState
<1>5. OneMarker'
  BY DEF IInv, OneMarker, holdsExclusiveMarker
<1>6. MemInv'
  <2>1. \A q \in Proc : mem[q].concluded \subseteq Approval
    BY DEF IInv, TypeOK, FirstHand
  <2> QED
    BY <2>1, <1>l DEF IInv, MemInv, Forgotten
<1>7. LookInv'
  <2> SUFFICES ASSUME NEW p \in Proc PROVE LookOK(p)'
    BY DEF LookInv
  <2>1. LookOK(p) /\ (look[p].a # NONE => look[p].a \in Approval)
    BY DEF IInv, LookInv, TypeOK, Reobservation
  <2>2. \A a \in Approval, q \in Proc : Drives(q, a)' => Drives(q, a)
    BY <1>0 DEF Drives, Driving, Early
  <2>3. \A a \in Approval : Settled(a) => Settled(a)'
    BY <2>2, <1>l DEF Settled
  <2> QED
    BY <2>1, <2>3, <1>c DEF LookOK, Forgotten
<1>8. SoleLive'
  BY <1>l DEF IInv, SoleLive, OnlyClosed
<1>9. LogInv'
  <2>1. \A before : \A a \in Approval : Accounted(a, before) => Accounted(a, before)'
    BY <1>c DEF Accounted, OnlyClosed
  <2>2. ASSUME NEW a \in Approval
        PROVE  /\ Len(prom'[a].before) <= Len(main'.log)
               /\ git'[a].landed => Len(prom'[a].before) < Len(main'.log)
               /\ prom'[a].state # "none" /\ Live(a)' /\ a \notin ruled' =>
                     Accounted(a, prom[a].before)'
    BY <2>1, <1>l DEF IInv, LogInv
  <2>3. ASSUME NEW q \in Proc
        PROVE  /\ Len(run'[q].before) <= Len(main'.log)
               /\ run'[q].step = "restored" /\ Live(run[q].a)' /\ run'[q].a \notin ruled' =>
                     Accounted(run[q].a, run[q].before)'
    <3>0. main.log \in Seq(Task \cup {Own}) /\ Len(main.log) \in Nat /\ Len(<<>>) = 0
      BY DEF IInv, TypeOK, ApprovalTypeOK
    <3>1. CASE run'[q] = run[q]
      <4>1. run[q].step = "restored" => run[q].a \in Approval
        BY Subjects
      <4> QED
        BY <3>1, <4>1, <2>1, <1>l DEF IInv, LogInv
    <3>2. CASE run'[q].step = "idle" /\ run'[q].before = <<>>
      BY <3>2, <3>0
    <3>3. CASE /\ run[q].step \in Early /\ run'[q].step \in Early
               /\ run'[q].a = run[q].a
               /\ run'[q].step = "restored" => run'[q].before = main.log
               /\ run'[q].before \in {run[q].before, main.log}
      <4>1. Len(run'[q].before) <= Len(main'.log)
        BY <3>0, <3>3 DEF IInv, LogInv
      <4>2. run'[q].step = "restored" => Accounted(run[q].a, run[q].before)'
        BY <3>0, <3>3 DEF Accounted
      <4> QED
        BY <4>1, <4>2
    <3> QED
      BY <3>1, <3>2, <3>3, <1>0
  <2> QED
    BY <2>2, <2>3 DEF LogInv
<1> QED
  BY <1>1, <1>2, <1>3, <1>4, <1>5, <1>6, <1>7, <1>8, <1>9 DEF IInv

\* A question nobody has said yes to has no record, no merge and no call.
LEMMA Unanswered ==
    ASSUME IInv, NEW b \in Approval, appr[b].state \in {"none", "requested"}
    PROVE  /\ prom[b].state = "none" /\ git[b].leader = "none" /\ ~git[b].landed
           /\ \A q \in Proc : run[q].step # "idle" => run[q].a # b
<1>1. prom[b].state = "none"
  BY DEF IInv, RowInv, RowOK
<1>2. git[b].leader = "none" /\ ~git[b].landed
  BY <1>1 DEF IInv, RowInv, RowOK, GitInv, GitOK
<1>3. ASSUME NEW q \in Proc, run[q].step # "idle" PROVE run[q].a # b
  <2>1. run[q].step \in Early \cup Driving
    BY <1>3, Subjects
  <2>2. EarlyOK(q) /\ DrivingOK(q)
    BY DEF IInv, CallInv
  <2> QED
    BY <2>1, <2>2, <1>1 DEF EarlyOK, DrivingOK
<1> QED
  BY <1>1, <1>2, <1>3

LEMMA QuestionStep ==
    ASSUME IInv, TypeOK', NEW b \in Approval,
           appr[b].state \in {"none", "requested"},
           \A a \in Approval \ {b} : appr'[a] = appr[a],
           appr'[b].task \in Task, appr'[b].state \in OpenState,
           \/ /\ appr[b].state = "requested" /\ appr'[b].task = appr[b].task
           \/ /\ appr'[b].state = "requested"
              /\ \A a \in Approval : appr[a].task = appr'[b].task => ~Live(a),
           \/ UNCHANGED run
           \/ \E p \in Proc : /\ Others(p) /\ run[p].step = "idle"
                              /\ run'[p].step = "approved" /\ run'[p].a = b
                              /\ run'[p].before = <<>> /\ ~run'[p].spawned
                              /\ appr'[b].state = "approved",
           UNCHANGED <<main, prom, git, look, mem, ruled>>
    PROVE  IInv'
<1>b. /\ prom[b].state = "none" /\ git[b].leader = "none" /\ ~git[b].landed
      /\ \A q \in Proc : run[q].step # "idle" => run[q].a # b
  BY Unanswered
<1>0. \A q \in Proc : \/ run'[q] = run[q]
                      \/ /\ run[q].step = "idle" /\ run'[q].step = "approved" /\ run'[q].a = b
                         /\ run'[q].before = <<>> /\ ~run'[q].spawned
                         /\ appr'[b].state = "approved"
  BY DEF Others
<1>s. \A q, r \in Proc : run'[q] # run[q] /\ run'[r] # run[r] => q = r
  BY DEF Others
<1>c. ASSUME NEW a \in Approval, a # b, Credited(a) # {} PROVE Credited(a)' # {}
  BY <1>c, <1>b DEF Credited
<1>l. \A a \in Approval \ {b} : /\ Live(a)' <=> Live(a)
                                /\ Done(a)' = Done(a) /\ Running(a)' = Running(a)
  BY DEF Live, Done, Running
<1>m. \A a \in Approval : Done(a)' = Done(a) /\ Running(a)' = Running(a)
  BY DEF Done, Running
<1>1. CallInv'
  <2> SUFFICES ASSUME NEW q \in Proc PROVE (EarlyOK(q) /\ DrivingOK(q) /\ ObservedOK(q))'
    BY DEF CallInv
  <2>0. EarlyOK(q) /\ DrivingOK(q) /\ ObservedOK(q)
    BY DEF IInv, CallInv
  <2>1. CASE run'[q] = run[q]
    <3>1. EarlyOK(q)'
      BY <2>1, <2>0, <1>b DEF EarlyOK, Early
    <3>2. DrivingOK(q)'
      BY <2>1, <2>0, <1>b DEF DrivingOK, Driving
    <3>3. ObservedOK(q)'
      <4>1. run[q].step = "observed" => run[q].a \in Approval \ {b}
        BY <1>b, Subjects
      <4> QED
        BY <4>1, <2>1, <2>0, <1>c, <1>m DEF ObservedOK
    <3> QED
      BY <3>1, <3>2, <3>3
  <2>2. CASE run'[q].step = "approved" /\ run'[q].a = b /\ ~run'[q].spawned
             /\ appr'[b].state = "approved"
    BY <2>2, <1>b DEF EarlyOK, DrivingOK, ObservedOK, Early, Driving
  <2> QED
    BY <1>0, <2>1, <2>2
<1>2. SoleCall'
  BY <1>0, <1>b, <1>s DEF IInv, SoleCall
<1>3. GitInv'
  BY <1>m, <1>b DEF IInv, GitInv, GitOK
<1>4. RowInv'
  <2> SUFFICES ASSUME NEW a \in Approval PROVE RowOK(a)'
    BY DEF RowInv
  <2>1. RowOK(a)
    BY DEF IInv, RowInv
  <2>2. CASE a # b
    BY <2>1, <2>2, <1>m DEF RowOK
  <2>3. CASE a = b
    BY <2>1, <2>3, <1>m, <1>b DEF RowOK, OpenState
  <2> QED
    BY <2>2, <2>3
<1>5. OneMarker'
  BY DEF IInv, OneMarker, holdsExclusiveMarker
<1>6. MemInv'
  BY <1>m DEF IInv, MemInv, TypeOK, FirstHand
<1>7. LookInv'
  <2> SUFFICES ASSUME NEW p \in Proc PROVE LookOK(p)'
    BY DEF LookInv
  <2>1. LookOK(p) /\ (look[p].a # NONE => look[p].a \in Approval)
    BY DEF IInv, LookInv, TypeOK, Reobservation
  <2>2. \A a \in Approval, q \in Proc : Drives(q, a)' => Drives(q, a)
    BY <1>0 DEF Drives, Driving
  <2>3. \A a \in Approval : Settled(a) => Settled(a)'
    BY <2>2, <1>m DEF Settled
  <2>4. \A a \in Approval : Settled(a) => a # b
    BY <1>b DEF Settled
  <2> QED
    BY <2>1, <2>3, <2>4, <1>c DEF LookOK
<1>8. SoleLive'
  <2>1. appr[b].state = "requested" => Live(b)
    BY DEF Live, OpenState
  <2>2. SUFFICES ASSUME NEW a \in Approval, NEW d \in Approval, Live(a)', Live(d)',
                        appr'[a].task = appr'[d].task, a # d
                 PROVE  FALSE
    BY DEF SoleLive
  <2>3. CASE a # b /\ d # b
    BY <2>2, <2>3, <1>l DEF IInv, SoleLive
  <2>4. CASE a = b
    BY <2>2, <2>4, <2>1, <1>l DEF IInv, SoleLive
  <2>5. CASE d = b
    BY <2>2, <2>5, <2>1, <1>l DEF IInv, SoleLive
  <2> QED
    BY <2>3, <2>4, <2>5
<1>9. LogInv'
  <2>1. \A before : \A a \in Approval \ {b} : Accounted(a, before) => Accounted(a, before)'
    BY <1>c DEF Accounted
  <2>2. ASSUME NEW a \in Approval
        PROVE  /\ Len(prom'[a].before) <= Len(main'.log)
               /\ git'[a].landed => Len(prom'[a].before) < Len(main'.log)
               /\ prom'[a].state # "none" /\ Live(a)' /\ a \notin ruled' =>
                     Accounted(a, prom[a].before)'
    BY <2>1, <1>l, <1>b DEF IInv, LogInv
  <2>3. ASSUME NEW q \in Proc
        PROVE  /\ Len(run'[q].before) <= Len(main'.log)
               /\ run'[q].step = "restored" /\ Live(run[q].a)' /\ run'[q].a \notin ruled' =>
                     Accounted(run[q].a, run[q].before)'
    <3>0. Len(main.log) \in Nat /\ Len(<<>>) = 0
      BY DEF IInv, TypeOK, ApprovalTypeOK
    <3>1. CASE run'[q] = run[q]
      <4>1. run[q].step = "restored" => run[q].a \in Approval \ {b}
        BY Subjects, <1>b
      <4>2. /\ Len(run[q].before) <= Len(main.log)
            /\ run[q].step = "restored" /\ Live(run[q].a) /\ run[q].a \notin ruled =>
                     Accounted(run[q].a, run[q].before)
        BY DEF IInv, LogInv
      <4> QED
        BY <3>1, <4>1, <4>2, <2>1, <1>l
    <3>2. CASE run'[q].step = "approved" /\ run'[q].before = <<>>
      BY <3>2, <3>0
    <3> QED
      BY <3>1, <3>2, <1>0
  <2> QED
    BY <2>2, <2>3 DEF LogInv
<1> QED
  BY <1>1, <1>2, <1>3, <1>4, <1>5, <1>6, <1>7, <1>8, <1>9 DEF IInv

\* A step of the call that has the record of a, which nobody else acts on: what is
\* left to show of it.
DrivenStep(p, a) ==
    /\ run[p].step \in Driving \cup {"restored"} /\ run[p].a = a
    /\ Others(p) /\ run'[p].step \notin Early
    /\ run'[p].step # "idle" => run'[p].a = a
    /\ OtherRows(a) /\ OtherMerges(a)
    /\ \A b \in Approval \ {a} : appr'[b] = appr[b]
    /\ appr'[a].task = appr[a].task /\ git'[a].landed = git[a].landed
    /\ main'.log = main.log
    /\ UNCHANGED <<look, ruled>>
    /\ holdsExclusiveMarker(a)' => holdsExclusiveMarker(a) \/ MarkerFree(a)
    /\ Live(a)' => Live(a)
    /\ Done(a) => Done(a)'
    /\ IF run[p].step = "restored" THEN prom'[a].before = run[p].before
       ELSE prom'[a].before = prom[a].before
    /\ run'[p].before = run[p].before \/ run'[p].before = <<>>

LEMMA DrivenStepKeeps ==
    ASSUME IInv, TypeOK', NEW p \in Proc, NEW a \in Approval, DrivenStep(p, a),
           DrivingOK(p)', ObservedOK(p)', GitOK(a)', RowOK(a)', MemInv'
    PROVE  IInv'
<1>0. /\ \A q \in Proc \ {p} : /\ run'[q] = run[q]
                               /\ run[q].step # "idle" => run[q].a # a
      /\ \A b \in Approval \ {a} : appr'[b] = appr[b] /\ prom'[b] = prom[b] /\ git'[b] = git[b]
  BY DEF DrivenStep, Others, OtherRows, OtherMerges, IInv, SoleCall, Driving
<1>c. \A b \in Approval : Credited(b)' = Credited(b)
  <2>1. \A b \in Approval : appr'[b].task = appr[b].task /\ git'[b].landed = git[b].landed
    BY <1>0 DEF DrivenStep
  <2> QED
    BY <2>1 DEF Credited, DrivenStep
<1>l. \A b \in Approval : /\ Live(b)' => Live(b)
                          /\ Done(b) => Done(b)'
  BY <1>0 DEF Live, Done, DrivenStep
<1>r. \A b \in Approval \ {a} : Running(b)' = Running(b)
  BY <1>0 DEF Running
<1>1. CallInv'
  <2> SUFFICES ASSUME NEW q \in Proc PROVE (EarlyOK(q) /\ DrivingOK(q) /\ ObservedOK(q))'
    BY DEF CallInv
  <2>1. CASE q = p
    BY <2>1 DEF DrivenStep, EarlyOK
  <2>2. CASE q # p
    <3>0. EarlyOK(q) /\ DrivingOK(q) /\ ObservedOK(q) /\ run'[q] = run[q]
      BY <2>2, <1>0 DEF IInv, CallInv
    <3>1. run[q].step # "idle" => run[q].a \in Approval \ {a}
      BY <2>2, <1>0, Subjects
    <3>2. EarlyOK(q)'
      BY <3>0, <3>1, <1>0 DEF EarlyOK, Early
    <3>3. DrivingOK(q)'
      BY <3>0, <3>1, <1>0 DEF DrivingOK, Driving, DrivenStep
    <3>4. ObservedOK(q)'
      BY <3>0, <3>1, <1>0, <1>c, <1>l DEF ObservedOK, DrivenStep
    <3> QED
      BY <3>2, <3>3, <3>4
  <2> QED
    BY <2>1, <2>2
<1>2. SoleCall'
  BY <1>0 DEF IInv, SoleCall, DrivenStep
<1>3. GitInv'
  <2> SUFFICES ASSUME NEW b \in Approval PROVE GitOK(b)'
    BY DEF GitInv
  <2>1. CASE b = a
    BY <2>1
  <2>2. CASE b # a
    BY <2>2, <1>0, <1>r DEF IInv, GitInv, GitOK, DrivenStep
  <2> QED
    BY <2>1, <2>2
<1>4. RowInv'
  <2> SUFFICES ASSUME NEW b \in Approval PROVE RowOK(b)'
    BY DEF RowInv
  <2>1. CASE b = a
    BY <2>1
  <2>2. CASE b # a
    BY <2>2, <1>0, <1>l DEF IInv, RowInv, RowOK, DrivenStep
  <2> QED
    BY <2>1, <2>2
<1>5. OneMarker'
  BY <1>0 DEF IInv, OneMarker, holdsExclusiveMarker, DrivenStep, MarkerFree
<1>7. LookInv'
  <2> SUFFICES ASSUME NEW q \in Proc PROVE LookOK(q)'
    BY DEF LookInv
  <2>1. LookOK(q) /\ (look[q].a # NONE => look[q].a \in Approval)
    BY DEF IInv, LookInv, TypeOK, Reobservation
  <2>2. \A b \in Approval \ {a}, r \in Proc : Drives(r, b)' => Drives(r, b)
    BY <1>0 DEF Drives, Driving, DrivenStep
  <2>3. \A b \in Approval \ {a} : Settled(b) => Settled(b)'
    BY <2>2, <1>r, <1>0 DEF Settled
  <2>4. ~Settled(a)
    BY DEF DrivenStep, Settled, Drives, IInv, CallInv, EarlyOK, Early
  <2> QED
    BY <2>1, <2>3, <2>4, <1>c, <1>0 DEF LookOK, DrivenStep
<1>8. SoleLive'
  BY <1>l, <1>0 DEF IInv, SoleLive, DrivenStep
<1>9. LogInv'
  <2>1. \A before : \A b \in Approval : Accounted(b, before) => Accounted(b, before)'
    BY <1>c, <1>0 DEF Accounted, DrivenStep
  <2>2. ASSUME NEW b \in Approval
        PROVE  /\ Len(prom'[b].before) <= Len(main'.log)
               /\ git'[b].landed => Len(prom'[b].before) < Len(main'.log)
               /\ prom'[b].state # "none" /\ Live(b)' /\ b \notin ruled' =>
                     Accounted(b, prom[b].before)'
    <3>1. CASE b # a
      <4>1. /\ prom'[b] = prom[b] /\ git'[b] = git[b] /\ ruled' = ruled
            /\ main'.log = main.log
        BY <3>1, <1>0 DEF DrivenStep
      <4> QED
        BY <4>1, <2>1, <1>l DEF IInv, LogInv
    <3>2. CASE b = a /\ prom'[a].before = prom[a].before /\ prom[a].state # "none"
      <4>1. git'[a].landed = git[a].landed /\ ruled' = ruled /\ main'.log = main.log
        BY DEF DrivenStep
      <4> QED
        BY <4>1, <3>2, <2>1, <1>l DEF IInv, LogInv
    <3>3. CASE /\ b = a /\ prom'[a].before = run[p].before
               /\ run[p].step = "restored" /\ run[p].a = a
      <4>1. /\ git'[a].landed = git[a].landed /\ ruled' = ruled /\ main'.log = main.log
            /\ ~git[a].landed
        <5>1. prom[a].state = "none"
          BY <3>3 DEF IInv, CallInv, EarlyOK, Early
        <5> QED
          BY <5>1 DEF DrivenStep, IInv, RowInv, RowOK, GitInv, GitOK
      <4> QED
        BY <4>1, <3>3, <2>1, <1>l DEF IInv, LogInv
    <3>4. run[p].step # "restored" => prom[a].state # "none"
      BY DEF DrivenStep, IInv, CallInv, DrivingOK
    <3> QED
      BY <3>1, <3>2, <3>3, <3>4 DEF DrivenStep
  <2>3. ASSUME NEW q \in Proc
        PROVE  /\ Len(run'[q].before) <= Len(main'.log)
               /\ run'[q].step = "restored" /\ Live(run[q].a)' /\ run'[q].a \notin ruled' =>
                     Accounted(run[q].a, run[q].before)'
    <3>0. Len(main.log) \in Nat /\ Len(<<>>) = 0 /\ main'.log = main.log /\ ruled' = ruled
      BY DEF IInv, TypeOK, ApprovalTypeOK, DrivenStep
    <3>a. /\ Len(run[q].before) <= Len(main.log)
          /\ run[q].step = "restored" /\ Live(run[q].a) /\ run[q].a \notin ruled =>
                Accounted(run[q].a, run[q].before)
      BY DEF IInv, LogInv
    <3>1. CASE q # p
      <4>1. run[q].step = "restored" => run[q].a \in Approval
        BY Subjects
      <4> QED
        BY <3>a, <3>0, <3>1, <4>1, <2>1, <1>l, <1>0
    <3>2. CASE q = p
      BY <3>2, <3>0, <3>a DEF DrivenStep, Early
    <3> QED
      BY <3>1, <3>2
  <2> QED
    BY <2>2, <2>3 DEF LogInv
<1> QED
  BY <1>1, <1>2, <1>3, <1>4, <1>5, <1>7, <1>8, <1>9 DEF IInv

-----------------------------------------------------------------------------
(* The steps of the promoting call.                                        *)

\* What the call that has the record of a may rely on.
LEMMA Driver ==
    ASSUME IInv, NEW p \in Proc, run[p].step \in Driving \cup {"restored"}
    PROVE  /\ run[p].a \in Approval
           /\ EarlyOK(p) /\ DrivingOK(p) /\ ObservedOK(p)
           /\ GitOK(run[p].a) /\ RowOK(run[p].a)
  BY Subjects DEF IInv, CallInv, GitInv, RowInv, Driving

LEMMA Typed ==
    ASSUME IInv
    PROVE  /\ TypeOK
           /\ appr \in [Approval -> ApprovalRow] /\ prom \in [Approval -> PromotionRow]
           /\ git \in [Approval -> MergeProcess] /\ run \in [Proc -> PromotingCall]
           /\ mem \in [Proc -> FirstHand] /\ look \in [Proc -> Reobservation]
           /\ main.log \in Log /\ main.log \in Seq(Task \cup {Own}) /\ Len(main.log) \in Nat
  BY DEF IInv, TypeOK, ApprovalTypeOK, Log

LEMMA InsertStep ==
    ASSUME IInv, TypeOK', NEW p \in Proc, NEW a \in Approval, a = run[p].a,
           InsertPromotion(p)
    PROVE  IInv'
<1>0. /\ run[p].step = "restored" /\ prom[a].state = "none" /\ MarkerFree(a)
      /\ Goto(p, "intent")
      /\ UNCHANGED <<appr, main, git, look, mem, ruled>>
  BY DEF InsertPromotion, At, approvalVars
<1>1. /\ EarlyOK(p) /\ GitOK(a) /\ RowOK(a)
  BY <1>0, Driver
<1>2. /\ OtherRows(a) /\ prom'[a].state = "applying" /\ prom'[a].hint = "none"
      /\ prom'[a].byCall /\ prom'[a].before = run[p].before
  BY <1>1, InsertMoves, Typed
<1>3. Others(p) /\ SameCall(p) /\ run'[p].step = "intent"
  BY <1>0, Typed, GotoMoves DEF Step
<1>4. DrivenStep(p, a)
  <2>1. Live(a)' => Live(a)
    BY <1>0, <1>1 DEF Live, RowOK
  <2>2. Done(a) => Done(a)'
    BY <1>0 DEF Done
  <2> QED
    BY <2>1, <2>2, <1>0, <1>2, <1>3 DEF DrivenStep, SameCall, OtherMerges, Early
<1>5. DrivingOK(p)'
  BY <1>0, <1>1, <1>2, <1>3 DEF DrivingOK, SameCall, EarlyOK, Early, RowOK
<1>6. ObservedOK(p)'
  BY <1>3 DEF ObservedOK
<1>7. GitOK(a)' /\ RowOK(a)'
  BY <1>0, <1>1, <1>2 DEF GitOK, RowOK, EarlyOK, Early, Running, Done
<1>8. MemInv'
  BY <1>0 DEF IInv, MemInv, Done
<1> QED
  BY <1>1, <1>4, <1>5, <1>6, <1>7, <1>8, DrivenStepKeeps

LEMMA ConsumeStep ==
    ASSUME IInv, TypeOK', NEW p \in Proc, NEW a \in Approval, a = run[p].a,
           ConsumeApproval(p)
    PROVE  IInv'
<1>0. /\ run[p].step = "intent" /\ Becomes(a, {"approved"}, "consumed")
      /\ Goto(p, "spent")
      /\ UNCHANGED <<main, prom, git, look, mem, ruled>>
  BY Calls
<1>1. DrivingOK(p) /\ GitOK(a) /\ RowOK(a)
  BY <1>0, Driver DEF Driving
<1>2. /\ \A b \in Approval \ {a} : appr'[b] = appr[b]
      /\ appr'[a].task = appr[a].task /\ appr'[a].state = "consumed"
      /\ appr[a].state = "approved"
  BY <1>0, <1>1, Typed DEF Becomes, ApprovalRow
<1>3. Others(p) /\ SameCall(p) /\ run'[p].step = "spent"
  BY <1>0, Typed, GotoMoves DEF Step
<1>4. DrivenStep(p, a)
  <2>1. Live(a)' => Live(a)
    BY <1>2 DEF Live, OpenState
  <2>2. (Done(a) => Done(a)') /\ (holdsExclusiveMarker(a)' => holdsExclusiveMarker(a))
    BY <1>0 DEF Done, holdsExclusiveMarker
  <2> QED
    BY <2>1, <2>2, <1>0, <1>2, <1>3
       DEF DrivenStep, SameCall, OtherMerges, OtherRows, Early, Driving
<1>5. DrivingOK(p)'
  BY <1>0, <1>1, <1>2, <1>3 DEF DrivingOK, SameCall, Driving
<1>6. ObservedOK(p)'
  BY <1>3 DEF ObservedOK
<1>7. GitOK(a)' /\ RowOK(a)'
  BY <1>0, <1>1, <1>2 DEF GitOK, RowOK, Running, Done, DrivingOK, Driving
<1>8. MemInv'
  BY <1>0 DEF IInv, MemInv, Done
<1> QED
  BY <1>1, <1>4, <1>5, <1>6, <1>7, <1>8, DrivenStepKeeps

\* A call that ends with its record: nothing is left to show of the call.
LEMMA CallOver ==
    ASSUME NEW p \in Proc, run'[p] = NoRun
    PROVE  /\ EarlyOK(p)' /\ DrivingOK(p)' /\ ObservedOK(p)'
           /\ run'[p].step = "idle" /\ run'[p].step \notin Early /\ run'[p].before = <<>>
  BY DEF NoRun, EarlyOK, DrivingOK, ObservedOK, Early, Driving

LEMMA ConsumeLostStep ==
    ASSUME IInv, TypeOK', NEW p \in Proc, NEW a \in Approval, a = run[p].a,
           ConsumeLost(p)
    PROVE  IInv'
<1>0. /\ run[p].step = "intent" /\ Return(p)
      /\ UNCHANGED <<appr, main, git, look, ruled>>
      /\ IF prom[a].byCall
         THEN writePromotion(a, "rolled-back", "none", TRUE) /\ mem' = Forget(a)
         ELSE UNCHANGED <<prom, mem>>
  BY DEF ConsumeLost, At, approvalVars
<1>1. DrivingOK(p) /\ GitOK(a) /\ RowOK(a)
  BY <1>0, Driver DEF Driving
<1>2. Others(p) /\ run'[p] = NoRun
  BY <1>0, Typed, ReturnMoves
<1>a. CASE ~prom[a].byCall
  <2>1. DrivenStep(p, a)
    BY <1>0, <1>2, <1>a, CallOver DEF DrivenStep, OtherRows, OtherMerges, Driving, Live, Done,
       holdsExclusiveMarker
  <2>2. GitOK(a)' /\ RowOK(a)' /\ MemInv'
    BY <1>0, <1>1, <1>a DEF GitOK, RowOK, IInv, MemInv, Done, Running
  <2> QED
    BY <1>1, <1>2, <2>1, <2>2, CallOver, DrivenStepKeeps
<1>b. CASE prom[a].byCall
  <2>1. /\ OtherRows(a) /\ SameRow(a) /\ prom'[a].state = "rolled-back"
        /\ prom'[a].hint = "none"
    BY <1>0, <1>1, <1>b, Typed, WriteMoves DEF RowState, Hint
  <2>2. SameTold
    BY <1>0, <1>1, <1>b, Typed, AttestMoves
  <2>3. DrivenStep(p, a)
    <3>1. (Live(a)' => Live(a)) /\ (Done(a) => Done(a)') /\ ~holdsExclusiveMarker(a)'
      BY <1>0, <2>1 DEF Live, Done, holdsExclusiveMarker
    <3> QED
      BY <1>0, <1>2, <2>1, <3>1, CallOver DEF DrivenStep, OtherMerges, Driving, SameRow
  <2>4. GitOK(a)' /\ RowOK(a)'
    BY <1>0, <1>1, <2>1 DEF GitOK, RowOK, DrivingOK, Driving, Running
  <2>5. MemInv'
    BY <1>0, <2>2 DEF IInv, MemInv, Done, SameTold
  <2> QED
    BY <1>1, <1>2, <2>3, <2>4, <2>5, CallOver, DrivenStepKeeps
<1> QED
  BY <1>a, <1>b

LEMMA MergeIntoHeadStep ==
    ASSUME IInv, TypeOK', NEW p \in Proc, NEW a \in Approval, a = run[p].a,
           MergeIntoHead(p)
    PROVE  IInv'
<1>0. run[p].step = "spent" /\ UNCHANGED <<appr, main, look, mem, ruled>>
  BY DEF MergeIntoHead, At, approvalVars
<1>1. DrivingOK(p) /\ GitOK(a) /\ RowOK(a)
  BY <1>0, Driver DEF Driving
<1>2. /\ Others(p) /\ run'[p].step = "merging" /\ run'[p].spawned /\ run'[p].a = a
      /\ run'[p].before = run[p].before
      /\ OtherRows(a) /\ SameRow(a)
      /\ prom'[a].state = prom[a].state /\ prom'[a].hint = prom[a].hint
      /\ prom'[a].byCall = prom[a].byCall
      /\ OtherMerges(a) /\ SameMerge(a) /\ git'[a].leader = "start"
  BY <1>1, MergeIntoHeadMoves, Typed
<1>3. git[a].leader = "none" /\ ~Done(a) /\ appr[a].state = "consumed"
  BY <1>0, <1>1 DEF DrivingOK, Driving, Done
<1>4. DrivenStep(p, a)
  <2>1. (Live(a)' => Live(a)) /\ (holdsExclusiveMarker(a)' => holdsExclusiveMarker(a))
    BY <1>0, <1>2 DEF Live, holdsExclusiveMarker
  <2> QED
    BY <2>1, <1>0, <1>2, <1>3 DEF DrivenStep, SameRow, SameMerge, Early, Driving
<1>5. DrivingOK(p)' /\ ObservedOK(p)'
  BY <1>0, <1>1, <1>2, <1>3 DEF DrivingOK, Driving, ObservedOK
<1>6. GitOK(a)' /\ RowOK(a)'
  BY <1>0, <1>1, <1>2, <1>3 DEF GitOK, RowOK, Running, Done, DrivingOK, Driving, SameMerge
<1>7. MemInv'
  <2>1. \A b \in Approval : Done(b) => Done(b)'
    BY <1>2, <1>3 DEF Done, OtherMerges
  <2> QED
    BY <1>0, <2>1, Typed DEF IInv, MemInv, FirstHand
<1> QED
  BY <1>1, <1>4, <1>5, <1>6, <1>7, DrivenStepKeeps

LEMMA WaitStep ==
    ASSUME IInv, TypeOK', NEW p \in Proc, NEW a \in Approval, a = run[p].a,
           MergeNotStarted(p) \/ MergeClosed(p)
    PROVE  IInv'
<1>0. /\ \/ run[p].step = "spent"
         \/ run[p].step = "merging" /\ git[a].leader = "over"
      /\ Goto(p, "closed") /\ main'.log = main.log
      /\ UNCHANGED <<appr, prom, git, look, mem, ruled>>
  BY Typed DEF MergeNotStarted, MergeClosed, At, approvalVars, IInv, TypeOK, ApprovalTypeOK
<1>1. DrivingOK(p) /\ GitOK(a) /\ RowOK(a)
  BY <1>0, Driver DEF Driving
<1>2. Others(p) /\ SameCall(p) /\ run'[p].step = "closed"
  BY <1>0, Typed, GotoMoves DEF Step
<1>3. DrivenStep(p, a)
  BY <1>0, <1>2 DEF DrivenStep, SameCall, OtherRows, OtherMerges, Early, Driving, Live, Done,
     holdsExclusiveMarker
<1>4. DrivingOK(p)' /\ ObservedOK(p)'
  BY <1>0, <1>1, <1>2 DEF DrivingOK, Driving, ObservedOK, SameCall
<1>5. GitOK(a)' /\ RowOK(a)' /\ MemInv'
  BY <1>0, <1>1 DEF GitOK, RowOK, IInv, MemInv, Done, Running
<1> QED
  BY <1>1, <1>3, <1>4, <1>5, DrivenStepKeeps

\* What a call, or a process, may conclude of a merge.
LEMMA Concluded ==
    ASSUME IInv, NEW p \in Proc, NEW a \in Approval, mergeWriteConclusion(p, a), a \notin ruled
    PROVE  Done(a)
  BY Typed DEF mergeWriteConclusion, ownerDeclarationHere, concludedHere, IInv, MemInv,
     FirstHand

\* What main shows of a record that is still open.
LEMMA Shown ==
    ASSUME IInv, NEW a \in Approval, prom[a].state \in {"applying", "manual"},
           appr[a].state = "consumed"
    PROVE  /\ observeMain(a) \in {"applied", "authorized"} /\ a \notin ruled =>
                 Credited(a) # {}
           /\ observeMain(a) = "rolled-back" => ~git[a].landed
<1>0. /\ Live(a) /\ appr[a].task \in Task
      /\ prom[a].before \in Log /\ main.log \in Log
  BY Typed DEF Live, IInv, RowInv, RowOK, PromotionRow
<1>1. ASSUME observeMain(a) \in {"applied", "authorized"}, a \notin ruled
      PROVE  Credited(a) # {}
  <2>1. main.log = Append(prom[a].before, appr[a].task)
    BY <1>1 DEF observeMain
  <2> DEFINE i == Len(prom[a].before) + 1
  <2>2. i \in DOMAIN main.log /\ main.log[i] = appr[a].task /\ i > Len(prom[a].before)
    BY <1>0, <2>1 DEF Log
  <2>3. Accounted(a, prom[a].before)
    BY <1>0, <1>1 DEF IInv, LogInv
  <2> QED
    BY <2>2, <2>3 DEF Accounted
<1>2. ASSUME observeMain(a) = "rolled-back" PROVE ~git[a].landed
  <2>1. main.log = prom[a].before
    BY <1>2 DEF observeMain
  <2> QED
    BY <2>1, Typed DEF IInv, LogInv
<1> QED
  BY <1>1, <1>2

LEMMA ObserveStep ==
    ASSUME IInv, TypeOK', NEW p \in Proc, NEW a \in Approval, a = run[p].a,
           ObservePromotion(p)
    PROVE  IInv'
<1>0. run[p].step = "closed" /\ UNCHANGED <<appr, main, prom, git, look, ruled>>
  BY DEF ObservePromotion, At, approvalVars
<1>1. DrivingOK(p) /\ GitOK(a) /\ RowOK(a)
  BY <1>0, Driver DEF Driving
<1>2. /\ Others(p) /\ SameCall(p) /\ run'[p].step = "observed"
      /\ run'[p].seen = observeMain(a)
      /\ run'[p].group = (run[p].spawned /\ git[a].group)
      /\ run'[p].over => MayConclude(p)
  BY Typed, ObserveMoves
<1>3. \A q \in Proc : /\ mem'[q].declared = mem[q].declared
                      /\ mem'[q].concluded \subseteq mem[q].concluded \cup {a}
                      /\ mem'[q].concluded # mem[q].concluded => q = p /\ MayConclude(p)
  BY Typed, ConclusionMoves
<1>4. MayConclude(p) /\ a \notin ruled => Done(a)
  <2>1. run[p].spawned => git[a].leader = "over"
    BY <1>0, <1>1 DEF DrivingOK, Driving
  <2> QED
    BY <2>1, Concluded DEF MayConclude, Done
<1>5. DrivenStep(p, a)
  BY <1>0, <1>2 DEF DrivenStep, SameCall, OtherRows, OtherMerges, Early, Driving, Live, Done,
     holdsExclusiveMarker
<1>6. DrivingOK(p)'
  BY <1>0, <1>1, <1>2 DEF DrivingOK, Driving, SameCall
<1>7. ObservedOK(p)'
  <2>1. run'[p].over => ~run'[p].group
    BY <1>2 DEF MayConclude
  <2>2. run'[p].over /\ a \notin ruled => Done(a)
    BY <1>2, <1>4
  <2>3. ~run'[p].group => ~git[a].group
    BY <1>0, <1>1, <1>2 DEF DrivingOK, Driving, GitOK
  <2>4. /\ observeMain(a) \in {"applied", "authorized"} /\ a \notin ruled => Credited(a) # {}
        /\ observeMain(a) = "rolled-back" => ~git[a].landed
    <3>1. appr[a].state = "consumed" /\ prom[a].before \in Log /\ git[a].landed \in BOOLEAN
      BY <1>0, <1>1, Typed DEF DrivingOK, Driving, PromotionRow, MergeProcess
    <3>2. observeMain(a) = "rolled-back" => ~git[a].landed
      <4>1. observeMain(a) = "rolled-back" => main.log = prom[a].before
        BY DEF observeMain
      <4> QED
        BY <4>1, Typed DEF IInv, LogInv
    <3>3. a \notin ruled => prom[a].state = "applying"
      BY <1>0, <1>1 DEF DrivingOK, Driving
    <3> QED
      BY <3>1, <3>2, <3>3, Shown
  <2>5. Done(a)' = Done(a) /\ Credited(a)' = Credited(a) /\ run'[p].a = a /\ ruled' = ruled
    BY <1>0, <1>2 DEF Done, Credited, SameCall
  <2>6. observeMain(a) # "none"
    BY DEF observeMain
  <2> QED
    BY <2>1, <2>2, <2>3, <2>4, <2>5, <2>6, <1>0, <1>2 DEF ObservedOK
<1>8. GitOK(a)' /\ RowOK(a)'
  BY <1>0, <1>1 DEF GitOK, RowOK, Done, Running
<1>9. MemInv'
  <2>1. \A b \in Approval : Done(b)' = Done(b)
    BY <1>0 DEF Done
  <2>2. ASSUME NEW q \in Proc
        PROVE  /\ mem'[q].declared \subseteq ruled'
               /\ \A b \in mem'[q].concluded \ ruled' : Done(b)'
    <3>1. /\ mem[q].declared \subseteq ruled /\ mem[q].concluded \subseteq Approval
          /\ \A b \in mem[q].concluded \ ruled : Done(b)
      BY Typed DEF IInv, MemInv, FirstHand
    <3> QED
      BY <3>1, <2>1, <1>0, <1>3, <1>4
  <2> QED
    BY <2>2 DEF MemInv
<1> QED
  BY <1>5, <1>6, <1>7, <1>8, <1>9, DrivenStepKeeps

LEMMA SettleStep ==
    ASSUME IInv, TypeOK', NEW p \in Proc, NEW a \in Approval, a = run[p].a,
           SettlePromotion(p)
    PROVE  IInv'
<1>0. /\ run[p].step = "observed" /\ Return(p)
      /\ UNCHANGED <<appr, main, git, look, ruled>>
      /\ ~prom[a].byCall => UNCHANGED <<prom, mem>>
  BY DEF SettlePromotion, At
<1>1. DrivingOK(p) /\ ObservedOK(p) /\ GitOK(a) /\ RowOK(a)
  BY <1>0, Driver DEF Driving
<1>2. Others(p) /\ run'[p] = NoRun
  BY <1>0, Typed, ReturnMoves
<1>a. CASE ~prom[a].byCall
  <2>1. DrivenStep(p, a)
    BY <1>0, <1>2, <1>a, CallOver DEF DrivenStep, OtherRows, OtherMerges, Driving, Live, Done,
       holdsExclusiveMarker
  <2>2. GitOK(a)' /\ RowOK(a)' /\ MemInv'
    BY <1>0, <1>1, <1>a DEF GitOK, RowOK, IInv, MemInv, Done, Running
  <2> QED
    BY <1>2, <2>1, <2>2, CallOver, DrivenStepKeeps
<1>b. CASE prom[a].byCall
  <2>0. /\ prom[a].state = "applying" /\ appr[a].state = "consumed"
        /\ run[p].spawned => git[a].leader = "over"
        /\ ~run[p].spawned => git[a].leader = "none"
    BY <1>0, <1>1, <1>b DEF DrivingOK, Driving
  <2>1. PICK s \in RowState \ {"none"}, h \in Hint :
           /\ WrittenAs(a, s, h, s = "applying")
           /\ h = "reset" => run[p].over /\ run[p].spawned
    BY <1>0, <1>1, <1>b, Typed, SettleMoves DEF ObservedOK
  <2>2. /\ OtherRows(a) /\ SameRow(a) /\ prom'[a].state = s
        /\ prom'[a].hint = h
    BY <2>1 DEF WrittenAs
  <2>3. SameTold
    BY <1>0, <1>1, <1>b, Typed, SettleMoves DEF ObservedOK
  <2>4. DrivenStep(p, a)
    <3>1. (Live(a)' => Live(a)) /\ (Done(a) => Done(a)')
      BY <1>0, <2>0, <2>2 DEF Live, Done
    <3>2. holdsExclusiveMarker(a)
      BY <2>0 DEF holdsExclusiveMarker
    <3> QED
      BY <1>0, <1>2, <2>2, <3>1, <3>2, CallOver DEF DrivenStep, OtherMerges, Driving, SameRow
  <2>5. h = "reset" => Done(a)
    BY <1>0, <1>1, <2>0, <2>1 DEF ObservedOK, Done
  <2>6. GitOK(a)' /\ RowOK(a)'
    BY <1>0, <1>1, <2>0, <2>2, <2>5 DEF GitOK, RowOK, Running, Done, RowState
  <2>7. MemInv'
    BY <1>0, <2>3 DEF IInv, MemInv, Done, SameTold
  <2> QED
    BY <1>2, <2>4, <2>6, <2>7, CallOver, DrivenStepKeeps
<1> QED
  BY <1>a, <1>b

LEMMA CallKeeps ==
    ASSUME IInv, TypeOK', NEW p \in Proc, Call(p)
    PROVE  IInv'
<1>s. ASSUME run[p].step # "idle" PROVE run[p].a \in Approval
  BY <1>s, Subjects
<1>e. run[p].step \in Early => run[p].a \in Approval /\ ~run[p].spawned
  BY DEF IInv, CallInv, EarlyOK
<1>f. UNCHANGED <<look, mem>> => Forgotten
  BY DEF Forgotten
<1>1. CASE RefusePromotion(p)
  <2>1. OnlyClosed
    BY <1>1, <1>e, Calls, ClosedMoves, Typed
  <2>2. CallStep
    BY <1>1, Calls, ReturnMoves, Typed DEF CallStep
  <2> QED
    BY <1>1, <1>f, <2>1, <2>2, Calls, QuietStep
<1>2. CASE PassGates(p)
  <2>1. run[p].step = "approved" /\ Goto(p, "gated")
        /\ UNCHANGED <<appr, main, prom, git, look, mem, ruled>>
    BY <1>2 DEF PassGates, At, approvalVars
  <2>2. OnlyClosed
    BY <2>1 DEF OnlyClosed
  <2>3. CallStep
    BY <2>1, <1>e, GotoMoves, Typed DEF CallStep, Early, Step, SameCall
  <2> QED
    BY <1>f, <2>1, <2>2, <2>3, QuietStep
<1>3. CASE VerifyMergeBinding(p)
  <2>1. OnlyClosed
    BY <1>3, <1>s, Calls, ClosedMoves, Typed
  <2>2. CallStep
    <3>1. CASE Return(p)
      BY <3>1, ReturnMoves, Typed DEF CallStep
    <3>2. CASE Goto(p, "verified")
      BY <1>3, <3>2, <1>e, Calls, GotoMoves, Typed DEF CallStep, Early, Step, SameCall
    <3> QED
      BY <1>3, <3>1, <3>2, Calls
  <2> QED
    BY <1>3, <1>f, <2>1, <2>2, Calls, QuietStep
<1>4. CASE RestorePoint(p)
  <2>1. run[p].step = "verified" /\ UNCHANGED <<appr, main, prom, git, look, mem, ruled>>
    BY <1>4 DEF RestorePoint, At, approvalVars
  <2>2. OnlyClosed
    BY <2>1 DEF OnlyClosed
  <2>3. CallStep
    BY <1>4, <2>1, <1>e, RestorePointMoves, Typed DEF CallStep, Early
  <2> QED
    BY <1>f, <2>1, <2>2, <2>3, QuietStep
<1>5. CASE InsertPromotion(p)
  BY <1>5, <1>s, InsertStep DEF InsertPromotion, At
<1>6. CASE ConsumeApproval(p)
  BY <1>6, <1>s, ConsumeStep DEF ConsumeApproval, At
<1>7. CASE ConsumeLost(p)
  BY <1>7, <1>s, ConsumeLostStep DEF ConsumeLost, At
<1>8. CASE MergeIntoHead(p)
  BY <1>8, <1>s, MergeIntoHeadStep DEF MergeIntoHead, At
<1>9. CASE MergeNotStarted(p) \/ MergeClosed(p)
  BY <1>9, <1>s, WaitStep DEF MergeNotStarted, MergeClosed, At
<1>10. CASE ObservePromotion(p)
  BY <1>10, <1>s, ObserveStep DEF ObservePromotion, At
<1>11. CASE SettlePromotion(p)
  BY <1>11, <1>s, SettleStep DEF SettlePromotion, At
<1> QED
  BY <1>1, <1>2, <1>3, <1>4, <1>5, <1>6, <1>7, <1>8, <1>9, <1>10, <1>11 DEF Call

-----------------------------------------------------------------------------
(* The steps of git and of the owner in the project.                       *)

\* git goes on, or ends, without landing anything.
LEMMA GitGoesOn ==
    ASSUME IInv, TypeOK', NEW a \in Approval, NEW l \in {"tree", "over"}, GitStep(a, l),
           git[a].leader # "none", git'[a].landed = git[a].landed,
           Running(a) \/ git[a].leader = "over",
           git[a].leader = "over" => l = "over" /\ ~git'[a].group,
           l = "tree" => git[a].leader = "start" /\ SameMerge(a),
           main'.log = main.log,
           UNCHANGED <<appr, prom, run, look, mem, ruled>>
    PROVE  IInv'
<1>0. /\ \A b \in Approval \ {a} : git'[b] = git[b]
      /\ git'[a].leader = l
  BY DEF GitStep, OtherMerges
<1>l. \A b \in Approval : /\ git'[b].landed = git[b].landed
                          /\ Done(b) => Done(b)'
                          /\ Running(b)' => Running(b)
                          /\ Live(b)' = Live(b)
                          /\ git[b].leader = "none" <=> git'[b].leader = "none"
                          /\ git[b].leader = "over" => git'[b].leader = "over"
                          /\ git[b].leader = "over" /\ ~git[b].group => ~git'[b].group
  BY <1>0 DEF Done, Running, Live
<1>c. \A b \in Approval : Credited(b)' = Credited(b)
  BY <1>l DEF Credited
<1>1. CallInv'
  <2> SUFFICES ASSUME NEW q \in Proc PROVE (EarlyOK(q) /\ DrivingOK(q) /\ ObservedOK(q))'
    BY DEF CallInv
  <2>0. EarlyOK(q) /\ DrivingOK(q) /\ ObservedOK(q)
    BY DEF IInv, CallInv
  <2>1. EarlyOK(q)'
    BY <2>0 DEF EarlyOK
  <2>2. DrivingOK(q)'
    BY <2>0, <1>l DEF DrivingOK
  <2>3. ObservedOK(q)'
    <3>1. run[q].step = "observed" =>
             /\ run[q].a \in Approval
             /\ run[q].spawned => git[run[q].a].leader = "over"
             /\ ~run[q].spawned => git[run[q].a].leader = "none"
      BY <2>0 DEF DrivingOK, Driving
    <3>2. run[q].step = "observed" => (~git[run[q].a].group => ~git'[run[q].a].group)
      BY <3>1, <1>0, <1>l
    <3> QED
      BY <3>1, <3>2, <2>0, <1>c, <1>l DEF ObservedOK
  <2> QED
    BY <2>1, <2>2, <2>3
<1>2. SoleCall'
  BY DEF IInv, SoleCall
<1>3. GitInv'
  <2> SUFFICES ASSUME NEW b \in Approval PROVE GitOK(b)'
    BY DEF GitInv
  <2>1. GitOK(b)
    BY DEF IInv, GitInv
  <2>2. CASE b # a
    BY <2>1, <2>2, <1>0 DEF GitOK, Running
  <2>3. CASE b = a
    BY <2>1, <2>3, <1>0 DEF GitOK, Running, SameMerge
  <2> QED
    BY <2>2, <2>3
<1>4. RowInv'
  BY <1>l DEF IInv, RowInv, RowOK
<1>5. OneMarker'
  BY DEF IInv, OneMarker, holdsExclusiveMarker
<1>6. MemInv'
  BY <1>l, Typed DEF IInv, MemInv, FirstHand
<1>7. LookInv'
  <2> SUFFICES ASSUME NEW q \in Proc PROVE LookOK(q)'
    BY DEF LookInv
  <2>1. LookOK(q) /\ (look[q].a # NONE => look[q].a \in Approval)
    BY Typed DEF IInv, LookInv, Reobservation
  <2>2. \A b \in Approval : Settled(b) => Settled(b)'
    BY <1>l DEF Settled, Drives
  <2> QED
    BY <2>1, <2>2, <1>c, <1>l DEF LookOK
<1>8. SoleLive'
  BY <1>l DEF IInv, SoleLive
<1>9. LogInv'
  <2>1. \A before : \A b \in Approval : Accounted(b, before) => Accounted(b, before)'
    BY <1>c DEF Accounted
  <2>2. ASSUME NEW b \in Approval
        PROVE  /\ Len(prom'[b].before) <= Len(main'.log)
               /\ git'[b].landed => Len(prom'[b].before) < Len(main'.log)
               /\ prom'[b].state # "none" /\ Live(b)' /\ b \notin ruled' =>
                     Accounted(b, prom[b].before)'
    BY <2>1, <1>l DEF IInv, LogInv
  <2>3. ASSUME NEW q \in Proc
        PROVE  /\ Len(run'[q].before) <= Len(main'.log)
               /\ run'[q].step = "restored" /\ Live(run[q].a)' /\ run'[q].a \notin ruled' =>
                     Accounted(run[q].a, run[q].before)'
    <3>1. run[q].step = "restored" => run[q].a \in Approval
      BY Subjects
    <3> QED
      BY <3>1, <2>1, <1>l DEF IInv, LogInv
  <2> QED
    BY <2>2, <2>3 DEF LogInv
<1> QED
  BY <1>1, <1>2, <1>3, <1>4, <1>5, <1>6, <1>7, <1>8, <1>9 DEF IInv

\* A commit in main: what is in it keeps its place.
LEMMA LogGrows ==
    ASSUME IInv, NEW x \in Task \cup {Own}, main'.log = Append(main.log, x)
    PROVE  /\ Len(main'.log) = Len(main.log) + 1
           /\ \A i \in DOMAIN main'.log :
                 \/ i \in DOMAIN main.log /\ main'.log[i] = main.log[i]
                 \/ i = Len(main.log) + 1 /\ main'.log[i] = x
  BY Typed

LEMMA GitCommitsStep ==
    ASSUME IInv, TypeOK', NEW a \in Approval, GitCommits(a)
    PROVE  IInv'
<1>0. /\ GitStep(a, "commit") /\ git'[a].landed /\ git'[a].group = git[a].group
      /\ git[a].leader = "tree" /\ main'.log = Append(main.log, appr[a].task)
      /\ UNCHANGED <<appr, prom, run, look, mem, ruled>>
  BY GitMoves, Typed DEF GitCommits, IInv, TypeOK, ApprovalTypeOK
<1>1. /\ \A b \in Approval \ {a} : git'[b] = git[b]
      /\ git'[a].leader = "commit"
  BY <1>0 DEF GitStep, OtherMerges
<1>2. /\ Running(a) /\ GitOK(a) /\ RowOK(a) /\ ~Done(a)
      /\ appr[a].task \in Task /\ appr[a].state = "consumed"
  BY <1>0 DEF Running, IInv, GitInv, GitOK, RowInv, RowOK, Done
<1>l. \A b \in Approval : /\ git[b].landed => git'[b].landed
                          /\ Done(b) => Done(b)'
                          /\ Running(b)' <=> Running(b)
                          /\ Live(b)' = Live(b)
                          /\ git[b].leader = "none" <=> git'[b].leader = "none"
                          /\ git[b].leader = "over" => git'[b].leader = "over"
                          /\ git'[b].group = git[b].group
  BY <1>0, <1>1, <1>2 DEF Done, Running, Live
<1>c. \A b \in Approval : Credited(b) # {} => Credited(b)' # {}
  BY <1>0, <1>l, CreditStays
<1>3. CallInv'
  <2> SUFFICES ASSUME NEW q \in Proc PROVE (EarlyOK(q) /\ DrivingOK(q) /\ ObservedOK(q))'
    BY DEF CallInv
  <2>0. EarlyOK(q) /\ DrivingOK(q) /\ ObservedOK(q)
    BY DEF IInv, CallInv
  <2>1. EarlyOK(q)'
    BY <1>0, <2>0 DEF EarlyOK
  <2>2. DrivingOK(q)'
    BY <1>0, <2>0, <1>l DEF DrivingOK
  <2>3. ObservedOK(q)'
    <3>1. run[q].step = "observed" => run[q].a \in Approval \ {a}
      BY <1>0, <2>0 DEF DrivingOK, Driving
    <3> QED
      BY <1>0, <3>1, <2>0, <1>c, <1>l, <1>1 DEF ObservedOK
  <2> QED
    BY <2>1, <2>2, <2>3
<1>4. SoleCall'
  BY <1>0 DEF IInv, SoleCall
<1>5. GitInv'
  <2> SUFFICES ASSUME NEW b \in Approval PROVE GitOK(b)'
    BY DEF GitInv
  <2>1. GitOK(b)
    BY DEF IInv, GitInv
  <2>2. CASE b # a
    BY <1>0, <2>1, <2>2, <1>1 DEF GitOK, Running
  <2>3. CASE b = a
    BY <1>0, <2>1, <2>3, <1>1, <1>2 DEF GitOK, Running
  <2> QED
    BY <2>2, <2>3
<1>6. RowInv'
  BY <1>0, <1>l DEF IInv, RowInv, RowOK
<1>7. OneMarker'
  BY <1>0 DEF IInv, OneMarker, holdsExclusiveMarker
<1>8. MemInv'
  BY <1>0, <1>l, Typed DEF IInv, MemInv, FirstHand
<1>9. LookInv'
  <2> SUFFICES ASSUME NEW q \in Proc PROVE LookOK(q)'
    BY DEF LookInv
  <2>1. LookOK(q) /\ (look[q].a # NONE => look[q].a \in Approval)
    BY Typed DEF IInv, LookInv, Reobservation
  <2>2. \A b \in Approval : Settled(b) => Settled(b)' /\ b # a
    BY <1>0, <1>l, <1>2 DEF Settled, Drives
  <2> QED
    BY <1>0, <1>1, <2>1, <2>2, <1>c, <1>l DEF LookOK
<1>10. SoleLive'
  BY <1>0, <1>l DEF IInv, SoleLive
<1>11. LogInv'
  <2>0. /\ Len(main.log) \in Nat /\ Len(main'.log) = Len(main.log) + 1
        /\ \A i \in DOMAIN main'.log :
              \/ i \in DOMAIN main.log /\ main'.log[i] = main.log[i]
              \/ i = Len(main.log) + 1 /\ main'.log[i] = appr[a].task
    BY <1>0, <1>2, LogGrows, Typed
  <2>1. ASSUME NEW b \in Approval, NEW before, Accounted(b, before), Live(b)
        PROVE  Accounted(b, before)'
    <3>1. ASSUME appr[b].task = appr[a].task PROVE Credited(b)' # {}
      <4>1. CASE a \in ruled
        BY <1>0, <3>1, <4>1 DEF Credited
      <4>2. CASE a \notin ruled
        <5>1. Live(a)
          BY <4>2, <1>2 DEF GitOK, Live
        <5>2. b = a
          BY <5>1, <3>1, <2>1 DEF IInv, SoleLive
        <5> QED
          BY <1>0, <5>2 DEF Credited
      <4> QED
        BY <4>1, <4>2
    <3>2. ASSUME NEW i \in DOMAIN main.log, i > Len(before), main.log[i] = appr[b].task
          PROVE  Credited(b)' # {}
      BY <2>1, <3>2, <1>c DEF Accounted
    <3> QED
      BY <1>0, <2>0, <3>1, <3>2 DEF Accounted
  <2>2. ASSUME NEW b \in Approval
        PROVE  /\ Len(prom'[b].before) <= Len(main'.log)
               /\ git'[b].landed => Len(prom'[b].before) < Len(main'.log)
               /\ prom'[b].state # "none" /\ Live(b)' /\ b \notin ruled' =>
                     Accounted(b, prom[b].before)'
    <3>1. Len(prom[b].before) <= Len(main.log) /\ Len(prom[b].before) \in Nat
      BY Typed DEF IInv, LogInv, PromotionRow, Log
    <3>2. prom[b].state # "none" /\ Live(b) /\ b \notin ruled => Accounted(b, prom[b].before)'
      <4>1. prom[b].state # "none" /\ Live(b) /\ b \notin ruled => Accounted(b, prom[b].before)
        BY DEF IInv, LogInv
      <4>2. prom[b].before = prom'[b].before
        BY <1>0
      <4> QED
        BY <2>1, <4>1, <4>2
    <3>3. prom' = prom /\ ruled' = ruled
      BY <1>0
    <3> QED
      BY <3>1, <3>2, <3>3, <2>0, <1>l
  <2>3. ASSUME NEW q \in Proc
        PROVE  /\ Len(run'[q].before) <= Len(main'.log)
               /\ run'[q].step = "restored" /\ Live(run[q].a)' /\ run'[q].a \notin ruled' =>
                     Accounted(run[q].a, run[q].before)'
    <3>1. Len(run[q].before) <= Len(main.log) /\ Len(run[q].before) \in Nat
      BY Typed DEF IInv, LogInv, PromotingCall, Log
    <3>2. run[q].step = "restored" => run[q].a \in Approval
      BY Subjects
    <3>3. /\ run[q].step = "restored" /\ Live(run[q].a) /\ run[q].a \notin ruled =>
                Accounted(run[q].a, run[q].before)'
      <4>1. run[q].step = "restored" /\ Live(run[q].a) /\ run[q].a \notin ruled =>
               Accounted(run[q].a, run[q].before)
        BY DEF IInv, LogInv
      <4>2. run[q].before = run'[q].before /\ run[q].a = run'[q].a
        BY <1>0
      <4> QED
        BY <2>1, <3>2, <4>1, <4>2
    <3>4. run' = run /\ ruled' = ruled /\ (run[q].step = "restored" => Live(run[q].a)' = Live(run[q].a))
      BY <1>0, <1>l, <3>2
    <3> QED
      BY <3>1, <3>3, <3>4, <2>0
  <2> QED
    BY <2>2, <2>3 DEF LogInv
<1> QED
  BY <1>3, <1>4, <1>5, <1>6, <1>7, <1>8, <1>9, <1>10, <1>11 DEF IInv

LEMMA OwnerCommitsStep ==
    ASSUME IInv, TypeOK', OwnerWorks
    PROVE  IInv'
<1>0. /\ main'.log = Append(main.log, Own)
      /\ UNCHANGED <<appr, prom, git, run, look, mem, ruled>>
  BY Typed DEF OwnerWorks, OwnerCommits, promotionVars, IInv, TypeOK, ApprovalTypeOK
<1>1. CallInv' /\ SoleCall' /\ GitInv' /\ RowInv' /\ OneMarker' /\ MemInv' /\ LookInv' /\ SoleLive'
  BY <1>0 DEF IInv, CallInv, EarlyOK, DrivingOK, ObservedOK, SoleCall, GitInv, GitOK, RowInv,
     RowOK, OneMarker, holdsExclusiveMarker, MemInv, LookInv, LookOK, SoleLive, Live, Credited,
     Done, Running, Settled, Drives
<1>2. LogInv'
  <2>0. /\ Len(main.log) \in Nat /\ Len(main'.log) = Len(main.log) + 1
        /\ \A i \in DOMAIN main'.log :
              \/ i \in DOMAIN main.log /\ main'.log[i] = main.log[i]
              \/ i = Len(main.log) + 1 /\ main'.log[i] = Own
    BY <1>0, LogGrows, Typed
  <2>1. ASSUME NEW b \in Approval, NEW before, Accounted(b, before), appr[b].task \in Task
        PROVE  Accounted(b, before)'
    BY <1>0, <2>0, <2>1, ApprovalAssumption DEF Accounted, Credited
  <2>l. \A b \in Approval : /\ Live(b)' = Live(b)
                            /\ Live(b) => appr[b].task \in Task
    BY <1>0 DEF Live, IInv, RowInv, RowOK, OpenState
  <2>2. ASSUME NEW b \in Approval
        PROVE  /\ Len(prom'[b].before) <= Len(main'.log)
               /\ git'[b].landed => Len(prom'[b].before) < Len(main'.log)
               /\ prom'[b].state # "none" /\ Live(b)' /\ b \notin ruled' =>
                     Accounted(b, prom[b].before)'
    <3>1. Len(prom[b].before) <= Len(main.log) /\ Len(prom[b].before) \in Nat
      BY Typed DEF IInv, LogInv, PromotionRow, Log
    <3>2. prom[b].state # "none" /\ Live(b) /\ b \notin ruled => Accounted(b, prom[b].before)'
      <4>1. prom[b].state # "none" /\ Live(b) /\ b \notin ruled => Accounted(b, prom[b].before)
        BY DEF IInv, LogInv
      <4>2. prom[b].before = prom'[b].before
        BY <1>0
      <4> QED
        BY <2>1, <2>l, <4>1, <4>2
    <3> QED
      BY <1>0, <3>1, <3>2, <2>0, <2>l
  <2>3. ASSUME NEW q \in Proc
        PROVE  /\ Len(run'[q].before) <= Len(main'.log)
               /\ run'[q].step = "restored" /\ Live(run[q].a)' /\ run'[q].a \notin ruled' =>
                     Accounted(run[q].a, run[q].before)'
    <3>1. Len(run[q].before) <= Len(main.log) /\ Len(run[q].before) \in Nat
      BY Typed DEF IInv, LogInv, PromotingCall, Log
    <3>2. run[q].step = "restored" => run[q].a \in Approval
      BY Subjects
    <3>3. run[q].step = "restored" /\ Live(run[q].a) /\ run[q].a \notin ruled =>
                Accounted(run[q].a, run[q].before)'
      <4>1. run[q].step = "restored" /\ Live(run[q].a) /\ run[q].a \notin ruled =>
               Accounted(run[q].a, run[q].before)
        BY DEF IInv, LogInv
      <4>2. run[q].before = run'[q].before /\ run[q].a = run'[q].a
        BY <1>0
      <4> QED
        BY <2>1, <2>l, <3>2, <4>1, <4>2
    <3>4. run' = run /\ ruled' = ruled /\ (run[q].step = "restored" => Live(run[q].a)' = Live(run[q].a))
      BY <1>0, <2>l, <3>2
    <3> QED
      BY <3>1, <3>3, <3>4, <2>0
  <2> QED
    BY <2>2, <2>3 DEF LogInv
<1> QED
  BY <1>1, <1>2 DEF IInv

LEMMA GitKeeps ==
    ASSUME IInv, TypeOK', NEW a \in Approval, Git(a)
    PROVE  IInv'
<1>1. CASE GitWritesTree(a)
  <2>1. GitStep(a, "tree") /\ SameMerge(a)
    BY <1>1, GitMoves, Typed
  <2>2. /\ git[a].leader = "start" /\ main'.log = main.log
        /\ UNCHANGED <<appr, prom, run, look, mem, ruled>>
    BY <1>1 DEF GitWritesTree, IInv, TypeOK, ApprovalTypeOK
  <2> QED
    BY <2>1, <2>2, GitGoesOn DEF Running, SameMerge
<1>2. CASE GitCommits(a)
  BY <1>2, GitCommitsStep
<1>3. CASE GitClearsMergeHead(a)
  <2>1. GitStep(a, "over") /\ git'[a].landed = git[a].landed
    BY <1>3, GitMoves, Typed DEF GitClearsMergeHead
  <2>2. /\ git[a].leader = "commit" /\ main'.log = main.log
        /\ UNCHANGED <<appr, prom, run, look, mem, ruled>>
    BY <1>3 DEF GitClearsMergeHead, IInv, TypeOK, ApprovalTypeOK
  <2> QED
    BY <2>1, <2>2, GitGoesOn DEF Running
<1>4. CASE GitGivesUp(a)
  <2>1. GitStep(a, "over") /\ git'[a].landed = git[a].landed
    BY <1>4, GitMoves, Typed DEF GitGivesUp
  <2>2. /\ git[a].leader \in {"start", "tree", "commit"} /\ main'.log = main.log
        /\ UNCHANGED <<appr, prom, run, look, mem, ruled>>
    BY <1>4 DEF GitGivesUp, approvalVars
  <2> QED
    BY <2>1, <2>2, GitGoesOn DEF Running
<1>5. CASE GroupEnds(a)
  <2>1. /\ GitStep(a, git[a].leader) /\ git'[a].landed = git[a].landed
        /\ ~git'[a].group
    BY <1>5, GitMoves, Typed
  <2>2. /\ git[a].group /\ main'.log = main.log
        /\ UNCHANGED <<appr, prom, run, look, mem, ruled>>
    BY <1>5 DEF GroupEnds, approvalVars
  <2>3. git[a].leader = "over"
    BY <2>2, Typed DEF IInv, GitInv, GitOK, Running, MergeProcess
  <2> QED
    BY <2>1, <2>2, <2>3, GitGoesOn
<1> QED
  BY <1>1, <1>2, <1>3, <1>4, <1>5 DEF Git

-----------------------------------------------------------------------------
(* The steps of a re-observation, the owner's rulings and deaths.          *)

LEMMA ResolveStep ==
    ASSUME IInv, TypeOK', NEW p \in Proc, NEW a \in Approval, ResolvePromotion(p, a)
    PROVE  IInv'
<1>0. /\ UNCHANGED <<appr, main, prom, git, run, mem, ruled>>
      /\ look' = [look EXCEPT ![p] = Looked(p, a, prom[a])]
      /\ prom[a].state \in {"applying", "manual"}
  BY DEF ResolvePromotion, MayLook, approvalVars
<1>1. /\ Looked(p, a, prom[a]) \in Reobservation
      /\ Looked(p, a, prom[a]).a = a /\ Looked(p, a, prom[a]).row = prom[a]
      /\ Looked(p, a, prom[a]).seen = observeMain(a)
      /\ observeMain(a) \in Outcome \ {"none"}
      /\ Looked(p, a, prom[a]).by => a \in mem[p].declared
  BY WhatIsSeen, Typed
<1>2. /\ \A q \in Proc \ {p} : look'[q] = look[q]
      /\ look'[p].a = a /\ look'[p].row = prom[a] /\ look'[p].seen = observeMain(a)
      /\ look'[p].seen # "none" /\ (look'[p].by => a \in ruled)
  <2>1. look'[p] = Looked(p, a, prom[a]) /\ \A q \in Proc \ {p} : look'[q] = look[q]
    BY <1>0, Typed
  <2> QED
    BY <2>1, <1>1 DEF IInv, MemInv
<1>3. CallInv' /\ SoleCall' /\ GitInv' /\ RowInv' /\ OneMarker' /\ MemInv' /\ SoleLive'
  BY <1>0 DEF IInv, CallInv, EarlyOK, DrivingOK, ObservedOK, SoleCall, GitInv, GitOK, RowInv,
     RowOK, OneMarker, holdsExclusiveMarker, MemInv, SoleLive, Live, Credited, Done, Running
<1>4. LogInv'
  BY <1>0 DEF IInv, LogInv, Live, Accounted, Credited
<1>5. ASSUME prom[a].state = "manual", a \notin ruled
      PROVE  /\ Settled(a)
             /\ observeMain(a) \in {"applied", "authorized"} => Credited(a) # {}
             /\ observeMain(a) = "rolled-back" => ~git[a].landed
  <2>1. appr[a].state = "consumed"
    BY <1>5 DEF IInv, RowInv, RowOK
  <2>2. Settled(a)
    BY <1>5 DEF IInv, GitInv, GitOK, CallInv, DrivingOK, Settled, Drives
  <2> QED
    BY <1>5, <2>1, <2>2, Shown
<1>6. LookInv'
  <2> SUFFICES ASSUME NEW q \in Proc PROVE LookOK(q)'
    BY DEF LookInv
  <2>1. \A b \in Approval : Settled(b)' = Settled(b) /\ Credited(b)' = Credited(b)
    BY <1>0 DEF Settled, Credited, Running, Drives
  <2>2. CASE q = p
    BY <2>1, <2>2, <1>0, <1>2, <1>5 DEF LookOK
  <2>3. CASE q # p
    <3>1. LookOK(q) /\ (look[q].a # NONE => look[q].a \in Approval) /\ look'[q] = look[q]
      BY <2>3, <1>2, Typed DEF IInv, LookInv, Reobservation
    <3> QED
      BY <3>1, <2>1, <1>0 DEF LookOK
  <2> QED
    BY <2>2, <2>3
<1> QED
  BY <1>3, <1>4, <1>6 DEF IInv

LEMMA ResolveWritesStep ==
    ASSUME IInv, TypeOK', NEW p \in Proc, NEW a \in Approval, a = look[p].a,
           ResolveWrites(p)
    PROVE  IInv'
<1>0. LookOK(p) /\ look[p].a # NONE
  BY DEF ResolveWrites, IInv, LookInv
<1>1. /\ look[p].seen # "none" /\ look[p].row.state \in {"applying", "manual"}
      /\ look[p].by => a \in ruled
  BY <1>0 DEF LookOK
<1>2. /\ UNCHANGED <<appr, main, git, run, ruled>>
      /\ look' = [look EXCEPT ![p] = NoLook] /\ SameTold
  BY <1>1, Typed, ResolveMoves
<1>3. \A q \in Proc : look'[q] = look[q] \/ look'[q].a = NONE
  BY <1>2, Typed DEF NoLook
<1>a. CASE UNCHANGED prom
  <2>1. OnlyClosed /\ CallStep
    BY <1>2 DEF OnlyClosed, CallStep
  <2>2. Forgotten
    BY <1>2, <1>3 DEF Forgotten, SameTold
  <2> QED
    BY <1>a, <1>2, <2>1, <2>2, QuietStep
<1>b. ASSUME ~UNCHANGED prom PROVE IInv'
  <2>1. PICK s \in RowState \ {"none"}, h \in Hint \ {"reset"} :
           /\ prom[a] = look[p].row
           /\ WrittenAs(a, s, h, FALSE)
           /\ s = "applying" => MarkerFree(a)
           /\ look[p].row.state = "applying" /\ s # "applying" => look[p].by
    BY <1>1, <1>b, Typed, ResolveMoves
  <2>2. /\ \A b \in Approval \ {a} : prom'[b] = prom[b]
        /\ prom'[a].state = s /\ prom'[a].hint = h /\ ~prom'[a].byCall
        /\ prom'[a].before = prom[a].before
        /\ prom[a].state \in {"applying", "manual"}
        /\ prom[a].state = "applying" /\ s # "applying" => a \in ruled
    BY <1>1, <2>1 DEF WrittenAs, OtherRows, SameRow
  <2>l. \A b \in Approval : /\ Live(b)' => Live(b)
                            /\ Done(b)' = Done(b) /\ Running(b)' = Running(b)
                            /\ Credited(b)' = Credited(b)
                            /\ prom'[b].before = prom[b].before
                            /\ prom'[b].state = "none" <=> prom[b].state = "none"
    BY <1>2, <2>2 DEF Live, Done, Running, Credited
  <2>3. CallInv'
    <3> SUFFICES ASSUME NEW q \in Proc PROVE (EarlyOK(q) /\ DrivingOK(q) /\ ObservedOK(q))'
      BY DEF CallInv
    <3>0. /\ EarlyOK(q) /\ DrivingOK(q) /\ ObservedOK(q)
          /\ run[q].step \in Early \cup Driving => run[q].a \in Approval
      BY DEF IInv, CallInv, EarlyOK, DrivingOK
    <3>1. EarlyOK(q)'
      BY <1>2, <3>0, <2>l DEF EarlyOK
    <3>2. DrivingOK(q)'
      BY <1>2, <3>0, <2>2, <2>l DEF DrivingOK
    <3>3. ObservedOK(q)'
      BY <1>2, <3>0, <2>l DEF ObservedOK, Driving
    <3> QED
      BY <3>1, <3>2, <3>3
  <2>4. SoleCall'
    BY <1>2 DEF IInv, SoleCall
  <2>5. GitInv'
    <3> SUFFICES ASSUME NEW b \in Approval PROVE GitOK(b)'
      BY DEF GitInv
    <3>1. GitOK(b)
      BY DEF IInv, GitInv
    <3>2. CASE b # a
      BY <1>2, <3>1, <3>2, <2>2, <2>l DEF GitOK
    <3>3. CASE b = a
      BY <1>2, <3>1, <3>3, <2>2, <2>l DEF GitOK
    <3> QED
      BY <3>2, <3>3
  <2>6. RowInv'
    <3> SUFFICES ASSUME NEW b \in Approval PROVE RowOK(b)'
      BY DEF RowInv
    <3>1. RowOK(b)
      BY DEF IInv, RowInv
    <3>2. CASE b # a
      BY <1>2, <3>1, <3>2, <2>2, <2>l DEF RowOK
    <3>3. CASE b = a
      BY <1>2, <3>1, <3>3, <2>2, <2>l DEF RowOK
    <3> QED
      BY <3>2, <3>3
  <2>7. OneMarker'
    <3>1. s = "applying" => MarkerFree(a)
      BY <2>1
    <3> QED
      BY <2>2, <3>1 DEF IInv, OneMarker, holdsExclusiveMarker, MarkerFree
  <2>8. MemInv'
    BY <1>2, <2>l, Typed DEF IInv, MemInv, SameTold, FirstHand
  <2>9. LookInv'
    <3> SUFFICES ASSUME NEW q \in Proc PROVE LookOK(q)'
      BY DEF LookInv
    <3>1. LookOK(q) /\ (look[q].a # NONE => look[q].a \in Approval)
      BY Typed DEF IInv, LookInv, Reobservation
    <3>2. \A b \in Approval : Settled(b) => Settled(b)'
      BY <1>2, <2>l DEF Settled, Drives
    <3> QED
      BY <1>2, <1>3, <3>1, <3>2, <2>l DEF LookOK
  <2>10. SoleLive'
    BY <1>2, <2>l DEF IInv, SoleLive
  <2>11. LogInv'
    <3>1. \A before : \A b \in Approval : Accounted(b, before)' = Accounted(b, before)
      BY <1>2, <2>l DEF Accounted
    <3>2. ASSUME NEW b \in Approval
          PROVE  /\ Len(prom'[b].before) <= Len(main'.log)
                 /\ git'[b].landed => Len(prom'[b].before) < Len(main'.log)
                 /\ prom'[b].state # "none" /\ Live(b)' /\ b \notin ruled' =>
                       Accounted(b, prom[b].before)'
      BY <1>2, <3>1, <2>l DEF IInv, LogInv
    <3>3. ASSUME NEW q \in Proc
          PROVE  /\ Len(run'[q].before) <= Len(main'.log)
                 /\ run'[q].step = "restored" /\ Live(run[q].a)' /\ run'[q].a \notin ruled' =>
                       Accounted(run[q].a, run[q].before)'
      <4>1. run[q].step = "restored" => run[q].a \in Approval
        BY Subjects
      <4> QED
        BY <1>2, <4>1, <3>1, <2>l DEF IInv, LogInv
    <3> QED
      BY <3>2, <3>3 DEF LogInv
  <2> QED
    BY <2>3, <2>4, <2>5, <2>6, <2>7, <2>8, <2>9, <2>10, <2>11 DEF IInv
<1> QED
  BY <1>a, <1>b

\* What the owner rules widens what is allowed of the records it is about.
LEMMA RulingStep ==
    ASSUME IInv, TypeOK', ruled \subseteq ruled', MemInv', LookInv',
           \A b \in Approval :
              /\ prom'[b].state = prom[b].state /\ prom'[b].hint = prom[b].hint
              /\ prom'[b].before = prom[b].before
              /\ prom'[b].byCall => prom[b].byCall,
           UNCHANGED <<appr, main, git, run>>
    PROVE  IInv'
<1>l. \A b \in Approval : /\ Live(b)' = Live(b)
                          /\ Done(b)' = Done(b) /\ Running(b)' = Running(b)
  BY DEF Live, Done, Running
<1>c. \A b \in Approval : Credited(b) # {} => Credited(b)' # {}
  BY CreditStays
<1>1. CallInv'
  <2> SUFFICES ASSUME NEW q \in Proc PROVE (EarlyOK(q) /\ DrivingOK(q) /\ ObservedOK(q))'
    BY DEF CallInv
  <2>0. /\ EarlyOK(q) /\ DrivingOK(q) /\ ObservedOK(q)
        /\ run[q].step \in Early \cup Driving => run[q].a \in Approval
    BY DEF IInv, CallInv, EarlyOK, DrivingOK
  <2>1. EarlyOK(q)'
    BY <2>0 DEF EarlyOK
  <2>2. DrivingOK(q)'
    BY <2>0 DEF DrivingOK
  <2>3. ObservedOK(q)'
    BY <2>0, <1>l, <1>c DEF ObservedOK, Driving
  <2> QED
    BY <2>1, <2>2, <2>3
<1>2. SoleCall'
  BY DEF IInv, SoleCall
<1>3. GitInv'
  BY <1>l DEF IInv, GitInv, GitOK
<1>4. RowInv'
  BY <1>l DEF IInv, RowInv, RowOK
<1>5. OneMarker'
  BY DEF IInv, OneMarker, holdsExclusiveMarker
<1>6. SoleLive'
  BY <1>l DEF IInv, SoleLive
<1>7. LogInv'
  <2>1. \A before : \A b \in Approval : Accounted(b, before) => Accounted(b, before)'
    BY <1>c DEF Accounted
  <2>2. ASSUME NEW b \in Approval
        PROVE  /\ Len(prom'[b].before) <= Len(main'.log)
               /\ git'[b].landed => Len(prom'[b].before) < Len(main'.log)
               /\ prom'[b].state # "none" /\ Live(b)' /\ b \notin ruled' =>
                     Accounted(b, prom[b].before)'
    BY <2>1, <1>l DEF IInv, LogInv
  <2>3. ASSUME NEW q \in Proc
        PROVE  /\ Len(run'[q].before) <= Len(main'.log)
               /\ run'[q].step = "restored" /\ Live(run[q].a)' /\ run'[q].a \notin ruled' =>
                     Accounted(run[q].a, run[q].before)'
    <3>1. run[q].step = "restored" => run[q].a \in Approval
      BY Subjects
    <3> QED
      BY <3>1, <2>1, <1>l DEF IInv, LogInv
  <2> QED
    BY <2>2, <2>3 DEF LogInv
<1> QED
  BY <1>1, <1>2, <1>3, <1>4, <1>5, <1>6, <1>7 DEF IInv

\* A re-observation that was under way stays what it is.
LEMMA LookStays ==
    ASSUME IInv, ruled \subseteq ruled', NEW q \in Proc, look'[q] = look[q],
           \A b \in Approval : prom'[b].state = prom[b].state,
           UNCHANGED <<appr, git, run>>
    PROVE  LookOK(q)'
<1>1. LookOK(q) /\ (look[q].a # NONE => look[q].a \in Approval)
  BY Typed DEF IInv, LookInv, Reobservation
<1>2. \A b \in Approval : Settled(b)' = Settled(b)
  BY DEF Settled, Drives, Running
<1>3. \A b \in Approval : Credited(b) # {} => Credited(b)' # {}
  BY CreditStays
<1> QED
  BY <1>1, <1>2, <1>3 DEF LookOK

LEMMA RewriteStep ==
    ASSUME IInv, TypeOK', NEW p \in Proc, NEW a \in Approval, Rewritten(p, a),
           \/ recordOwnerDeclaration(p, a)
           \/ mem' = Forget(a) /\ UNCHANGED ruled /\ prom[a].state = "applying"
    PROVE  IInv'
<1>1. /\ OtherRows(a) /\ SameRow(a)
      /\ prom'[a].state = prom[a].state /\ prom'[a].hint = prom[a].hint
      /\ ~prom'[a].byCall
      /\ UNCHANGED <<appr, main, git, run>>
      /\ \/ UNCHANGED look
         \/ MayLook(a)' /\ look' = [look EXCEPT ![p] = Looked(p, a, prom[a])']
  BY Typed, RewriteMoves DEF approvalVars
<1>2. \A b \in Approval :
         /\ prom'[b].state = prom[b].state /\ prom'[b].hint = prom[b].hint
         /\ prom'[b].before = prom[b].before
         /\ prom'[b].byCall => prom[b].byCall
  BY <1>1 DEF OtherRows, SameRow
<1>3. /\ ruled \subseteq ruled'
      /\ a \in ruled' \/ prom'[a].state = "applying"
      /\ \A q \in Proc : /\ mem'[q].declared \subseteq ruled'
                         /\ mem'[q].concluded = mem[q].concluded
  <2>0. \A q \in Proc : mem[q].declared \subseteq ruled
    BY DEF IInv, MemInv
  <2>1. CASE recordOwnerDeclaration(p, a)
    <3>1. ruled' = ruled \cup {a}
      BY <2>1 DEF recordOwnerDeclaration
    <3>2. \A q \in Proc : /\ mem'[q].declared \subseteq mem[q].declared \cup {a}
                          /\ mem'[q].concluded = mem[q].concluded
      BY <2>1, Typed, DeclarationMoves
    <3> QED
      BY <3>1, <3>2, <2>0
  <2>2. CASE mem' = Forget(a) /\ UNCHANGED ruled /\ prom[a].state = "applying"
    <3>1. SameTold
      BY <2>2, Typed, AttestMoves
    <3> QED
      BY <2>2, <3>1, <2>0, <1>1 DEF SameTold
  <2> QED
    BY <2>1, <2>2
<1>4. MemInv'
  BY <1>1, <1>3, Typed DEF IInv, MemInv, FirstHand, Done
<1>5. LookInv'
  <2> SUFFICES ASSUME NEW q \in Proc PROVE LookOK(q)'
    BY DEF LookInv
  <2>1. CASE look'[q] = look[q]
    BY <2>1, <1>1, <1>2, <1>3, LookStays
  <2>2. CASE look'[q] = Looked(p, a, prom[a])' /\ MayLook(a)' /\ q = p
    <3>1. /\ look'[q].a = a /\ look'[q].row = prom'[a]
          /\ look'[q].seen = observeMain(a)'
          /\ look'[q].by => a \in mem'[p].declared
      <4> DEFINE v == Looked(p, a, prom[a])'
      <4>1. /\ v.a = a /\ v.row = prom'[a] /\ v.seen = observeMain(a)'
            /\ v.by => a \in mem'[p].declared
        BY DEF Looked
      <4> QED
        BY <2>2, <4>1
    <3>2. observeMain(a)' # "none"
      BY DEF observeMain
    <3>3. prom'[a].state \in {"applying", "manual"}
      BY <2>2 DEF MayLook
    <3> QED
      BY <3>1, <3>2, <3>3, <1>3, <2>2 DEF LookOK
  <2> QED
    BY <2>1, <2>2, <1>1, Typed
<1> QED
  BY <1>1, <1>2, <1>3, <1>4, <1>5, RulingStep

LEMMA AcknowledgeStep ==
    ASSUME IInv, TypeOK', NEW p \in Proc, AcknowledgeUnattestedPromotions(p)
    PROVE  IInv'
<1>1. UNCHANGED <<appr, main, prom, git, run, look>>
  BY DEF AcknowledgeUnattestedPromotions, approvalVars
<1>2. /\ ruled \subseteq ruled'
      /\ \A q \in Proc : /\ mem'[q].declared \subseteq mem[q].declared \cup ruled'
                         /\ mem'[q].concluded = mem[q].concluded
  <2>1. ruled \subseteq Approval
    BY DEF IInv, TypeOK
  <2> QED
    BY <2>1, Typed, AcknowledgeMoves
<1>3. MemInv'
  BY <1>1, <1>2, Typed DEF IInv, MemInv, FirstHand, Done
<1>4. LookInv'
  BY <1>1, <1>2, LookStays DEF LookInv
<1> QED
  BY <1>1, <1>2, <1>3, <1>4, RulingStep

LEMMA DieStep ==
    ASSUME IInv, TypeOK', NEW p \in Proc, Die(p)
    PROVE  IInv'
<1>1. /\ UNCHANGED <<appr, main, prom, git, ruled>>
      /\ run' = [run EXCEPT ![p] = NoRun]
      /\ look' = [look EXCEPT ![p] = NoLook]
      /\ mem' = [mem EXCEPT ![p] = NoMem]
  BY DEF Die, approvalVars
<1>2. OnlyClosed
  BY <1>1 DEF OnlyClosed
<1>3. CallStep
  BY <1>1, Typed DEF CallStep, Others
<1>4. Forgotten
  <2>1. /\ \A q \in Proc \ {p} : look'[q] = look[q] /\ mem'[q] = mem[q]
        /\ look'[p] = NoLook /\ mem'[p] = NoMem
    BY <1>1, Typed
  <2> QED
    BY <2>1 DEF Forgotten, NoLook, NoMem
<1> QED
  BY <1>1, <1>2, <1>3, <1>4, QuietStep

LEMMA RecordKeeps ==
    ASSUME IInv, TypeOK', NEW p \in Proc, Record(p)
    PROVE  IInv'
<1>1. CASE ResolveWrites(p)
  <2>1. look[p].a \in Approval
    BY <1>1, Typed DEF ResolveWrites, Reobservation
  <2> QED
    BY <1>1, <2>1, ResolveWritesStep
<1>2. ASSUME NEW a \in Approval, ResolvePromotion(p, a) PROVE IInv'
  BY <1>2, ResolveStep
<1>3. ASSUME NEW a \in Approval,
             AbandonMergeProcessGroup(p, a) \/ AbandonPromotionEntirely(p, a)
      PROVE  IInv'
  <2>1. Rewritten(p, a) /\ recordOwnerDeclaration(p, a)
    BY <1>3 DEF AbandonMergeProcessGroup, AbandonPromotionEntirely, Rewritten
  <2> QED
    BY <2>1, RewriteStep
<1>4. ASSUME NEW a \in Approval, AbandonPromotionOwnerProcess(p, a) PROVE IInv'
  <2>1. Rewritten(p, a) /\ mem' = Forget(a) /\ UNCHANGED ruled /\ prom[a].state = "applying"
    BY <1>4 DEF AbandonPromotionOwnerProcess, Rewritten, holdsExclusiveMarker
  <2> QED
    BY <2>1, RewriteStep
<1>5. CASE AcknowledgeUnattestedPromotions(p)
  BY <1>5, AcknowledgeStep
<1> QED
  BY <1>1, <1>2, <1>3, <1>4, <1>5 DEF Record

-----------------------------------------------------------------------------
(* The steps of the question.                                              *)

\* A gate that passes leaves no live question of the task.
LEMMA Unresolved ==
    ASSUME IInv, NEW p \in Proc, NEW t, assertNoUnresolvedPromotion(p, t),
           openMergeApproval(t) = {}
    PROVE  \A a \in Approval : appr[a].task = t => ~Live(a)
  BY DEF assertNoUnresolvedPromotion, openMergeApproval, Live, IInv, RowInv, RowOK

LEMMA AskedStep ==
    ASSUME IInv, TypeOK', NEW p \in Proc, NEW b \in Approval, NEW t \in Task,
           Asked(b, t), assertNoUnresolvedPromotion(p, t),
           UNCHANGED <<status, main, promotionVars>>
    PROVE  IInv'
<1>1. /\ appr[b].state = "none" /\ openMergeApproval(t) = {}
      /\ \A a \in Approval \ {b} : appr'[a] = appr[a]
      /\ appr'[b].task = t /\ appr'[b].state = "requested"
  BY Typed DEF Asked, ApprovalRow
<1>2. \A a \in Approval : appr[a].task = t => ~Live(a)
  BY <1>1, Unresolved
<1> QED
  BY <1>1, <1>2, QuestionStep DEF promotionVars, OpenState

LEMMA AskingKeeps ==
    ASSUME IInv, TypeOK', NEW p \in Proc, Asking(p)
    PROVE  IInv'
<1>f. UNCHANGED <<look, mem>> => Forgotten
  BY DEF Forgotten
<1>1. ASSUME NEW a \in Approval, NEW t \in Task, RequestMainMerge(p, a, t) PROVE IInv'
  <2>1. assertNoUnresolvedPromotion(p, t)
    BY <1>1 DEF RequestMainMerge, requestMainMerge
  <2> QED
    BY <1>1, <2>1, Questions, AskedStep
<1>2. ASSUME NEW a \in Approval, NEW b \in Approval, RetryMainMergeApproval(p, a, b)
      PROVE  IInv'
  <2>1. assertNoUnresolvedPromotion(p, appr[a].task)
    BY <1>2 DEF RetryMainMergeApproval, retryMainMergeApproval, requestMainMerge
  <2>2. /\ Asked(b, appr[a].task) /\ appr[a].task \in Task
        /\ UNCHANGED <<status, main, promotionVars>>
    BY <1>2, Questions DEF IInv, RowInv, RowOK
  <2> QED
    BY <2>1, <2>2, AskedStep
<1>3. ASSUME NEW a \in Approval,
             RejectMainMerge(a) \/ ExpireMergeApproval(a)
             \/ ObserveMergeApproval(a) \/ ListMergeHistory(p, a)
      PROVE  IInv'
  <2>1. Closed(a) /\ UNCHANGED <<status, main, promotionVars>>
    BY <1>3, Questions
  <2>2. OnlyClosed
    BY <2>1, ClosedMoves, Typed
  <2>3. CallStep
    BY <2>1 DEF CallStep, promotionVars
  <2> QED
    BY <1>f, <2>1, <2>2, <2>3, QuietStep DEF promotionVars
<1>4. ASSUME NEW a \in Approval, ApproveAndPromote(p, a) PROVE IInv'
  <2>1. /\ Becomes(a, {"requested"}, "approved")
        /\ UNCHANGED <<main, prom, git, look, mem, ruled>>
        /\ run[p].step = "idle"
    BY <1>4, Questions DEF ApproveAndPromote, At
  <2>2. /\ \A b \in Approval \ {a} : appr'[b] = appr[b]
        /\ appr'[a].task = appr[a].task /\ appr'[a].state = "approved"
        /\ appr[a].state = "requested"
    BY <2>1, Typed DEF Becomes, ApprovalRow
  <2>3. appr[a].task \in Task
    BY <2>2 DEF IInv, RowInv, RowOK
  <2>4. /\ Others(p) /\ run'[p].step = "approved" /\ run'[p].a = a
        /\ run'[p].before = <<>> /\ ~run'[p].spawned
    BY <1>4, ApproveMoves, Typed
  <2> QED
    BY <2>1, <2>2, <2>3, <2>4, QuestionStep DEF OpenState
<1> QED
  BY <1>1, <1>2, <1>3, <1>4 DEF Asking

-----------------------------------------------------------------------------
(* The invariant.                                                          *)

LEMMA Starts == Init => IInv
<1> SUFFICES ASSUME Init PROVE IInv
  OBVIOUS
<1>1. /\ \A a \in Approval : /\ prom[a] = NoPromotion /\ git[a] = NoGit
                             /\ appr[a] = NoApproval
      /\ \A p \in Proc : run[p] = NoRun /\ look[p] = NoLook /\ mem[p] = NoMem
      /\ main.log = <<>>
  BY DEF Init, ApprovalInit
<1>2. /\ \A a \in Approval : /\ prom[a].state = "none" /\ prom[a].before = <<>>
                             /\ prom[a].hint = "none"
                             /\ git[a].leader = "none" /\ ~git[a].group /\ ~git[a].landed
                             /\ appr[a].state = "none"
      /\ \A p \in Proc : /\ run[p].step = "idle" /\ run[p].before = <<>>
                         /\ look[p].a = NONE
                         /\ mem[p].declared = {} /\ mem[p].concluded = {}
  BY <1>1 DEF NoPromotion, NoGit, NoApproval, NoRun, NoLook, NoMem
<1>3. TypeOK
  BY TypeInit
<1>4. CallInv /\ SoleCall
  BY <1>2 DEF CallInv, EarlyOK, DrivingOK, ObservedOK, Early, Driving, SoleCall
<1>5. GitInv /\ RowInv /\ OneMarker
  BY <1>2 DEF GitInv, GitOK, RowInv, RowOK, OneMarker, holdsExclusiveMarker, Running
<1>6. MemInv /\ LookInv /\ SoleLive
  BY <1>2 DEF MemInv, LookInv, LookOK, SoleLive, Live, OpenState
<1>7. LogInv
  BY <1>1, <1>2 DEF LogInv, Accounted, Live, OpenState
<1> QED
  BY <1>3, <1>4, <1>5, <1>6, <1>7 DEF IInv

LEMMA Stays == IInv /\ [Next]_vars => IInv'
<1> SUFFICES ASSUME IInv, [Next]_vars PROVE IInv'
  OBVIOUS
<1>0. TypeOK'
  BY TypeStep
<1>1. ASSUME NEW p \in Proc, Call(p) PROVE IInv'
  BY <1>0, <1>1, CallKeeps
<1>2. ASSUME NEW p \in Proc, Asking(p) PROVE IInv'
  BY <1>0, <1>2, AskingKeeps
<1>3. ASSUME NEW p \in Proc, Record(p) PROVE IInv'
  BY <1>0, <1>3, RecordKeeps
<1>4. ASSUME NEW p \in Proc, Die(p) PROVE IInv'
  BY <1>0, <1>4, DieStep
<1>5. ASSUME NEW a \in Approval, Git(a) PROVE IInv'
  BY <1>0, <1>5, GitKeeps
<1>6. CASE OwnerWorks
  BY <1>0, <1>6, OwnerCommitsStep
<1>7. CASE OwnerClearsMerge \/ UNCHANGED vars
  <2>1. main'.log = main.log /\ UNCHANGED <<appr, prom, git, run, look, mem, ruled>>
    BY <1>7 DEF OwnerClearsMerge, vars, approvalVars, promotionVars, IInv, TypeOK,
       ApprovalTypeOK
  <2>2. OnlyClosed /\ CallStep /\ Forgotten
    BY <2>1 DEF OnlyClosed, CallStep, Forgotten
  <2> QED
    BY <1>0, <2>1, <2>2, QuietStep
<1> QED
  BY <1>1, <1>2, <1>3, <1>4, <1>5, <1>6, <1>7 DEF Next

THEOREM Invariant == Spec => []IInv
  BY Starts, Stays, PTL DEF Spec

-----------------------------------------------------------------------------
(* What the runs check.                                                    *)

\* Every variable keeps to the records the code writes.
THEOREM TypeCorrect == Spec => []TypeOK
<1>1. IInv => TypeOK
  BY DEF IInv
<1> QED
  BY <1>1, Invariant, PTL

\* Two merges run in the project at the same time only after the owner ended the
\* wait for one of them: a running merge that nobody ruled on holds the marker.
THEOREM SoleMergeHolds == Spec => []SoleMerge
<1>1. IInv => SoleMerge
  BY DEF IInv, GitInv, GitOK, OneMarker, holdsExclusiveMarker, SoleMerge
<1> QED
  BY <1>1, Invariant, PTL

\* A reset is offered only for a merge whose leader and group are gone.
THEOREM ResetOverNobodyHolds == Spec => []ResetOverNobody
<1>1. IInv => ResetOverNobody
  BY DEF IInv, RowInv, RowOK, Done, Running, ResetOverNobody
<1> QED
  BY <1>1, Invariant, PTL

-----------------------------------------------------------------------------
(* What a step does to the question, the record and the merge of one       *)
(* approval, as the owner sees them.                                       *)

QuestionMove(a) ==
    /\ \/ \E t \in Task : Asked(a, t)
       \/ Becomes(a, {"requested"}, "approved") \/ Closed(a)
       \/ Becomes(a, {"approved"}, "consumed")
    /\ UNCHANGED <<prom, git, ruled>>

\* A record begins, or one that has not ended is written again.
RecordMove(a) ==
    /\ OtherRows(a)
    /\ UNCHANGED <<appr, git, ruled>>
    /\ \/ prom[a].state = "none" /\ prom'[a].state = "applying"
       \/ /\ prom[a].state \in {"applying", "manual"}
          /\ prom'[a].state \in RowState \ {"none"}
          /\ prom[a].state = "applying" /\ prom'[a].state # "applying" =>
                \/ a \in ruled
                \/ Done(a) \/ git[a].leader = "none"
                \/ Credited(a) # {} /\ prom'[a].state = "manual"
          /\ prom'[a].state = "applied" => a \in ruled \/ Credited(a) # {}
          /\ prom'[a].state = "rolled-back" => a \in ruled \/ ~git[a].landed

SilentMove ==
    /\ UNCHANGED appr
    /\ \A b \in Approval : /\ prom'[b].state = prom[b].state
                           /\ git'[b].landed = git[b].landed
    /\ ruled \subseteq ruled' /\ ruled' \subseteq Approval

LEMMA ConsumeLostMove ==
    ASSUME IInv, NEW p \in Proc, ConsumeLost(p)
    PROVE  SilentMove \/ RecordMove(run[p].a)
<1> PICK a : a = run[p].a
  OBVIOUS
<1>0. /\ run[p].step = "intent"
      /\ UNCHANGED <<appr, git, ruled>>
      /\ IF prom[a].byCall THEN writePromotion(a, "rolled-back", "none", TRUE)
         ELSE UNCHANGED prom
  BY DEF ConsumeLost, At, approvalVars
<1>1. DrivingOK(p) /\ GitOK(a) /\ a \in Approval
  BY <1>0, Driver DEF Driving
<1>2. ruled \subseteq Approval
  BY Typed DEF TypeOK
<1>3. CASE ~prom[a].byCall
  BY <1>0, <1>2, <1>3 DEF SilentMove
<1>4. CASE prom[a].byCall
  <2>1. OtherRows(a) /\ prom'[a].state = "rolled-back"
    BY <1>0, <1>1, <1>4, Typed, WriteMoves DEF RowState, Hint
  <2>2. prom[a].state = "applying" /\ git[a].leader = "none" /\ ~git[a].landed
    BY <1>0, <1>1, <1>4 DEF DrivingOK, GitOK, Driving
  <2> QED
    BY <1>0, <2>1, <2>2 DEF RecordMove, RowState
<1> QED
  BY <1>3, <1>4

LEMMA SettleMove ==
    ASSUME IInv, NEW p \in Proc, SettlePromotion(p)
    PROVE  SilentMove \/ RecordMove(run[p].a)
<1> PICK a : a = run[p].a
  OBVIOUS
<1>0. /\ run[p].step = "observed"
      /\ UNCHANGED <<appr, git, ruled>>
      /\ ~prom[a].byCall => UNCHANGED prom
  BY DEF SettlePromotion, At
<1>1. DrivingOK(p) /\ ObservedOK(p) /\ GitOK(a) /\ a \in Approval
  BY <1>0, Driver DEF Driving
<1>2. ruled \subseteq Approval
  BY Typed DEF TypeOK
<1>3. CASE ~prom[a].byCall
  BY <1>0, <1>2, <1>3 DEF SilentMove
<1>4. CASE prom[a].byCall
  <2>0. /\ prom[a].state = "applying"
        /\ run[p].spawned => git[a].leader = "over"
        /\ ~run[p].spawned => git[a].leader = "none"
    BY <1>0, <1>1, <1>4 DEF DrivingOK, Driving
  <2>1. PICK s \in RowState \ {"none"}, h \in Hint :
           /\ WrittenAs(a, s, h, s = "applying")
           /\ s = "applied" => run[p].seen = "applied" /\ ~run[p].group
           /\ s = "rolled-back" => run[p].seen = "rolled-back" /\ (run[p].over \/ ~run[p].spawned)
           /\ s = "manual" => \/ run[p].seen = "authorized"
                              \/ run[p].seen = "manual" /\ run[p].over
    BY <1>0, <1>1, <1>4, Typed, SettleMoves DEF ObservedOK
  <2>2. OtherRows(a) /\ prom'[a].state = s
    BY <2>1 DEF WrittenAs
  <2>3. /\ run[p].seen \in {"applied", "authorized"} => a \in ruled \/ Credited(a) # {}
        /\ run[p].over => a \in ruled \/ Done(a)
        /\ ~run[p].group => ~git[a].group
        /\ run[p].seen = "rolled-back" => ~git[a].landed
    BY <1>0, <1>1 DEF ObservedOK
  <2>4. s # "applying" =>
           \/ a \in ruled
           \/ Done(a) \/ git[a].leader = "none"
           \/ Credited(a) # {} /\ s = "manual"
    BY <2>0, <2>1, <2>3 DEF Done, RowState
  <2>5. /\ s = "applied" => a \in ruled \/ Credited(a) # {}
        /\ s = "rolled-back" => a \in ruled \/ ~git[a].landed
    BY <2>1, <2>3
  <2> QED
    BY <1>0, <2>0, <2>1, <2>2, <2>4, <2>5 DEF RecordMove
<1> QED
  BY <1>3, <1>4

LEMMA ResolveMove ==
    ASSUME IInv, NEW p \in Proc, ResolveWrites(p)
    PROVE  SilentMove \/ RecordMove(look[p].a)
<1> PICK a : a = look[p].a
  OBVIOUS
<1>0. LookOK(p) /\ look[p].a # NONE
  BY DEF ResolveWrites, IInv, LookInv
<1>1. /\ look[p].seen # "none" /\ look[p].row.state \in {"applying", "manual"}
      /\ look[p].by => a \in ruled
  BY <1>0 DEF LookOK
<1>2. a \in Approval /\ UNCHANGED <<appr, git, ruled>>
  BY <1>1, Typed, ResolveMoves
<1>3. ruled \subseteq Approval
  BY Typed DEF TypeOK
<1>4. CASE UNCHANGED prom
  BY <1>2, <1>3, <1>4 DEF SilentMove
<1>5. CASE ~UNCHANGED prom
  <2>1. PICK s \in RowState \ {"none"}, h \in Hint \ {"reset"} :
           /\ prom[a] = look[p].row
           /\ WrittenAs(a, s, h, FALSE)
           /\ s = "applied" => look[p].seen = "applied"
           /\ s = "rolled-back" => look[p].seen = "rolled-back"
           /\ look[p].row.state = "applying" /\ s # "applying" => look[p].by
    BY <1>1, <1>5, Typed, ResolveMoves
  <2>2. OtherRows(a) /\ prom'[a].state = s
    BY <2>1 DEF WrittenAs
  <2>3. prom[a].state = "applying" /\ s # "applying" => a \in ruled
    BY <1>1, <2>1
  <2>4. prom[a].state = "manual" /\ a \notin ruled =>
           /\ look[p].seen = "applied" => Credited(a) # {}
           /\ look[p].seen = "rolled-back" => ~git[a].landed
    BY <1>0, <2>1 DEF LookOK
  <2>5. prom[a].state \in {"applying", "manual"}
    BY <1>1, <2>1
  <2> QED
    BY <1>2, <2>1, <2>2, <2>3, <2>4, <2>5 DEF RecordMove
<1> QED
  BY <1>4, <1>5

LEMMA StepMoves ==
    ASSUME IInv, [Next]_vars
    PROVE  \/ SilentMove
           \/ \E a \in Approval : QuestionMove(a) \/ RecordMove(a) \/ GitCommits(a)
<1> DEFINE Moved == \/ SilentMove
                    \/ \E a \in Approval : QuestionMove(a) \/ RecordMove(a) \/ GitCommits(a)
<1> SUFFICES Moved
  OBVIOUS
<1>0. ruled \subseteq Approval /\ (UNCHANGED <<appr, prom, git, ruled>> => SilentMove)
  BY Typed DEF TypeOK, SilentMove
<1>s. ASSUME NEW p \in Proc, run[p].step # "idle" PROVE run[p].a \in Approval
  BY <1>s, Subjects
<1>1. ASSUME NEW p \in Proc, Call(p) PROVE Moved
  <2>1. CASE RefusePromotion(p) \/ VerifyMergeBinding(p) \/ ConsumeApproval(p)
    <3>1. /\ run[p].a \in Approval
          /\ \/ UNCHANGED appr \/ Closed(run[p].a)
             \/ Becomes(run[p].a, {"approved"}, "consumed")
          /\ UNCHANGED <<prom, git, ruled>>
      BY <2>1, <1>s, Calls DEF Early
    <3> QED
      BY <3>1, <1>0 DEF QuestionMove
  <2>2. CASE \/ PassGates(p) \/ RestorePoint(p) \/ MergeNotStarted(p) \/ MergeClosed(p)
             \/ ObservePromotion(p)
    BY <2>2, <1>0 DEF PassGates, RestorePoint, MergeNotStarted, MergeClosed,
       ObservePromotion, approvalVars
  <2>3. CASE InsertPromotion(p)
    <3>1. run[p].a \in Approval /\ prom[run[p].a].state = "none"
          /\ UNCHANGED <<appr, git, ruled>>
      BY <2>3, <1>s DEF InsertPromotion, At, approvalVars
    <3>2. OtherRows(run[p].a) /\ prom'[run[p].a].state = "applying"
      BY <2>3, <3>1, Typed, InsertMoves
    <3> QED
      BY <3>1, <3>2 DEF RecordMove
  <2>4. CASE ConsumeLost(p)
    BY <2>4, <1>s, ConsumeLostMove DEF ConsumeLost, At
  <2>5. CASE MergeIntoHead(p)
    <3>1. run[p].a \in Approval /\ UNCHANGED <<appr, ruled>>
      BY <2>5, <1>s DEF MergeIntoHead, At, approvalVars
    <3>2. /\ OtherRows(run[p].a) /\ prom'[run[p].a].state = prom[run[p].a].state
          /\ OtherMerges(run[p].a) /\ SameMerge(run[p].a)
      BY <2>5, <3>1, Typed, MergeIntoHeadMoves
    <3> QED
      BY <3>1, <3>2, <1>0 DEF SilentMove, OtherRows, OtherMerges, SameMerge
  <2>6. CASE SettlePromotion(p)
    BY <2>6, <1>s, SettleMove DEF SettlePromotion, At
  <2> QED
    BY <1>1, <2>1, <2>2, <2>3, <2>4, <2>5, <2>6 DEF Call
<1>2. ASSUME NEW p \in Proc, Asking(p) PROVE Moved
  <2>1. ASSUME NEW a \in Approval, NEW t \in Task, RequestMainMerge(p, a, t) PROVE Moved
    BY <2>1, Questions DEF promotionVars, QuestionMove
  <2>2. ASSUME NEW a \in Approval, NEW b \in Approval, RetryMainMergeApproval(p, a, b)
        PROVE  Moved
    <3>1. /\ Asked(b, appr[a].task) /\ appr[a].task \in Task
          /\ UNCHANGED <<status, main, promotionVars>>
      BY <2>2, Questions DEF IInv, RowInv, RowOK
    <3> QED
      BY <3>1 DEF promotionVars, QuestionMove
  <2>3. ASSUME NEW a \in Approval,
               RejectMainMerge(a) \/ ExpireMergeApproval(a)
               \/ ObserveMergeApproval(a) \/ ListMergeHistory(p, a)
        PROVE  Moved
    BY <2>3, Questions DEF promotionVars, QuestionMove
  <2>4. ASSUME NEW a \in Approval, ApproveAndPromote(p, a) PROVE Moved
    BY <2>4, Questions DEF QuestionMove
  <2> QED
    BY <1>2, <2>1, <2>2, <2>3, <2>4 DEF Asking
<1>3. ASSUME NEW p \in Proc, Record(p) PROVE Moved
  <2>1. CASE ResolveWrites(p)
    <3>1. look[p].a \in Approval
      BY <2>1, Typed DEF ResolveWrites, Reobservation
    <3> QED
      BY <2>1, <3>1, ResolveMove
  <2>2. ASSUME NEW a \in Approval, ResolvePromotion(p, a) PROVE Moved
    BY <2>2, <1>0 DEF ResolvePromotion, approvalVars
  <2>3. ASSUME NEW a \in Approval,
               \/ AbandonMergeProcessGroup(p, a) \/ AbandonPromotionEntirely(p, a)
               \/ AbandonPromotionOwnerProcess(p, a)
        PROVE  Moved
    <3>1. Rewritten(p, a) /\ ruled' \in {ruled, ruled \cup {a}}
      BY <2>3 DEF AbandonMergeProcessGroup, AbandonPromotionEntirely,
         AbandonPromotionOwnerProcess, Rewritten, recordOwnerDeclaration
    <3>2. /\ OtherRows(a) /\ prom'[a].state = prom[a].state
          /\ UNCHANGED <<appr, git>>
      BY <3>1, Typed, RewriteMoves DEF approvalVars
    <3> QED
      BY <3>1, <3>2, <1>0 DEF SilentMove, OtherRows
  <2>4. CASE AcknowledgeUnattestedPromotions(p)
    BY <2>4, <1>0 DEF AcknowledgeUnattestedPromotions, approvalVars, SilentMove
  <2> QED
    BY <1>3, <2>1, <2>2, <2>3, <2>4 DEF Record
<1>4. ASSUME NEW p \in Proc, Die(p) PROVE Moved
  BY <1>4, <1>0 DEF Die, approvalVars
<1>5. ASSUME NEW a \in Approval, Git(a) PROVE Moved
  <2>1. CASE GitCommits(a)
    BY <2>1
  <2>2. ASSUME ~GitCommits(a) PROVE SilentMove
    <3>1. \/ git'[a].landed = git[a].landed /\ OtherMerges(a)
      BY <1>5, <2>2, Typed, GitMoves DEF Git, GitStep, SameMerge, GitClearsMergeHead, GitGivesUp
    <3>2. UNCHANGED <<appr, prom, ruled>>
      BY <1>5, <2>2 DEF Git, GitWritesTree, GitClearsMergeHead, GitGivesUp, GroupEnds,
         approvalVars
    <3> QED
      BY <3>1, <3>2, <1>0 DEF SilentMove, OtherMerges
  <2> QED
    BY <2>1, <2>2
<1>6. CASE OwnerWorks \/ OwnerClearsMerge \/ UNCHANGED vars
  BY <1>6, <1>0 DEF OwnerWorks, OwnerCommits, OwnerClearsMerge, vars, approvalVars,
     promotionVars
<1> QED
  BY <1>1, <1>2, <1>3, <1>4, <1>5, <1>6 DEF Next

\* The marker leaves a record when its merge is over, when the owner has ended the
\* wait for it, or to hand the owner a record whose merge main already shows.
THEOREM MarkerHeldHolds == Spec => MarkerHeld
<1>1. IInv /\ [Next]_vars =>
         [\A a \in Approval :
             (holdsExclusiveMarker(a) /\ ~holdsExclusiveMarker(a)') =>
                 \/ a \in ruled'
                 \/ ~Running(a) /\ ~git[a].group
                 \/ Credited(a) # {} /\ prom'[a].state = "manual"]_vars
  <2> SUFFICES ASSUME IInv, [Next]_vars, NEW a \in Approval,
                      prom[a].state = "applying", prom'[a].state # "applying"
               PROVE  \/ a \in ruled'
                      \/ ~Running(a) /\ ~git[a].group
                      \/ Credited(a) # {} /\ prom'[a].state = "manual"
    BY DEF holdsExclusiveMarker
  <2>1. ~SilentMove /\ \A b \in Approval : ~QuestionMove(b) /\ ~GitCommits(b)
    BY DEF SilentMove, QuestionMove, GitCommits
  <2>2. PICK b \in Approval : RecordMove(b)
    BY <2>1, StepMoves
  <2>3. a = b
    BY <2>2 DEF RecordMove, OtherRows
  <2>4. git[a].leader = "none" => ~git[a].group
    BY DEF IInv, GitInv, GitOK
  <2> QED
    BY <2>2, <2>3, <2>4 DEF RecordMove, Done, Running
<1> QED
  BY <1>1, Invariant, PTL DEF Spec, MarkerHeld

-----------------------------------------------------------------------------
(* What is marked as merged is in main.                                    *)

InMain(t) == \E i \in DOMAIN main.log : main.log[i] = t

\* An observation that shows a merge was of a main that has it, and a record
\* that was looked at is one.
MergedInv ==
    /\ MergedIsInMain
    /\ \A p \in Proc :
          run[p].step = "observed" /\ run[p].seen = "applied" =>
              InMain(appr[run[p].a].task)
    /\ \A p \in Proc :
          look[p].a # NONE =>
              /\ prom[look[p].a].state # "none"
              /\ look[p].seen = "applied" => InMain(appr[look[p].a].task)

\* What main shows as applied is in it.
LEMMA LastIsIn ==
    ASSUME NEW S, NEW s \in Seq(S), NEW x
    PROVE  \E i \in DOMAIN Append(s, x) : Append(s, x)[i] = x
<1>1. Len(s) + 1 \in DOMAIN Append(s, x) /\ Append(s, x)[Len(s) + 1] = x
  OBVIOUS
<1> QED
  BY <1>1

LEMMA AppliedIsInMain ==
    ASSUME TypeOK, NEW a \in Approval, observeMain(a) = "applied"
    PROVE  InMain(appr[a].task)
<1>1. main.log = Append(prom[a].before, appr[a].task)
  BY DEF observeMain
<1>2. prom[a].before \in Seq(Task \cup {Own})
  BY DEF TypeOK, PromotionRow, Log
<1> QED
  BY <1>1, <1>2, LastIsIn DEF InMain

\* The same of the state after a step.
LEMMA AppliedIsInMainNext ==
    ASSUME TypeOK', NEW a \in Approval, observeMain(a)' = "applied"
    PROVE  InMain(appr[a].task)'
<1>1. main'.log = Append(prom'[a].before, appr'[a].task)
  BY DEF observeMain
<1>2. prom'[a].before \in Seq(Task \cup {Own})
  BY DEF TypeOK, PromotionRow, Log
<1> QED
  BY <1>1, <1>2, LastIsIn DEF InMain

\* A question that was asked stays about its task, and a record stays a record.
LEMMA RecordsStay ==
    ASSUME IInv, [Next]_vars, NEW a \in Approval, prom[a].state # "none"
    PROVE  prom'[a].state # "none" /\ appr'[a].task = appr[a].task
<1>0. appr[a].state # "none" /\ appr \in [Approval -> ApprovalRow]
  BY Typed DEF IInv, RowInv, RowOK
<1>1. CASE SilentMove
  BY <1>1 DEF SilentMove
<1>2. ASSUME NEW b \in Approval, QuestionMove(b)
      PROVE  prom'[a].state # "none" /\ appr'[a].task = appr[a].task
  <2>1. prom' = prom
    BY <1>2 DEF QuestionMove
  <2>2. ASSUME NEW t \in Task, Asked(b, t)
        PROVE  appr'[a].task = appr[a].task
    BY <1>0, <2>2 DEF Asked, ApprovalRow
  <2>3. ASSUME NEW from, NEW s, Becomes(b, from, s)
        PROVE  appr'[a].task = appr[a].task
    BY <1>0, <2>3 DEF Becomes, ApprovalRow
  <2> QED
    BY <1>2, <2>1, <2>2, <2>3 DEF QuestionMove, Closed
<1>3. ASSUME NEW b \in Approval, RecordMove(b)
      PROVE  prom'[a].state # "none" /\ appr'[a].task = appr[a].task
  BY <1>3 DEF RecordMove, OtherRows
<1>4. ASSUME NEW b \in Approval, GitCommits(b)
      PROVE  prom'[a].state # "none" /\ appr'[a].task = appr[a].task
  BY <1>4 DEF GitCommits
<1> QED
  BY <1>1, <1>2, <1>3, <1>4, StepMoves

\* Asking leaves main, the marks and what is looked at, and only the click on
\* Approve makes a call.
LEMMA AskingLeaves ==
    ASSUME NEW p \in Proc, Asking(p)
    PROVE  /\ UNCHANGED <<status, main, look>>
           /\ run' = run \/ \E a \in Approval : ApproveAndPromote(p, a)
<1>1. ASSUME NEW a \in Approval,
             \/ \E t \in Task : RequestMainMerge(p, a, t)
             \/ \E b \in Approval : RetryMainMergeApproval(p, a, b)
             \/ ListMergeHistory(p, a)
             \/ RejectMainMerge(a) \/ ExpireMergeApproval(a) \/ ObserveMergeApproval(a)
      PROVE  UNCHANGED <<status, main, promotionVars>>
  BY <1>1, Questions
<1>2. ASSUME NEW a \in Approval, ApproveAndPromote(p, a)
      PROVE  UNCHANGED <<status, main, look>>
  BY <1>2, Questions
<1>3. CASE \E a \in Approval : ApproveAndPromote(p, a)
  BY <1>2, <1>3
<1>4. CASE UNCHANGED <<status, main, promotionVars>>
  BY <1>4 DEF promotionVars
<1> QED
  BY <1>1, <1>3, <1>4 DEF Asking

\* Main loses nothing.
LEMMA MainKeeps ==
    ASSUME IInv, [Next]_vars, NEW t, InMain(t)
    PROVE  InMain(t)'
<1>0. main \in [log : Log, left : Approval \cup {NONE}]
  BY Typed DEF TypeOK, ApprovalTypeOK
<1>1. CASE main'.log = main.log
  BY <1>1 DEF InMain
<1>2. ASSUME NEW x \in Task \cup {Own}, main'.log = Append(main.log, x)
      PROVE  InMain(t)'
  <2>1. PICK i \in DOMAIN main.log : main.log[i] = t
    BY DEF InMain
  <2>2. i \in DOMAIN main'.log /\ main'.log[i] = main.log[i]
    BY <1>2, <2>1, Typed
  <2> QED
    BY <2>1, <2>2 DEF InMain
<1>3. ASSUME NEW p \in Proc, Call(p) \/ Asking(p) \/ Record(p) \/ Die(p)
      PROVE  main'.log = main.log
  <2>1. CASE RefusePromotion(p) \/ VerifyMergeBinding(p) \/ ConsumeApproval(p)
    BY <2>1, Calls
  <2>2. CASE \/ PassGates(p) \/ RestorePoint(p) \/ InsertPromotion(p) \/ ConsumeLost(p)
             \/ MergeIntoHead(p) \/ MergeNotStarted(p) \/ ObservePromotion(p)
             \/ SettlePromotion(p)
    BY <2>2 DEF PassGates, RestorePoint, InsertPromotion, ConsumeLost, MergeIntoHead,
       MergeNotStarted, ObservePromotion, SettlePromotion, approvalVars
  <2>3. CASE MergeClosed(p)
    BY <1>0, <2>3 DEF MergeClosed
  <2>4. CASE Asking(p)
    BY <2>4, AskingLeaves
  <2>5. CASE Record(p) \/ Die(p)
    BY <2>5 DEF Record, ResolveWrites, ResolvePromotion, AbandonMergeProcessGroup,
       AbandonPromotionOwnerProcess, AbandonPromotionEntirely, RewritePromotion,
       AcknowledgeUnattestedPromotions, Die, approvalVars
  <2> QED
    BY <1>3, <2>1, <2>2, <2>3, <2>4, <2>5 DEF Call
<1>4. ASSUME NEW a \in Approval, Git(a), ~ GitCommits(a)
      PROVE  main'.log = main.log
  BY <1>0, <1>4 DEF Git, GitWritesTree, GitClearsMergeHead, GitGivesUp, GroupEnds, approvalVars
<1>5. ASSUME NEW a \in Approval, GitCommits(a)
      PROVE  main'.log = Append(main.log, appr[a].task) /\ appr[a].task \in Task
  <2>1. git[a].leader = "tree"
    BY <1>5 DEF GitCommits
  <2> QED
    BY <1>0, <1>5, <2>1, Subjects DEF GitCommits
<1>6. CASE OwnerWorks
  <2>1. main'.log = Append(main.log, Own)
    BY <1>0, <1>6 DEF OwnerWorks, OwnerCommits
  <2> QED
    BY <1>2, <2>1
<1>7. CASE OwnerClearsMerge \/ UNCHANGED vars
  BY <1>0, <1>1, <1>7 DEF OwnerClearsMerge, vars, approvalVars
<1> QED
  BY <1>1, <1>2, <1>3, <1>4, <1>5, <1>6, <1>7 DEF Next

\* A task is marked by a call or a re-observation that was shown its merge.
LEMMA MarksAre ==
    ASSUME IInv, [Next]_vars, NEW t \in Task, status'[t] = "merged", status[t] # "merged"
    PROVE  \E p \in Proc :
              \/ /\ run[p].step = "observed" /\ run[p].seen = "applied"
                 /\ t = appr[run[p].a].task
              \/ /\ look[p].a # NONE /\ look[p].seen = "applied"
                 /\ t = appr[look[p].a].task
<1>0. status \in [Task -> {"completed", "merged"}] /\ status' # status
  BY Typed DEF TypeOK, ApprovalTypeOK
<1>1. ASSUME NEW p \in Proc, Call(p), ~ SettlePromotion(p) PROVE status' = status
  <2>1. CASE RefusePromotion(p) \/ VerifyMergeBinding(p) \/ ConsumeApproval(p)
    BY <2>1, Calls
  <2>2. CASE \/ PassGates(p) \/ RestorePoint(p) \/ InsertPromotion(p) \/ ConsumeLost(p)
             \/ MergeIntoHead(p) \/ MergeNotStarted(p) \/ MergeClosed(p)
             \/ ObservePromotion(p)
    BY <2>2 DEF PassGates, RestorePoint, InsertPromotion, ConsumeLost, MergeIntoHead,
       MergeNotStarted, MergeClosed, ObservePromotion, approvalVars
  <2> QED
    BY <1>1, <2>1, <2>2 DEF Call
<1>2. ASSUME NEW p \in Proc, Asking(p) PROVE status' = status
  BY <1>2, AskingLeaves
<1>3. ASSUME NEW p \in Proc, Record(p), ~ ResolveWrites(p) PROVE status' = status
  BY <1>3 DEF Record, ResolvePromotion, AbandonMergeProcessGroup,
     AbandonPromotionOwnerProcess, AbandonPromotionEntirely, RewritePromotion,
     AcknowledgeUnattestedPromotions, approvalVars
<1>4. ASSUME NEW p \in Proc, Die(p) PROVE status' = status
  BY <1>4 DEF Die, approvalVars
<1>5. ASSUME NEW a \in Approval, Git(a) PROVE status' = status
  BY <1>5 DEF Git, GitWritesTree, GitCommits, GitClearsMergeHead, GitGivesUp, GroupEnds,
     approvalVars
<1>6. CASE OwnerWorks \/ OwnerClearsMerge \/ UNCHANGED vars
  BY <1>0, <1>6 DEF OwnerWorks, OwnerCommits, OwnerClearsMerge, vars, approvalVars
<1>7. ASSUME NEW p \in Proc, SettlePromotion(p)
      PROVE  /\ run[p].step = "observed" /\ run[p].seen = "applied"
             /\ t = appr[run[p].a].task
  BY <1>0, <1>7 DEF SettlePromotion, At, markCandidateMerged
<1>8. ASSUME NEW p \in Proc, ResolveWrites(p)
      PROVE  /\ look[p].a # NONE /\ look[p].seen = "applied"
             /\ t = appr[look[p].a].task
  BY <1>0, <1>8 DEF ResolveWrites, markCandidateMerged
<1> QED
  BY <1>0, <1>1, <1>2, <1>3, <1>4, <1>5, <1>6, <1>7, <1>8 DEF Next

\* What a call was shown it keeps, or has just been shown.
LEMMA RunsAre ==
    ASSUME IInv, [Next]_vars, NEW p \in Proc, run'[p].step = "observed"
    PROVE  \/ run'[p] = run[p]
           \/ /\ run'[p].a = run[p].a /\ run[p].step = "closed"
              /\ run'[p].seen = observeMain(run[p].a)
              /\ UNCHANGED <<appr, prom, main>>
<1>0. run \in [Proc -> PromotingCall]
  BY Typed
<1>1. ASSUME NEW q \in Proc, Call(q), ~ ObservePromotion(q)
      PROVE  run'[p] = run[p]
  <2>1. CASE RefusePromotion(q) \/ VerifyMergeBinding(q) \/ ConsumeApproval(q)
    BY <1>0, <2>1, Calls DEF Goto, Return, NoRun, PromotingCall
  <2>2. CASE \/ PassGates(q) \/ RestorePoint(q) \/ InsertPromotion(q) \/ ConsumeLost(q)
             \/ MergeIntoHead(q) \/ MergeNotStarted(q) \/ MergeClosed(q)
             \/ SettlePromotion(q)
    <3>1. CASE PassGates(q) \/ InsertPromotion(q) \/ MergeNotStarted(q) \/ MergeClosed(q)
      <4>1. PICK st \in {"gated", "intent", "closed"} : Goto(q, st)
        BY <3>1 DEF PassGates, InsertPromotion, MergeNotStarted, MergeClosed
      <4>2. Others(q) /\ run'[q].step = st
        BY <1>0, <4>1, GotoMoves DEF Step
      <4> QED
        BY <4>1, <4>2 DEF Others
    <3>2. CASE ConsumeLost(q) \/ SettlePromotion(q)
      <4>1. Return(q)
        BY <3>2 DEF ConsumeLost, SettlePromotion
      <4>2. Others(q) /\ run'[q] = NoRun
        BY <1>0, <4>1, ReturnMoves
      <4> QED
        BY <4>2 DEF Others, NoRun
    <3>3. CASE RestorePoint(q)
      <4>1. Others(q) /\ run'[q].step = "restored"
        BY <1>0, <3>3, RestorePointMoves, Typed DEF TypeOK
      <4> QED
        BY <4>1 DEF Others
    <3>4. CASE MergeIntoHead(q)
      <4>1. run[q].a \in Approval
        BY <3>4, Subjects DEF MergeIntoHead, At
      <4>2. Others(q) /\ run'[q].step = "merging"
        BY <3>4, <4>1, MergeIntoHeadMoves, Typed
      <4> QED
        BY <4>2 DEF Others
    <3> QED
      BY <2>2, <3>1, <3>2, <3>3, <3>4
  <2> QED
    BY <1>1, <2>1, <2>2 DEF Call
<1>2. ASSUME NEW q \in Proc, ObservePromotion(q), q # p
      PROVE  run'[p] = run[p]
  BY <1>0, <1>2 DEF ObservePromotion
<1>3. CASE ObservePromotion(p)
  BY <1>0, <1>3 DEF ObservePromotion, At, approvalVars, PromotingCall
<1>4. ASSUME NEW q \in Proc, Asking(q)
      PROVE  run'[p] = run[p]
  <2>1. ASSUME NEW a \in Approval, ApproveAndPromote(q, a)
        PROVE  run'[p] = run[p]
    <3>1. Others(q) /\ run'[q].step = "approved"
      BY <1>0, <2>1, ApproveMoves
    <3> QED
      BY <3>1 DEF Others
  <2>2. CASE run' = run
    BY <2>2
  <2> QED
    BY <1>4, <2>1, <2>2, AskingLeaves
<1>5. ASSUME NEW q \in Proc, Record(q)
      PROVE  run' = run
  BY <1>5 DEF Record, ResolveWrites, ResolvePromotion, AbandonMergeProcessGroup,
     AbandonPromotionOwnerProcess, AbandonPromotionEntirely, RewritePromotion,
     AcknowledgeUnattestedPromotions
<1>6. ASSUME NEW q \in Proc, Die(q)
      PROVE  run'[p] = run[p]
  BY <1>0, <1>6 DEF Die, NoRun
<1>7. ASSUME NEW a \in Approval, Git(a)
      PROVE  run' = run
  BY <1>7 DEF Git, GitWritesTree, GitCommits, GitClearsMergeHead, GitGivesUp, GroupEnds
<1>8. CASE OwnerWorks \/ OwnerClearsMerge \/ UNCHANGED vars
  BY <1>8 DEF OwnerWorks, OwnerClearsMerge, vars, promotionVars
<1> QED
  BY <1>1, <1>2, <1>3, <1>4, <1>5, <1>6, <1>7, <1>8 DEF Next

\* A re-observation is the one that was under way, or of a record and a main as
\* they are.
LEMMA LooksAre ==
    ASSUME IInv, [Next]_vars, NEW p \in Proc, look'[p].a # NONE
    PROVE  \/ look'[p] = look[p]
           \/ /\ look'[p].a \in Approval /\ look'[p].seen = observeMain(look[p].a)'
              /\ prom'[look'[p].a].state # "none"
<1>0. look \in [Proc -> Reobservation]
  BY Typed
<1>1. ASSUME NEW q \in Proc, Call(q)
      PROVE  look' = look
  <2>1. CASE RefusePromotion(q) \/ VerifyMergeBinding(q) \/ ConsumeApproval(q)
    BY <2>1, Calls
  <2>2. CASE \/ PassGates(q) \/ RestorePoint(q) \/ InsertPromotion(q) \/ ConsumeLost(q)
             \/ MergeIntoHead(q) \/ MergeNotStarted(q) \/ MergeClosed(q)
             \/ ObservePromotion(q) \/ SettlePromotion(q)
    BY <2>2 DEF PassGates, RestorePoint, InsertPromotion, ConsumeLost, MergeIntoHead,
       MergeNotStarted, MergeClosed, ObservePromotion, SettlePromotion
  <2> QED
    BY <1>1, <2>1, <2>2 DEF Call
<1>2. ASSUME NEW q \in Proc, Asking(q)
      PROVE  look' = look
  BY <1>2, AskingLeaves
<1>3. ASSUME NEW q \in Proc, ResolveWrites(q) \/ Die(q)
      PROVE  look'[p] = look[p]
  <2>1. look' = [look EXCEPT ![q] = NoLook]
    BY <1>3 DEF ResolveWrites, Die
  <2> QED
    BY <1>0, <2>1 DEF NoLook
<1>4. ASSUME NEW q \in Proc, NEW a \in Approval, ResolvePromotion(q, a)
      PROVE  \/ look'[p] = look[p]
             \/ /\ look'[p].a = a /\ look'[p].seen = observeMain(a)'
                /\ prom'[a].state # "none"
  <2>1. UNCHANGED <<appr, main, prom>> /\ prom[a].state # "none"
        /\ look' = [look EXCEPT ![q] = Looked(q, a, prom[a])]
    BY <1>4 DEF ResolvePromotion, approvalVars, MayLook
  <2>2. observeMain(a)' = observeMain(a)
    BY <2>1 DEF observeMain
  <2>3. Looked(q, a, prom[a]).a = a /\ Looked(q, a, prom[a]).seen = observeMain(a)
    BY DEF Looked
  <2> QED
    BY <1>0, <2>1, <2>2, <2>3
<1>5. ASSUME NEW q \in Proc, NEW a \in Approval,
             \/ AbandonMergeProcessGroup(q, a) \/ AbandonPromotionEntirely(q, a)
             \/ AbandonPromotionOwnerProcess(q, a)
      PROVE  \/ look'[p] = look[p]
             \/ /\ look'[p].a = a /\ look'[p].seen = observeMain(a)'
                /\ prom'[a].state # "none"
  <2>1. look' = look \/ (MayLook(a)' /\ look' = [look EXCEPT ![q] = Looked(q, a, prom[a])'])
    BY <1>5 DEF AbandonMergeProcessGroup, AbandonPromotionEntirely,
       AbandonPromotionOwnerProcess, RewritePromotion
  <2>2. MayLook(a)' => prom'[a].state # "none"
    BY DEF MayLook
  <2>3. Looked(q, a, prom[a])'.a = a /\ Looked(q, a, prom[a])'.seen = observeMain(a)'
    BY DEF Looked
  <2> QED
    BY <1>0, <2>1, <2>2, <2>3
<1>6. ASSUME NEW q \in Proc, AcknowledgeUnattestedPromotions(q)
      PROVE  look' = look
  BY <1>6 DEF AcknowledgeUnattestedPromotions
<1>7. ASSUME NEW a \in Approval, Git(a)
      PROVE  look' = look
  BY <1>7 DEF Git, GitWritesTree, GitCommits, GitClearsMergeHead, GitGivesUp, GroupEnds
<1>8. CASE OwnerWorks \/ OwnerClearsMerge \/ UNCHANGED vars
  BY <1>8 DEF OwnerWorks, OwnerClearsMerge, vars, promotionVars
<1>9. ASSUME NEW q \in Proc, Record(q)
      PROVE  \/ look'[p] = look[p]
             \/ /\ look'[p].a \in Approval /\ look'[p].seen = observeMain(look[p].a)'
                /\ prom'[look'[p].a].state # "none"
  <2>1. CASE ResolveWrites(q)
    BY <2>1, <1>3
  <2>2. CASE AcknowledgeUnattestedPromotions(q)
    BY <2>2, <1>6
  <2>3. ASSUME NEW a \in Approval,
               \/ ResolvePromotion(q, a)
               \/ \/ AbandonMergeProcessGroup(q, a) \/ AbandonPromotionEntirely(q, a)
                  \/ AbandonPromotionOwnerProcess(q, a)
        PROVE  \/ look'[p] = look[p]
               \/ /\ look'[p].a \in Approval /\ look'[p].seen = observeMain(look[p].a)'
                  /\ prom'[look'[p].a].state # "none"
    <3>1. \/ look'[p] = look[p]
          \/ /\ look'[p].a = a /\ look'[p].seen = observeMain(a)'
             /\ prom'[a].state # "none"
      BY <2>3, <1>4, <1>5
    <3> QED
      BY <3>1 DEF observeMain
  <2> QED
    BY <1>9, <2>1, <2>2, <2>3 DEF Record
<1> QED
  <2>1. look' = look => look'[p] = look[p]
    OBVIOUS
  <2> QED
    BY <1>1, <1>2, <1>3, <1>7, <1>8, <1>9, <2>1 DEF Next

LEMMA MergedStep ==
    ASSUME IInv, IInv', MergedInv, [Next]_vars
    PROVE  MergedInv'
<1>1. MergedIsInMain'
  <2> SUFFICES ASSUME NEW t \in Task, status'[t] = "merged"
               PROVE  InMain(t)'
    BY DEF MergedIsInMain, InMain
  <2>1. InMain(t)
    BY MarksAre DEF MergedInv, MergedIsInMain, InMain
  <2> QED
    BY <2>1, MainKeeps
<1>2. ASSUME NEW p \in Proc, run'[p].step = "observed", run'[p].seen = "applied"
      PROVE  InMain(appr[run[p].a].task)'
  <2>1. CASE run'[p] = run[p]
    <3>1. run[p].a \in Approval /\ prom[run[p].a].state # "none"
      BY <1>2, <2>1 DEF IInv, CallInv, DrivingOK, Driving
    <3>2. InMain(appr[run[p].a].task) /\ appr'[run[p].a].task = appr[run[p].a].task
      BY <1>2, <2>1, <3>1, RecordsStay DEF MergedInv
    <3>3. \E i \in DOMAIN main'.log : main'.log[i] = appr[run[p].a].task
      BY <3>2, MainKeeps DEF InMain
    <3> QED
      BY <2>1, <3>2, <3>3 DEF InMain
  <2>2. CASE /\ run'[p].a = run[p].a /\ run[p].step = "closed"
             /\ run'[p].seen = observeMain(run[p].a)
             /\ UNCHANGED <<appr, prom, main>>
    <3>1. run[p].a \in Approval
      BY <2>2, Subjects
    <3>2. InMain(appr[run[p].a].task)
      BY <1>2, <2>2, <3>1, Typed, AppliedIsInMain
    <3> QED
      BY <2>2, <3>2 DEF InMain
  <2> QED
    BY <1>2, <2>1, <2>2, RunsAre
<1>3. ASSUME NEW p \in Proc, look'[p].a # NONE
      PROVE  /\ prom'[look'[p].a].state # "none"
             /\ look'[p].seen = "applied" => InMain(appr[look[p].a].task)'
  <2>1. CASE look'[p] = look[p]
    <3>1. look[p].a \in Approval /\ prom[look[p].a].state # "none"
      BY <1>3, <2>1, Typed DEF MergedInv, Reobservation
    <3>2. /\ prom'[look[p].a].state # "none"
          /\ appr'[look[p].a].task = appr[look[p].a].task
      BY <3>1, RecordsStay
    <3>3. look[p].seen = "applied" =>
             \E i \in DOMAIN main'.log : main'.log[i] = appr[look[p].a].task
      BY <1>3, <2>1, MainKeeps DEF InMain, MergedInv
    <3> QED
      BY <2>1, <3>2, <3>3 DEF InMain
  <2>2. CASE /\ look'[p].a \in Approval /\ look'[p].seen = observeMain(look[p].a)'
             /\ prom'[look'[p].a].state # "none"
    <3>1. PICK a \in Approval : a = look'[p].a
      BY <2>2
    <3>2. observeMain(a)' = observeMain(look[p].a)'
      BY <3>1 DEF observeMain
    <3>3. look'[p].seen = "applied" => InMain(appr[a].task)'
      BY <2>2, <3>2, AppliedIsInMainNext DEF IInv
    <3> QED
      BY <2>2, <3>1, <3>3 DEF InMain
  <2> QED
    BY <1>3, <2>1, <2>2, LooksAre
<1> QED
  BY <1>1, <1>2, <1>3 DEF MergedInv

\* A candidate is marked as merged only when its merge is in main's history, by the
\* call that promoted it or by a re-observation, whatever was read before a death, a
\* ruling or a commit of the owner (markCandidateMerged).
THEOREM MergedIsInMainHolds == Spec => []MergedIsInMain
<1>1. Init => MergedInv
  BY DEF Init, ApprovalInit, MergedInv, MergedIsInMain, NoRun, NoLook
<1>2. IInv /\ IInv' /\ MergedInv /\ [Next]_vars => MergedInv'
  BY MergedStep
<1>3. MergedInv => MergedIsInMain
  BY DEF MergedInv
<1> QED
  BY <1>1, <1>2, <1>3, Invariant, PTL DEF Spec

-----------------------------------------------------------------------------
(* The refinement.                                                         *)

\* A question is asked, answered, closed or spent.
LEMMA QuestionRefines ==
    ASSUME IInv, NEW a \in Approval, QuestionMove(a)
    PROVE  Decision!Ask(a) \/ Decision!Yes(a) \/ Decision!Close(a) \/ Decision!Spend(a)
<1>0. /\ \A b \in Approval \ {a} : appr'[b] = appr[b]
      /\ \/ /\ appr[a].state = "none" /\ appr'[a].state = "requested"
            /\ appr'[a].task \in Task
         \/ /\ appr'[a].task = appr[a].task
            /\ \/ appr[a].state = "requested" /\ appr'[a].state = "approved"
               \/ /\ appr[a].state \in {"requested", "approved"}
                  /\ appr'[a].state \in {"rejected", "expired", "invalidated"}
               \/ appr[a].state = "approved" /\ appr'[a].state = "consumed"
  <2>1. ASSUME NEW t \in Task, Asked(a, t)
        PROVE  /\ \A b \in Approval \ {a} : appr'[b] = appr[b]
               /\ appr[a].state = "none" /\ appr'[a].state = "requested"
               /\ appr'[a].task \in Task
    BY <2>1, Typed DEF Asked, ApprovalRow
  <2>2. ASSUME NEW from, NEW s, Becomes(a, from, s)
        PROVE  /\ \A b \in Approval \ {a} : appr'[b] = appr[b]
               /\ appr'[a].task = appr[a].task
               /\ appr[a].state \in from /\ appr'[a].state = s
    BY <2>2, Typed DEF Becomes, ApprovalRow
  <2> QED
    BY <2>1, <2>2 DEF QuestionMove, Closed, OpenState
<1>1. /\ \A b \in Approval \ {a} : AnswerOf(b)' = AnswerOf(b)
      /\ \A b \in Approval : VerdictOf(b)' = VerdictOf(b)
      /\ \A b \in Approval \ {a} : appr'[b].task = appr[b].task
      /\ UNCHANGED <<git, ruled>>
  BY <1>0 DEF AnswerOf, VerdictOf, QuestionMove
<1> DEFINE about == [b \in Approval |-> appr[b].task]
           answer == [b \in Approval |-> AnswerOf(b)]
           verdict == [b \in Approval |-> VerdictOf(b)]
           landed == {b \in Approval : git[b].landed}
<1>2. landed' = landed /\ verdict' = verdict
  BY <1>1
<1>3. /\ answer' = [answer EXCEPT ![a] = AnswerOf(a)']
      /\ about' = [about EXCEPT ![a] = appr'[a].task]
      /\ appr'[a].task = appr[a].task => about' = about
  BY <1>1
<1>4. CASE appr[a].state = "none"
  <2>1. AnswerOf(a) = "none" /\ AnswerOf(a)' = "asked" /\ appr'[a].task \in Task
    BY <1>0, <1>4 DEF AnswerOf
  <2> QED
    BY <1>1, <1>2, <1>3, <2>1 DEF Decision!Ask, Decision!Becomes
<1>5. CASE appr[a].state # "none"
  <2>1. /\ \/ AnswerOf(a) = "asked" /\ AnswerOf(a)' = "granted"
           \/ AnswerOf(a) \in {"asked", "granted"} /\ AnswerOf(a)' = "closed"
           \/ AnswerOf(a) = "granted" /\ AnswerOf(a)' = "spent"
        /\ appr'[a].task = appr[a].task
    BY <1>0, <1>5 DEF AnswerOf
  <2> QED
    BY <1>1, <1>2, <1>3, <2>1 DEF Decision!Yes, Decision!Close, Decision!Spend, Decision!Becomes
<1> QED
  BY <1>4, <1>5

\* A candidate lands for a spent yes whose record has not ended, or was ruled on.
LEMMA LandRefines ==
    ASSUME IInv, NEW a \in Approval, GitCommits(a)
    PROVE  Decision!Land(a)
<1>1. /\ git[a].leader = "tree" /\ GitStep(a, "commit") /\ git'[a].landed
      /\ UNCHANGED <<appr, prom, ruled>>
  BY Typed, GitMoves DEF GitCommits
<1>2. /\ appr[a].state = "consumed" /\ ~git[a].landed
      /\ a \in ruled \/ prom[a].state = "applying"
  BY <1>1 DEF IInv, GitInv, GitOK, Running
<1>3. {b \in Approval : git'[b].landed} = {b \in Approval : git[b].landed} \cup {a}
  BY <1>1 DEF GitStep, OtherMerges
<1>4. /\ AnswerOf(a) = "spent" /\ (a \in ruled \/ VerdictOf(a) = "open")
      /\ \A b \in Approval : AnswerOf(b)' = AnswerOf(b) /\ VerdictOf(b)' = VerdictOf(b)
      /\ \A b \in Approval : appr'[b].task = appr[b].task
  BY <1>1, <1>2 DEF AnswerOf, VerdictOf
<1> QED
  BY <1>1, <1>2, <1>3, <1>4 DEF Decision!Land

\* A record ends with what happened, or with what was seen after a ruling.
LEMMA RecordRefines ==
    ASSUME IInv, NEW a \in Approval, RecordMove(a)
    PROVE  Decision!Conclude(a) \/ UNCHANGED <<[b \in Approval |-> appr[b].task],
              [b \in Approval |-> AnswerOf(b)], {b \in Approval : git[b].landed},
              [b \in Approval |-> VerdictOf(b)], ruled>>
<1>1. /\ \A b \in Approval \ {a} : VerdictOf(b)' = VerdictOf(b)
      /\ \A b \in Approval : AnswerOf(b)' = AnswerOf(b)
      /\ UNCHANGED <<appr, git, ruled>>
  BY DEF RecordMove, OtherRows, VerdictOf, AnswerOf
<1>2. VerdictOf(a) = "open"
  BY DEF RecordMove, VerdictOf
<1>3. CASE prom'[a].state \notin {"applied", "rolled-back"}
  <2>1. VerdictOf(a)' = "open"
    BY <1>3 DEF VerdictOf
  <2> QED
    BY <1>1, <1>2, <2>1
<1>4. CASE prom'[a].state \in {"applied", "rolled-back"}
  <2>1. PICK v \in {"merged", "not"} :
           /\ VerdictOf(a)' = v
           /\ v = "merged" <=> prom'[a].state = "applied"
    BY <1>4 DEF VerdictOf
  <2>2. Credited(a) # {} => \E r \in {b \in Approval : git[b].landed} :
                               r = a \/ (r \in ruled /\ appr[r].task = appr[a].task)
    BY DEF Credited
  <2>3. \/ a \in ruled
        \/ v = "merged" /\ Credited(a) # {}
        \/ v = "not" /\ ~git[a].landed
    BY <1>4, <2>1 DEF RecordMove
  <2>4. Decision!Shows(a) \/ Credited(a) = {}
    BY <2>2 DEF Decision!Shows
  <2>5. [b \in Approval |-> VerdictOf(b)]' = [[b \in Approval |-> VerdictOf(b)] EXCEPT ![a] = v]
    BY <1>1, <2>1
  <2> QED
    BY <1>1, <1>2, <2>3, <2>4, <2>5 DEF Decision!Conclude
<1> QED
  BY <1>3, <1>4

\* The promotion implements the decision: a candidate lands only for a yes that
\* was spent, and only once, and a record says applied or rolled-back of a merge
\* that is what the record says, for every interleaving of calls, listings, git,
\* rulings and deaths.
THEOREM PromotionImplementsDecision == Spec => ImplementsDecision
<1>1. Init => Decision!Init
  <2> SUFFICES ASSUME Init PROVE Decision!Init
    OBVIOUS
  <2>1. \A a \in Approval : /\ appr[a] = NoApproval /\ prom[a] = NoPromotion /\ git[a] = NoGit
    BY DEF Init, ApprovalInit
  <2>2. \A a \in Approval : /\ appr[a].task = NONE /\ AnswerOf(a) = "none"
                            /\ VerdictOf(a) = "open" /\ ~git[a].landed
    BY <2>1 DEF NoApproval, NoPromotion, NoGit, AnswerOf, VerdictOf
  <2>3. ruled = {}
    BY DEF Init
  <2> QED
    BY <2>2, <2>3 DEF Decision!Init
<1>2. IInv /\ [Next]_vars =>
         [Decision!Next]_<<[a \in Approval |-> appr[a].task],
                           [a \in Approval |-> AnswerOf(a)],
                           {a \in Approval : git[a].landed},
                           [a \in Approval |-> VerdictOf(a)], ruled>>
  <2> SUFFICES ASSUME IInv, [Next]_vars
               PROVE  \/ Decision!Next
                      \/ UNCHANGED <<[a \in Approval |-> appr[a].task],
                                     [a \in Approval |-> AnswerOf(a)],
                                     {a \in Approval : git[a].landed},
                                     [a \in Approval |-> VerdictOf(a)], ruled>>
    OBVIOUS
  <2>1. CASE SilentMove
    <3>1. /\ \A b \in Approval : /\ AnswerOf(b)' = AnswerOf(b) /\ VerdictOf(b)' = VerdictOf(b)
                                 /\ appr'[b].task = appr[b].task
                                 /\ git'[b].landed = git[b].landed
      BY <2>1 DEF SilentMove, AnswerOf, VerdictOf
    <3>2. ruled' = ruled \cup ruled' /\ ruled' \in SUBSET Approval
      BY <2>1 DEF SilentMove
    <3>3. Decision!Rule(ruled')
      BY <3>1, <3>2 DEF Decision!Rule
    <3> QED
      BY <3>2, <3>3 DEF Decision!Next
  <2>2. ASSUME NEW a \in Approval, QuestionMove(a) PROVE Decision!Next
    BY <2>2, QuestionRefines DEF Decision!Next
  <2>3. ASSUME NEW a \in Approval, GitCommits(a) PROVE Decision!Next
    BY <2>3, LandRefines DEF Decision!Next
  <2>4. ASSUME NEW a \in Approval, RecordMove(a)
        PROVE  \/ Decision!Next
               \/ UNCHANGED <<[b \in Approval |-> appr[b].task],
                              [b \in Approval |-> AnswerOf(b)],
                              {b \in Approval : git[b].landed},
                              [b \in Approval |-> VerdictOf(b)], ruled>>
    BY <2>4, RecordRefines DEF Decision!Next
  <2> QED
    BY <2>1, <2>2, <2>3, <2>4, StepMoves
<1> QED
  BY <1>1, <1>2, Invariant, PTL DEF Spec, ImplementsDecision, Decision!Spec, Decision!vars
=============================================================================
