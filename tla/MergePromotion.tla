---------------------------- MODULE MergePromotion ----------------------------
(***************************************************************************)
(* Writing main.  The owner's yes starts one call (approveAndPromoteMain-  *)
(* Merge) that re-checks what the approval binds, records the intent,      *)
(* spends the approval, runs git merge detached and settles the record by  *)
(* looking at the repository.  Every process that serves the room shares   *)
(* the promotion rows; what a process saw or was told by the owner itself  *)
(* it keeps in memory only, and only that may end the wait of a record.    *)
(* git outlives the process that started it.                               *)
(*                                                                         *)
(* A promotion is named by its approval.  Every await of the call is a     *)
(* point between two steps.  A re-observation is two steps: what it saw is *)
(* written only over the row it started from.                              *)
(***************************************************************************)
EXTENDS MergeApproval

CONSTANTS
    Proc,      \* processes that serve the room
    Hooked,    \* approvals whose merge runs hooks or drivers of the project
    Faults,    \* what goes wrong: see Fault
    MaxDeaths  \* bound on the deaths of processes

Fault == {"spawn",      \* git cannot be started
          "unnamed",    \* no source names the merge's process group
          "kill",       \* the merge leader dies where it is
          "group",      \* the leader leaves others of its group behind
          "abort"}      \* git merge --abort fails

ASSUME PromotionAssumption ==
    /\ Hooked \subseteq Approval
    /\ Faults \subseteq Fault
    /\ MaxDeaths \in Nat
    /\ NONE \notin Proc

VARIABLES
    prom,      \* candidate_merge_promotions
    git,       \* the merge processes
    run,       \* the call that promotes, in each process
    look,      \* the re-observation under way in each process
    mem,       \* #firstHandPromotions of each process
    orphan,    \* promotions whose owner process is gone
    deaths,    \* deaths of processes so far
    ruled      \* history: records whose wait for the merge the owner has ended

promotionVars == <<prom, git, run, look, mem, orphan, deaths, ruled>>
vars == <<approvalVars, promotionVars>>

\* named: some source tells the merge's process group; disowned: the owner ended
\* the wait for the process that started it; byCall: the row is as the promoting
\* call last wrote it.
NoPromotion == [state |-> "none", before |-> <<>>, owner |-> NONE,
                named |-> FALSE, disowned |-> FALSE, hint |-> "none",
                byCall |-> FALSE]
NoGit == [leader |-> "none", exit |-> "none", group |-> FALSE,
          landed |-> FALSE]
Step == {"idle", "approved", "gated", "verified", "restored", "intent",
         "spent", "merging", "closed", "observed"}
Outcome == {"none", "applied", "authorized", "rolled-back", "manual"}
NoRun == [step |-> "idle", a |-> NONE, before |-> <<>>, spawned |-> FALSE,
          seen |-> "none", over |-> FALSE, group |-> FALSE]
NoLook == [a |-> NONE, row |-> NoPromotion, seen |-> "none", over |-> FALSE,
           by |-> FALSE, group |-> FALSE]
NoMem == [attested |-> {}, settled |-> {}, declared |-> {}, concluded |-> {}]

Log == Seq(Task \cup {Own})
PromotionRow == [state: {"none", "applying", "applied", "rolled-back", "manual"},
                 before: Log, owner: Proc \cup {NONE}, named: BOOLEAN,
                 disowned: BOOLEAN, hint: {"none", "look", "reset"},
                 byCall: BOOLEAN]
MergeProcess == [leader: {"none", "start", "tree", "commit", "over"},
                 exit: {"none", "ok", "bad"}, group: BOOLEAN, landed: BOOLEAN]
PromotingCall == [step: Step, a: Approval \cup {NONE}, before: Log,
                  spawned: BOOLEAN, seen: Outcome, over: BOOLEAN,
                  group: BOOLEAN]
Reobservation == [a: Approval \cup {NONE}, row: PromotionRow, seen: Outcome,
                  over: BOOLEAN, by: BOOLEAN, group: BOOLEAN]
FirstHand == [attested: SUBSET Approval, settled: SUBSET Approval,
              declared: SUBSET Approval, concluded: SUBSET Approval]
TypeOK ==
    /\ ApprovalTypeOK
    /\ prom \in [Approval -> PromotionRow]
    /\ git \in [Approval -> MergeProcess]
    /\ run \in [Proc -> PromotingCall]
    /\ look \in [Proc -> Reobservation]
    /\ mem \in [Proc -> FirstHand]
    /\ orphan \subseteq Approval
    /\ deaths \in 0..MaxDeaths
    /\ ruled \subseteq Approval

Init ==
    /\ ApprovalInit
    /\ prom = [a \in Approval |-> NoPromotion]
    /\ git = [a \in Approval |-> NoGit]
    /\ run = [p \in Proc |-> NoRun]
    /\ look = [p \in Proc |-> NoLook]
    /\ mem = [p \in Proc |-> NoMem]
    /\ orphan = {}
    /\ deaths = 0
    /\ ruled = {}

-----------------------------------------------------------------------------
(* What a process may say about a record.                                  *)

holdsExclusiveMarker(a) == prom[a].state = "applying"

\* A record this process already took out of applying, found back in it.
promotionRewound(p, a) == holdsExclusiveMarker(a) /\ a \in mem[p].settled

promotionAttested(p, a) ==
    IF holdsExclusiveMarker(a) THEN a \notin mem[p].settled
                               ELSE a \in mem[p].attested

ownerDeclarationHere(p, a) == /\ ~promotionRewound(p, a)
                              /\ a \in mem[p].declared
concludedHere(p, a) == ~promotionRewound(p, a) /\ a \in mem[p].concluded

ownerProcessAlive(a) == a \notin orphan /\ ~prom[a].disowned

\* The merge leader answers; or only others of its group do.  Both need a source
\* that names the group.
Running(a) == git[a].leader \in {"start", "tree", "commit"}
Blocking(a) == prom[a].named /\ Running(a)
Survivors(a) == prom[a].named /\ ~Running(a) /\ git[a].group

\* The merge is over as far as p may say, from what it saw or was told.
mergeWriteConclusion(p, a) == /\ ~Blocking(a)
                              /\ ~Survivors(a)
                              /\ \/ ownerDeclarationHere(p, a)
                                 \/ concludedHere(p, a)

\* A record that waits for something the owner has to answer.
promotionPending(p, a) ==
    /\ prom[a].state \in {"applying", "manual"}
    /\ \/ holdsExclusiveMarker(a) /\ ownerProcessAlive(a)
       \/ Blocking(a)
       \/ Survivors(a)
       \/ ~ownerDeclarationHere(p, a)

\* The task's earlier promotions have ended, and p can vouch for each.
assertNoUnresolvedPromotion(p, t) ==
    \A a \in Approval :
        (appr[a].task = t /\ prom[a].state # "none") =>
            /\ prom[a].state \in {"applied", "rolled-back"}
            /\ promotionAttested(p, a)

\* No promotion of another task has the project.
assertMainNotBusy(p, t) ==
    \A a \in Approval :
        (appr[a].task # t /\ prom[a].state # "none") =>
            ~holdsExclusiveMarker(a) /\ promotionAttested(p, a)

\* What the repository says about a promotion that began at prom[a].before.
observeMain(a) ==
    LET merged == main.log = Append(prom[a].before, appr[a].task)
        restored == main.log = prom[a].before
        tidy == main.left = NONE
    IN CASE merged /\ tidy -> "applied"
         [] restored /\ tidy -> "rolled-back"
         [] merged /\ ~tidy -> "authorized"
         [] OTHER -> "manual"

Merged(seen) == seen \in {"applied", "authorized"}

\* The state an observation asks for; a merge that is in main while others of
\* its group live keeps the marker.
holdMarkerOverSurvivors(seen, group) ==
    IF seen = "applied" /\ group THEN "applying"
    ELSE IF seen = "authorized" THEN "manual" ELSE seen

\* A main that was not touched taken as proof that nothing will touch it.
UntouchedIsEvidence(seen, neverSpawned) == seen # "manual"

\* A head that carries the merge says it itself; an untouched one only when
\* this call knows that no merge was started.
selfEvidencingOutcome(seen, neverSpawned) ==
    Merged(seen) \/ (seen = "rolled-back" /\ neverSpawned)

\* A hint that offers to reset without knowing what became of the merge.
HintWithoutConclusion(seen, state, over, leaderClosed) ==
    IF state = "applied" THEN "none"
    ELSE IF Merged(seen) THEN "look" ELSE "reset"

recoveryHint(seen, state, over, leaderClosed) ==
    IF state = "applied" THEN "none"
    ELSE IF Merged(seen) THEN "look"
    ELSE IF ~over THEN "none"
    ELSE IF leaderClosed THEN "reset" ELSE "look"

-----------------------------------------------------------------------------
(* Writing a record.                                                       *)

\* Every write makes the attestations of the old row worthless.  Only a row
\* that has left applying is attested, by the process that wrote it.
attestPromotion(p, a, state) ==
    [q \in Proc |->
        IF q = p /\ state # "applying"
        THEN [mem[q] EXCEPT !.attested = @ \cup {a}, !.settled = @ \cup {a}]
        ELSE [mem[q] EXCEPT !.attested = @ \ {a}]]
Forget(a) == [q \in Proc |-> [mem[q] EXCEPT !.attested = @ \ {a}]]

\* A marker that excludes promotions of the same task only.
MarkerFreeForTask(a) ==
    \A b \in Approval \ {a} :
        appr[b].task = appr[a].task => ~holdsExclusiveMarker(b)

\* The unique index on main_path where state is applying.
MarkerFree(a) == \A b \in Approval \ {a} : ~holdsExclusiveMarker(b)

writePromotion(a, state, hint, byCall) ==
    prom' = [prom EXCEPT ![a].state = state, ![a].hint = hint,
                         ![a].byCall = byCall]

markCandidateMerged(a, mutated) ==
    status' = IF mutated THEN [status EXCEPT ![appr[a].task] = "merged"]
              ELSE status

-----------------------------------------------------------------------------
(* The question.                                                           *)

RequestMainMerge(p, a, t) ==
    /\ requestMainMerge(a, t, assertNoUnresolvedPromotion(p, t))
    /\ UNCHANGED promotionVars

RetryMainMergeApproval(p, a, b) ==
    /\ prom[a].state = "none"
    /\ retryMainMergeApproval(
           a, b, assertNoUnresolvedPromotion(p, appr[a].task))
    /\ UNCHANGED promotionVars

RejectMainMerge(a) == rejectMainMerge(a) /\ UNCHANGED promotionVars
ExpireMergeApproval(a) == sweepExpired(a) /\ UNCHANGED promotionVars
ObserveMergeApproval(a) == observeMergeApproval(a) /\ UNCHANGED promotionVars

\* A listing closes a yes that no call of this process is spending and that no
\* promotion it can vouch for has spent.
ListMergeHistory(p, a) ==
    /\ appr[a].state = "approved"
    /\ run[p].a # a
    /\ ~(prom[a].state # "none" /\ promotionAttested(p, a))
    /\ rejectMainMerge(a)
    /\ UNCHANGED promotionVars

-----------------------------------------------------------------------------
(* The call that promotes.                                                 *)

At(p, step) == run[p].step = step
Goto(p, step) == run' = [run EXCEPT ![p].step = step]
Return(p) == run' = [run EXCEPT ![p] = NoRun]

\* The owner's yes: the grant, and the call goes on.
ApproveAndPromote(p, a) ==
    /\ At(p, "idle")
    /\ prom[a].state = "none"
    /\ grantMainMerge(a)
    /\ run' = [run EXCEPT ![p] = [NoRun EXCEPT !.step = "approved", !.a = a]]
    /\ UNCHANGED <<prom, git, look, mem, orphan, deaths, ruled>>

\* A check fails, or cannot be made: the call takes its own yes back, which no
\* promotion has spent.
RefusePromotion(p) ==
    /\ run[p].step \in {"approved", "gated", "verified", "restored"}
    /\ IF appr[run[p].a].state = "approved" THEN rejectMainMerge(run[p].a)
       ELSE UNCHANGED approvalVars
    /\ Return(p)
    /\ UNCHANGED <<prom, git, look, mem, orphan, deaths, ruled>>

PassGates(p) ==
    LET t == appr[run[p].a].task IN
    /\ At(p, "approved")
    /\ appr[run[p].a].state = "approved"
    /\ assertNoUnresolvedPromotion(p, t)
    /\ assertMainNotBusy(p, t)
    /\ Goto(p, "gated")
    /\ UNCHANGED <<approvalVars, prom, git, look, mem, orphan, deaths, ruled>>

VerifyMergeBinding(p) ==
    /\ At(p, "gated")
    /\ \/ settleMergeApproval(run[p].a) /\ Return(p)
       \/ ~Changed(run[p].a) /\ Goto(p, "verified") /\ UNCHANGED appr
    /\ UNCHANGED <<status, main, prom, git, look, mem, orphan, deaths, ruled>>

\* The point main would go back to, and the live gates: the head it finds is
\* not compared with the head the approval binds.
RestorePoint(p) ==
    /\ At(p, "verified")
    /\ LiveGates
    /\ run' = [run EXCEPT ![p].step = "restored", ![p].before = main.log]
    /\ UNCHANGED <<approvalVars, prom, git, look, mem, orphan, deaths, ruled>>

\* The intent, before anything is spent: one row per approval, one applying row
\* per project.
InsertPromotion(p) ==
    /\ At(p, "restored")
    /\ prom[run[p].a].state = "none"
    /\ MarkerFree(run[p].a)
    /\ prom' = [prom EXCEPT ![run[p].a] =
                    [NoPromotion EXCEPT !.state = "applying", !.owner = p,
                                        !.before = run[p].before,
                                        !.byCall = TRUE]]
    /\ Goto(p, "intent")
    /\ UNCHANGED <<approvalVars, git, look, mem, orphan, deaths, ruled>>

\* An approval consumed without looking at the state it was read in.
ConsumeWhatever(p) ==
    /\ At(p, "intent")
    /\ appr' = [appr EXCEPT ![run[p].a].state = "consumed"]
    /\ Goto(p, "spent")
    /\ UNCHANGED <<status, main, prom, git, look, mem, orphan, deaths, ruled>>

ConsumeApproval(p) ==
    /\ At(p, "intent")
    /\ writeMergeApproval(run[p].a, {"approved"}, "consumed")
    /\ Goto(p, "spent")
    /\ UNCHANGED <<status, main, prom, git, look, mem, orphan, deaths, ruled>>

\* The approval was closed since it was read.  No process vouches for the row
\* that says so.
ConsumeLost(p) ==
    LET a == run[p].a IN
    /\ At(p, "intent")
    /\ appr[a].state # "approved"
    /\ IF prom[a].byCall
       THEN writePromotion(a, "rolled-back", "none", TRUE) /\ mem' = Forget(a)
       ELSE UNCHANGED <<prom, mem>>
    /\ Return(p)
    /\ UNCHANGED <<approvalVars, git, look, orphan, deaths, ruled>>

\* git merge, detached.  The group is named in the row, or beside it, or nowhere.
MergeIntoHead(p) ==
    LET a == run[p].a IN
    /\ At(p, "spent")
    /\ \E named \in {TRUE} \cup {n \in BOOLEAN : "unnamed" \in Faults} :
          prom' = [prom EXCEPT ![a].named = named]
    /\ git' = [git EXCEPT ![a].leader = "start"]
    /\ run' = [run EXCEPT ![p].step = "merging", ![p].spawned = TRUE]
    /\ UNCHANGED <<approvalVars, look, mem, orphan, deaths, ruled>>

MergeNotStarted(p) ==
    /\ At(p, "spent")
    /\ "spawn" \in Faults
    /\ Goto(p, "closed")
    /\ UNCHANGED <<approvalVars, prom, git, look, mem, orphan, deaths, ruled>>

\* The leader has closed; what it left half done is undone.
MergeClosed(p) ==
    LET a == run[p].a IN
    /\ At(p, "merging")
    /\ git[a].leader = "over"
    /\ \/ /\ git[a].exit = "bad"
          /\ main' = [main EXCEPT !.left = NONE]
       \/ /\ git[a].exit = "ok" \/ main.left = NONE \/ "abort" \in Faults
          /\ UNCHANGED main
    /\ Goto(p, "closed")
    /\ UNCHANGED <<appr, status, prom, git, look, mem, orphan, deaths, ruled>>

\* What is left of the group, what may be concluded, what main looks like.  A
\* leader's exit is enough when the merge ran nothing of the project's.
ObservePromotion(p) ==
    LET a == run[p].a
        group == run[p].spawned /\ git[a].group
        leader == run[p].spawned /\ a \notin Hooked
        over == /\ ~group
                /\ mergeWriteConclusion(p, a) \/ (leader /\ ~Survivors(a))
    IN  /\ At(p, "closed")
        /\ run' = [run EXCEPT ![p] = [@ EXCEPT !.step = "observed",
                                               !.seen = observeMain(a),
                                               !.over = over,
                                               !.group = group]]
        /\ mem' = IF over /\ ~ownerDeclarationHere(p, a)
                  THEN [mem EXCEPT ![p].concluded = @ \cup {a}] ELSE mem
        /\ UNCHANGED <<approvalVars, prom, git, look, orphan, deaths, ruled>>

SettlePromotion(p) ==
    LET a == run[p].a
        r == run[p]
        state == IF ~r.over /\ ~selfEvidencingOutcome(r.seen, ~r.spawned)
                 THEN "applying" ELSE holdMarkerOverSurvivors(r.seen, r.group)
        hint == recoveryHint(r.seen, state, r.over,
                             r.spawned /\ ~ownerDeclarationHere(p, a))
    IN  /\ At(p, "observed")
        /\ IF prom[a].byCall
           THEN /\ writePromotion(a, state, hint, state = "applying")
                /\ mem' = attestPromotion(p, a, state)
                /\ markCandidateMerged(a, r.seen = "applied")
           ELSE UNCHANGED <<prom, mem, status>>
        /\ Return(p)
        /\ UNCHANGED <<appr, main, git, look, orphan, deaths, ruled>>

-----------------------------------------------------------------------------
(* git, which nobody needs to be waiting for.                              *)

Leavings == {FALSE} \cup {g \in BOOLEAN : "group" \in Faults}
Ends(a, exit) ==
    \E g \in Leavings :
        git' = [git EXCEPT ![a] = [@ EXCEPT !.leader = "over", !.exit = exit,
                                            !.group = g]]

\* The merge of what HEAD is now, written into the tree.
GitWritesTree(a) ==
    /\ git[a].leader = "start"
    /\ main.left = NONE
    /\ \A i \in DOMAIN main.log : main.log[i] # appr[a].task
    /\ main' = [main EXCEPT !.left = a]
    /\ git' = [git EXCEPT ![a].leader = "tree"]
    /\ UNCHANGED <<appr, status, prom, run, look, mem, orphan, deaths, ruled>>

GitCommits(a) ==
    /\ git[a].leader = "tree"
    /\ main.left = a
    /\ main' = [main EXCEPT !.log = Append(@, appr[a].task)]
    /\ git' = [git EXCEPT ![a] = [@ EXCEPT !.leader = "commit",
                                           !.landed = TRUE]]
    /\ UNCHANGED <<appr, status, prom, run, look, mem, orphan, deaths, ruled>>

GitClearsMergeHead(a) ==
    /\ git[a].leader = "commit"
    /\ main' = [main EXCEPT !.left = NONE]
    /\ Ends(a, "ok")
    /\ UNCHANGED <<appr, status, prom, run, look, mem, orphan, deaths, ruled>>

\* A conflict, a hook that says no, the deadline; or main has the candidate.
GitGivesUp(a) ==
    /\ \/ git[a].leader = "start" /\ Ends(a, "ok")
          /\ \E i \in DOMAIN main.log : main.log[i] = appr[a].task
       \/ git[a].leader \in {"start", "tree"} /\ Ends(a, "bad")
       \/ git[a].leader = "commit" /\ "kill" \in Faults /\ Ends(a, "bad")
    /\ UNCHANGED <<approvalVars, prom, run, look, mem, orphan, deaths, ruled>>

GroupEnds(a) ==
    /\ git[a].group
    /\ git' = [git EXCEPT ![a].group = FALSE]
    /\ UNCHANGED <<approvalVars, prom, run, look, mem, orphan, deaths, ruled>>

OwnerWorks == OwnerCommits /\ UNCHANGED promotionVars

\* The owner clears what a merge that is over left behind.
OwnerClearsMerge ==
    /\ main.left # NONE
    /\ ~Running(main.left)
    /\ main' = [main EXCEPT !.left = NONE]
    /\ UNCHANGED <<appr, status, promotionVars>>

-----------------------------------------------------------------------------
(* Re-observing a record nobody drives.                                    *)

\* What resolvePromotion reads before it looks at the repository, of the row it
\* was given, and what it sees there.
Looked(p, a, row) ==
    LET told == a \in mem[p].declared
                  /\ ~(row.state = "applying" /\ a \in mem[p].settled)
    IN [a |-> a, row |-> row, seen |-> observeMain(a),
        over |-> mergeWriteConclusion(p, a), by |-> told,
        group |-> Survivors(a)]

\* The owner process is dead or disowned, and no merge of the record answers.
MayLook(a) == /\ prom[a].state \in {"applying", "manual"}
              /\ ~Blocking(a)
              /\ holdsExclusiveMarker(a) => ~ownerProcessAlive(a)

\* A listing, a replayed answer, a gate.
ResolvePromotion(p, a) ==
    /\ look[p].a = NONE
    /\ promotionAttested(p, a)
    /\ MayLook(a)
    /\ look' = [look EXCEPT ![p] = Looked(p, a, prom[a])]
    /\ UNCHANGED <<approvalVars, prom, git, run, mem, orphan, deaths, ruled>>

\* What it saw, held against who may end the wait, and written if the row is
\* still the row it started from.
ResolveWrites(p) ==
    LET v == look[p]
        a == v.a
        wanted == holdMarkerOverSurvivors(v.seen, v.group)
        leaves == v.row.state = "applying" /\ wanted # "applying"
        claim == v.over \/ selfEvidencingOutcome(v.seen, FALSE)
        state == IF ~claim \/ (leaves /\ ~v.by) THEN "applying" ELSE wanted
        seen == IF claim /\ leaves /\ ~v.by THEN "manual" ELSE v.seen
    IN  /\ a # NONE
        /\ IF prom[a] = v.row /\ (state = "applying" => MarkerFree(a))
           THEN /\ writePromotion(a, state,
                                  recoveryHint(seen, state, v.over, FALSE),
                                  FALSE)
                /\ mem' = attestPromotion(p, a, state)
                /\ markCandidateMerged(a, v.by /\ v.seen = "applied")
           ELSE UNCHANGED <<prom, mem, status>>
        /\ look' = [look EXCEPT ![p] = NoLook]
        /\ UNCHANGED <<appr, main, git, run, orphan, deaths, ruled>>

-----------------------------------------------------------------------------
(* What the owner declares to one process.                                 *)

\* The record is written, and then looked at once more by the same request.
RewritePromotion(p, a, row) ==
    /\ look[p].a = NONE
    /\ prom' = [prom EXCEPT ![a] = [row EXCEPT !.byCall = FALSE]]
    /\ UNCHANGED <<approvalVars, git, run, orphan, deaths>>
    /\ look' = IF MayLook(a)' THEN [look EXCEPT ![p] = Looked(p, a, prom[a])']
               ELSE look

\* What the owner says is remembered here before the row says it.
recordOwnerDeclaration(p, a) ==
    /\ mem' = [Forget(a) EXCEPT ![p].declared = @ \cup {a}]
    /\ ruled' = ruled \cup {a}

\* The owner ends the wait for the merge of a record whose process is gone.
AbandonMergeProcessGroup(p, a) ==
    /\ promotionPending(p, a)
    /\ ~(holdsExclusiveMarker(a) /\ ownerProcessAlive(a))
    /\ recordOwnerDeclaration(p, a)
    /\ RewritePromotion(p, a, [prom[a] EXCEPT !.named = FALSE])

\* The owner ends the wait for the process, of a record that names no live
\* merge: nothing is said of the merge itself.
AbandonPromotionOwnerProcess(p, a) ==
    /\ holdsExclusiveMarker(a)
    /\ ownerProcessAlive(a)
    /\ ~Blocking(a) /\ ~Survivors(a)
    /\ mem' = Forget(a)
    /\ UNCHANGED ruled
    /\ RewritePromotion(p, a, [prom[a] EXCEPT !.disowned = TRUE])

\* Both are in the way, and the owner ends both waits at once.
AbandonPromotionEntirely(p, a) ==
    /\ holdsExclusiveMarker(a)
    /\ ownerProcessAlive(a)
    /\ Blocking(a) \/ Survivors(a)
    /\ recordOwnerDeclaration(p, a)
    /\ RewritePromotion(p, a, [prom[a] EXCEPT !.named = FALSE,
                                              !.disowned = TRUE])

\* The owner vouches, to this process, for every record that has left applying
\* and that it cannot vouch for itself.
AcknowledgeUnattestedPromotions(p) ==
    LET rows == {a \in Approval : /\ prom[a].state # "none"
                                  /\ ~holdsExclusiveMarker(a)
                                  /\ ~promotionAttested(p, a)}
    IN  /\ rows # {}
        /\ mem' = [mem EXCEPT
                     ![p].attested = @ \cup rows, ![p].settled = @ \cup rows,
                     ![p].declared = @ \cup rows]
        /\ ruled' = ruled \cup rows
        /\ UNCHANGED <<approvalVars, prom, git, run, look, orphan, deaths>>

\* A process dies and another takes its place.  What it remembered is gone.
Die(p) ==
    /\ deaths < MaxDeaths
    /\ deaths' = deaths + 1
    /\ orphan' = orphan \cup {a \in Approval : prom[a].owner = p}
    /\ run' = [run EXCEPT ![p] = NoRun]
    /\ look' = [look EXCEPT ![p] = NoLook]
    /\ mem' = [mem EXCEPT ![p] = NoMem]
    /\ UNCHANGED <<approvalVars, prom, git, ruled>>

-----------------------------------------------------------------------------
Call(p) ==
    \/ RefusePromotion(p) \/ PassGates(p) \/ VerifyMergeBinding(p)
    \/ RestorePoint(p) \/ InsertPromotion(p) \/ ConsumeApproval(p)
    \/ ConsumeLost(p) \/ MergeIntoHead(p) \/ MergeNotStarted(p)
    \/ MergeClosed(p) \/ ObservePromotion(p) \/ SettlePromotion(p)

Asking(p) ==
    \/ \E a \in Approval :
          \/ \E t \in Task : RequestMainMerge(p, a, t)
          \/ \E b \in Approval : RetryMainMergeApproval(p, a, b)
          \/ ListMergeHistory(p, a)
          \/ ApproveAndPromote(p, a)
    \/ \E a \in Approval : \/ RejectMainMerge(a)
                           \/ ExpireMergeApproval(a)
                           \/ ObserveMergeApproval(a)

Record(p) ==
    \/ ResolveWrites(p)
    \/ \E a \in Approval : \/ ResolvePromotion(p, a)
                           \/ AbandonMergeProcessGroup(p, a)
                           \/ AbandonPromotionOwnerProcess(p, a)
                           \/ AbandonPromotionEntirely(p, a)
    \/ AcknowledgeUnattestedPromotions(p)

Git(a) == \/ GitWritesTree(a) \/ GitCommits(a) \/ GitClearsMergeHead(a)
          \/ GitGivesUp(a) \/ GroupEnds(a)

Next == \/ \E p \in Proc : Call(p) \/ Asking(p) \/ Record(p) \/ Die(p)
        \/ \E a \in Approval : Git(a)
        \/ OwnerWorks \/ OwnerClearsMerge

Spec == Init /\ [][Next]_vars

\* git and what it leaves behind end; a call goes on; the owner does what the
\* record asks for, also when it is asked only between two re-observations.
FairSpec ==
    /\ Spec
    /\ \A a \in Approval : WF_vars(Git(a))
    /\ \A p \in Proc : WF_vars(Call(p)) /\ WF_vars(ResolveWrites(p))
    /\ \A p \in Proc, a \in Approval :
          /\ WF_vars(ResolvePromotion(p, a))
          /\ SF_vars(AbandonMergeProcessGroup(p, a))
          /\ SF_vars(AbandonPromotionOwnerProcess(p, a))
=============================================================================
