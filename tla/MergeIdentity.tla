---------------------------- MODULE MergeIdentity ----------------------------
(***************************************************************************)
(* Is a git merge still writing main?  MergePromotion answers with one     *)
(* flag; this module is where the answer comes from.  A promotion row      *)
(* names the merge's process group twice, in columns and in its payload;   *)
(* git's own trace file names it, and a marker file names it when the      *)
(* write of the row failed.  Each of the four can be missing or damaged,   *)
(* and a number means something within one boot only: later it may belong  *)
(* to anybody.  So a reader compares the sources, probes every number and  *)
(* picks the sentence the owner has to type before the record stops        *)
(* waiting.  What a process watched, and what the owner told it, it keeps  *)
(* in memory and nowhere else.                                             *)
(*                                                                         *)
(* One promotion, from the moment its approval is spent.                   *)
(***************************************************************************)
EXTENDS Naturals

CONSTANTS
    Reader,     \* processes that serve the room
    Starter,    \* the reader that runs the promotion
    Pid,        \* process numbers
    OwnerPid,   \* the number of the starting process
    Hooked,     \* whether the merge may run programs of the project: a set
    Faults,     \* what goes wrong: see Fault
    MaxFaults,  \* bound on how often
    NOID

Fault == {"spawn",    \* git cannot be started
          "row",      \* the write that names the group fails
          "marker",   \* so does the marker that says so
          "trace",    \* git writes no trace
          "lose",     \* the trace or the marker file is lost
          "payload",  \* the stored payload does not parse any more
          "column",   \* a stored column is lost
          "hash",     \* the stored hash does not match
          "group",    \* the merge leaves others of its group behind
          "death",    \* a process of the room dies and is started again
          "reboot",   \* the machine restarts
          "reuse"}    \* a number is given to another process

ASSUME IdentityAssumption ==
    /\ Starter \in Reader
    /\ OwnerPid \in Pid
    /\ Hooked \subseteq BOOLEAN
    /\ Faults \subseteq Fault
    /\ MaxFaults \in Nat
    /\ NOID \notin Pid

VARIABLES
    bootAt,   \* the boot instant, as the clock and the uptime give it
    holder,   \* who has a number
    left,     \* groups with members besides their leader
    merge,    \* the git merge: its step and its number
    escaped,  \* a process of the merge in a session of its own lives
    repo,     \* what the repository shows of the merge
    row,      \* the promotion row
    trace,    \* the start event of git's trace file
    marker,   \* the spawn-record file
    call,     \* the promoting call in the starter
    told,     \* what each process saw or was told by the owner
    faults    \* faults so far

identityVars == <<bootAt, holder, left, merge, escaped, repo, row, trace,
                  marker, call, told, faults>>
machineVars == <<bootAt, holder, left, merge, escaped, repo, trace>>

\* Boot instants are counted from 1; Before is no boot at all.
Before == 0
FirstBoot == 1
Group == [pgid: Pid, boot: 0..(FirstBoot + MaxFaults)]
Word == {"closed", "group", "account"}
Row == [state: {"applying", "applied", "rolled-back", "manual"},
        column: Group \cup {NOID},
        parses: BOOLEAN, group: Group \cup {NOID}, disowned: Group \cup {NOID},
        ownerDisowned: BOOLEAN, abandoned: BOOLEAN, concluded: BOOLEAN,
        hashed: BOOLEAN, byCall: BOOLEAN]

IdentityTypeOK ==
    /\ bootAt \in FirstBoot..(FirstBoot + MaxFaults)
    /\ holder \in [Pid -> {"free", "starter", "merge", "own", "foreign"}]
    /\ left \subseteq Pid
    /\ merge \in [step: {"none", "running", "over"}, pid: Pid \cup {NOID},
                  traced: BOOLEAN, hooked: Hooked]
    /\ escaped \in BOOLEAN
    /\ repo \in {"before", "half", "dirty", "merged"}
    /\ row \in Row
    /\ trace \in Group \cup {NOID}
    /\ marker \in Group \cup {NOID}
    /\ call \in [step: {"spent", "merging", "ended"}, hand: Group \cup {NOID},
                 recorded: BOOLEAN]
    /\ told \in [Reader -> SUBSET Word]
    /\ faults \in 0..MaxFaults

\* The row as the intent wrote it.
IntentRow == [state |-> "applying", column |-> NOID, parses |-> TRUE,
              group |-> NOID, disowned |-> NOID, ownerDisowned |-> FALSE,
              abandoned |-> FALSE, concluded |-> FALSE, hashed |-> TRUE,
              byCall |-> TRUE]

IdentityInit ==
    /\ bootAt = FirstBoot
    /\ holder = [n \in Pid |-> IF n = OwnerPid THEN "starter" ELSE "free"]
    /\ left = {}
    /\ \E h \in Hooked :
          merge = [step |-> "none", pid |-> NOID, traced |-> FALSE, hooked |-> h]
    /\ escaped = FALSE
    /\ repo = "before"
    /\ row = IntentRow
    /\ trace = NOID
    /\ marker = NOID
    /\ call = [step |-> "spent", hand |-> NOID, recorded |-> FALSE]
    /\ told = [p \in Reader |-> {}]
    /\ faults = 0

\* Op of a value that is worked out once.
Given(value, Op(_)) == CHOOSE y \in {Op(x) : x \in {value}} : TRUE

-----------------------------------------------------------------------------
(* Probing a number.                                                       *)

\* Somebody else's process cannot be this owner's merge.
probe(n) == IF holder[n] = "free" THEN "gone"
            ELSE IF holder[n] = "foreign" THEN "foreign" ELSE "alive"

mergeGroupState(g) ==
    IF g.boot # bootAt \/ probe(g.pgid) = "foreign" THEN "gone"
    ELSE IF probe(g.pgid) = "alive" THEN "running"
    ELSE IF g.pgid \in left THEN "left behind" ELSE "gone"

\* A payload that does not parse decides nothing.
ownerProcessAlive(r) ==
    /\ ~(r.parses /\ (r.ownerDisowned \/ bootAt # FirstBoot))
    /\ probe(OwnerPid) = "alive"

-----------------------------------------------------------------------------
(* What the sources say.                                                   *)

\* The trace has the instant git started and no boot: an instant of this boot
\* stands for this boot.
traceBootAtSec == IF trace.boot = bootAt THEN bootAt ELSE Before
traceMergeIdentity ==
    IF trace = NOID THEN NOID
    ELSE [pgid |-> trace.pgid, boot |-> traceBootAtSec]

columnMergeIdentity(r) == r.column
payloadMergeIdentity(r) == IF r.parses THEN r.group ELSE NOID
disownedMergeGroup(r) == IF r.parses THEN r.disowned ELSE NOID
promotionRowReadable(r) == r.parses /\ r.hashed

sameMergeGroup(g, h) == g.pgid = h.pgid /\ g.boot = h.boot

\* The owner's release taken out of the payload and left in the other sources.
SourcesDisownedInRow(r, disowned) ==
    {s \in {[source |-> "column", group |-> columnMergeIdentity(r)],
            [source |-> "payload", group |-> payloadMergeIdentity(r)],
            [source |-> "trace", group |-> traceMergeIdentity],
            [source |-> "spawn-record", group |-> marker]} : s.group # NOID}

\* Each source with the group it names, but for the one the owner has disowned.
Sources(r, disowned) ==
    {s \in {[source |-> "column", group |-> columnMergeIdentity(r)],
            [source |-> "payload", group |-> payloadMergeIdentity(r)],
            [source |-> "trace", group |-> traceMergeIdentity],
            [source |-> "spawn-record", group |-> marker]} :
        /\ s.group # NOID
        /\ disowned # NOID => ~sameMergeGroup(s.group, disowned)}

\* The group these sources name, the first of them before the second.
From(sources, first, second) ==
    LET at(n) == {s \in sources : s.source = n}
    IN  IF at(first) \cup at(second) = {} THEN NOID
        ELSE (CHOOSE s \in at(first) \cup at(second) :
                  s \in at(first) \/ at(first) = {}).group

\* Two sources inside the row that differ, or one that names a group where the
\* other denies it, contest the answer.  A source outside may only take the
\* answer away.
Reading(r, sources) ==
    LET column == From(sources, "column", "column")
        payload == From(sources, "payload", "payload")
        contested == /\ column # NOID
                     /\ IF payload # NOID THEN ~sameMergeGroup(column, payload)
                                          ELSE r.parses
        inRow == From(sources, "column", "payload")
        outside == From(sources, "trace", "spawn-record")
        differ == inRow # NOID /\ outside # NOID
                                /\ ~sameMergeGroup(inRow, outside)
    IN  [identity |-> IF contested \/ differ THEN NOID
                      ELSE IF inRow # NOID THEN inRow ELSE outside,
         readable |-> /\ ~contested
                      /\ ~differ
                      /\ \/ inRow # NOID
                         \/ /\ r.parses
                            /\ marker = NOID
                            /\ outside # NOID \/ trace = NOID,
         candidates |-> {s.group : s \in sources},
         sources |-> sources,
         namedInRow |-> inRow # NOID /\ ~contested]
durableMergeIdentity(r, disowned) ==
    Given(Sources(r, disowned), LAMBDA sources : Reading(r, sources))

\* A row that fails its check may not drop a group by saying it was disowned.
\* hand is the group the asking call was handed when it started git.
Standing(reading, hand) ==
    LET probed == reading.candidates \cup ({hand} \ {NOID})
        In(state) == {g \in probed : mergeGroupState(g) = state}
    IN  [reading |-> reading, blocking |-> In("running"),
         survivors |-> In("left behind")]
mergeIdentityStanding(r, trusted, hand) ==
    Given(durableMergeIdentity(
              r, IF trusted THEN disownedMergeGroup(r) ELSE NOID),
          LAMBDA reading : Standing(reading, hand))

-----------------------------------------------------------------------------
(* May it be concluded that no merge is writing?                           *)

CONCLUDED_MERGE_REASONS == {"MERGE_LEADER_EXIT_OBSERVED",
                            "MERGE_GROUP_DISOWNED_BY_OWNER",
                            "MERGE_ACCOUNT_ABANDONED_BY_OWNER"}
recordedMergeConclusion(r) == r.parses /\ r.concluded
abandonedMergeAccount(r) == r.parses /\ r.abandoned

\* The first of these that holds.  exit: the asking call saw the leader close;
\* programs: code of the project ran, which may have left the group.
Reason(r, standing, words, trusted, exit, programs) ==
    IF standing.blocking # {} THEN "MERGE_GROUP_STILL_RUNNING"
    ELSE IF standing.survivors # {} THEN "MERGE_GROUP_SURVIVORS_STILL_ALIVE"
    ELSE IF trusted /\ "account" \in words
         THEN "MERGE_ACCOUNT_ABANDONED_BY_OWNER"
    ELSE IF trusted /\ "group" \in words THEN "MERGE_GROUP_DISOWNED_BY_OWNER"
    ELSE IF trusted /\ "closed" \in words THEN "MERGE_LEADER_EXIT_OBSERVED"
    ELSE IF exit /\ programs
         THEN "MERGE_UNTRUSTED_PROGRAMS_RAN_LEADER_EXIT_INSUFFICIENT"
    ELSE IF exit THEN "MERGE_LEADER_EXIT_OBSERVED"
    ELSE IF trusted /\ (\/ abandonedMergeAccount(r)
                        \/ disownedMergeGroup(r) # NOID
                        \/ recordedMergeConclusion(r))
         THEN "MERGE_DECLARATION_NOT_FIRST_HAND"
    ELSE IF standing.reading.namedInRow /\ marker = NOID
         THEN "MERGE_GROUP_PROBED_GONE"
    ELSE "MERGE_IDENTITY_UNACCOUNTED"

Conclusion(standing, reason) ==
    [standing |-> standing, reason |-> reason,
     concluded |-> reason \in CONCLUDED_MERGE_REASONS,
     byOwner |-> reason \in CONCLUDED_MERGE_REASONS
                             \ {"MERGE_LEADER_EXIT_OBSERVED"}]
mergeWriteConclusion(r, words, trusted, hand, exit, programs) ==
    Given(mergeIdentityStanding(r, trusted, hand), LAMBDA standing :
        Given(Reason(r, standing, words, trusted, exit, programs),
              LAMBDA reason : Conclusion(standing, reason)))

promotionConclusion(r, words) ==
    mergeWriteConclusion(r, words, TRUE, NOID, FALSE, FALSE)

-----------------------------------------------------------------------------
(* What the record waits for, and the sentence that ends the wait.         *)

Pending(code, pid, also, release) ==
    [code |-> code, pid |-> pid, also |-> also, release |-> release]
NotPending == Pending("none", NOID, NOID, "none")
First(groups) == (CHOOSE g \in groups : TRUE).pgid

Settled(r) == r.state \in {"applied", "rolled-back"}
ownedElsewhere(r) == r.state = "applying" /\ ownerProcessAlive(r)

PendingOn(r, c) ==
    LET s == c.standing
        inTheWay == IF s.blocking # {} THEN s.blocking ELSE s.survivors
    IN  IF Settled(r) THEN NotPending
        ELSE IF ownedElsewhere(r) THEN
            IF inTheWay # {}
            THEN Pending("PROMOTION_OWNER_AND_MERGE_STILL_RUNNING", OwnerPid,
                         First(inTheWay), "MERGE_PROMOTION_ABANDON")
            ELSE Pending("OWNER_PROCESS_STILL_RUNNING", OwnerPid, NOID,
                         "MERGE_OWNER_ABANDON")
        ELSE IF s.blocking # {}
        THEN Pending("MERGE_SUBPROCESS_STILL_RUNNING", First(s.blocking), NOID,
                     "MERGE_LIVE_ABANDON")
        ELSE IF s.survivors # {}
        THEN Pending("MERGE_GROUP_SURVIVOR_STILL_RUNNING", First(s.survivors),
                     NOID, "MERGE_LIVE_ABANDON")
        ELSE IF c.concluded THEN NotPending
        ELSE IF /\ c.reason = "MERGE_GROUP_PROBED_GONE"
                /\ s.reading.identity # NOID
        THEN Pending("MERGE_END_NOT_OBSERVED", s.reading.identity.pgid, NOID,
                     "MERGE_GROUP_ABANDON")
        ELSE Pending("MERGE_IDENTITY_UNACCOUNTED", NOID, NOID,
                     "MERGE_UNACCOUNTED_ABANDON")

\* A conclusion this process remembers is not asked for here.
promotionPending(r, words) ==
    Given(promotionConclusion(r, words \ {"closed"}),
          LAMBDA c : PendingOn(r, c))

\* Nothing seen alive taken for an answer.
SilenceAnswers(r, c) ==
    LET alive == c.standing.blocking \cup c.standing.survivors
    IN  [alive |-> alive,
         confirmation |-> IF alive # {} \/ ownerProcessAlive(r)
                          THEN "MERGE_UNREADABLE_LIVE_ABANDON"
                          ELSE "MERGE_UNREADABLE_ABANDON"]

\* A row that fails its check: the short sentence is for a row whose own sources
\* name a group, agree, and name nothing that can be seen.
Requirement(r, c) ==
    LET alive == c.standing.blocking \cup c.standing.survivors
        answered == /\ c.standing.reading.namedInRow
                    /\ c.standing.reading.readable
                    /\ marker = NOID
                    /\ alive = {}
                    /\ ~ownerProcessAlive(r)
    IN  [alive |-> alive,
         confirmation |-> IF answered THEN "MERGE_UNREADABLE_ABANDON"
                          ELSE "MERGE_UNREADABLE_LIVE_ABANDON"]
unreadableReleaseRequirement(r) ==
    Given(mergeWriteConclusion(r, {}, FALSE, NOID, FALSE, FALSE),
          LAMBDA c : Requirement(r, c))

-----------------------------------------------------------------------------
(* Looking at the repository and writing down what it shows.               *)

authorizedMergeCommit(m) == m \in {"dirty", "merged"}
Seen(m) == CASE m = "merged" -> "applied"
             [] m = "before" -> "rolled-back"
             [] OTHER -> "manual"

\* The group the next row names: none once it is gone and nobody needs it.
KeptGroup(c, m) ==
    LET identity == c.standing.reading.identity
        gone == identity = NOID \/ mergeGroupState(identity) = "gone"
    IN  IF gone /\ (\/ c.concluded
                    \/ ~c.standing.reading.namedInRow
                    \/ authorizedMergeCommit(m)
                    \/ m = "before")
        THEN NOID ELSE identity

holdMarkerOverSurvivors(c, m) ==
    IF m = "merged" /\ c.standing.survivors # {} THEN "applying" ELSE Seen(m)

\* Columns and payload are written together.
written(r, c, state, group) ==
    [r EXCEPT !.state = state, !.column = group, !.group = group,
              !.parses = TRUE, !.hashed = TRUE, !.byCall = FALSE,
              !.concluded = IF c.reason = "MERGE_DECLARATION_NOT_FIRST_HAND"
                            THEN @ ELSE c.concluded]

\* A re-observation of r by a process that holds these words.  A row leaves
\* applying only by the owner's word.
Reobserved(r, c) ==
    LET state == IF ~c.concluded /\ ~authorizedMergeCommit(repo) THEN "applying"
                 ELSE IF r.state = "applying" /\ ~c.byOwner THEN "applying"
                 ELSE holdMarkerOverSurvivors(c, repo)
    IN  IF c.standing.blocking # {} \/ ownedElsewhere(r) THEN r
        ELSE written(r, c, state, KeptGroup(c, repo))
resolvePromotion(r, words) ==
    IF Settled(r) THEN r
    ELSE Given(promotionConclusion(r, words), LAMBDA c : Reobserved(r, c))

-----------------------------------------------------------------------------
(* The call that promotes.                                                 *)

Happens(kind) ==
    /\ kind \in Faults
    /\ faults < MaxFaults
    /\ faults' = faults + 1

\* git is started and the row told its number; when that write fails a marker
\* file is to say so.
RecordMergePgid(n) ==
    LET hand == [pgid |-> n, boot |-> bootAt] IN
    /\ call.step = "spent"
    /\ holder[n] = "free"
    /\ n \notin left
    /\ holder' = [holder EXCEPT ![n] = "merge"]
    /\ merge' = [merge EXCEPT !.step = "running", !.pid = n]
    /\ \/ /\ row.byCall
          /\ row' = [IntentRow EXCEPT !.column = hand, !.group = hand]
          /\ call' = [step |-> "merging", hand |-> hand, recorded |-> TRUE]
          /\ UNCHANGED <<marker, faults>>
       \/ /\ IF row.byCall THEN Happens("row") ELSE UNCHANGED faults
          /\ marker' \in {hand} \cup {NOID : x \in {"marker"} \cap Faults}
          /\ call' = [step |-> "merging", hand |-> hand, recorded |-> FALSE]
          /\ UNCHANGED row
    /\ UNCHANGED <<bootAt, left, escaped, repo, trace, told>>

\* The number taken from the row, not from the call that started git.
SettleByRow(r, words) ==
    mergeWriteConclusion(r, words, TRUE, NOID, call.hand # NOID,
                         merge.hooked \/ (call.hand # NOID /\ ~merge.traced))

\* What the promoting call may conclude.  A trace git never wrote may hide a
\* program of the project.
SettleConclusion(r, words) ==
    mergeWriteConclusion(r, words, TRUE, call.hand, call.hand # NOID,
                         merge.hooked \/ (call.hand # NOID /\ ~merge.traced))

\* The leader has closed, or never was; a merge left half done is undone if git
\* can.  The row is written only as the call itself last wrote it.
SettleWith(intent, c) ==
    LET state(m) == IF /\ ~c.concluded
                       /\ ~authorizedMergeCommit(m)
                       /\ ~(m = "before" /\ call.hand = NOID)
                    THEN "applying" ELSE holdMarkerOverSurvivors(c, m)
        group(m) == IF state(m) = "applying" /\ call.hand # NOID THEN call.hand
                    ELSE KeptGroup(c, m)
    IN  /\ \E m \in {repo} \cup (IF repo = "half" THEN {"before"} ELSE {}) :
              /\ repo' = m
              /\ row' = IF row.byCall THEN written(intent, c, state(m), group(m))
                        ELSE row
        /\ told' = IF c.reason = "MERGE_LEADER_EXIT_OBSERVED"
                   THEN [told EXCEPT ![Starter] = @ \cup {"closed"}] ELSE told
SettlePromotion ==
    LET named == IF call.recorded THEN call.hand ELSE NOID
        intent == [IntentRow EXCEPT !.column = named, !.group = named]
    IN  /\ \/ call.step = "merging" /\ merge.step = "over" /\ UNCHANGED faults
           \/ call.step = "spent" /\ Happens("spawn")
        /\ \E c \in {SettleConclusion(intent, told[Starter])} :
              SettleWith(intent, c)
        /\ call' = [call EXCEPT !.step = "ended"]
        /\ UNCHANGED <<bootAt, holder, left, merge, escaped, trace, marker>>

-----------------------------------------------------------------------------
(* Reading, and the owner's word.  The owner types a sentence and numbers;  *)
(* each release looks again before it takes them.                          *)

ResolvePromotion(p) ==
    /\ promotionRowReadable(row)
    /\ row' = resolvePromotion(row, told[p])
    /\ UNCHANGED <<machineVars, marker, call, told, faults>>

\* A release of the row: noted in memory, written down, and looked at again.
Release(p, r, words) ==
    /\ told' = [told EXCEPT ![p] = @ \cup words]
    /\ row' = resolvePromotion([r EXCEPT !.byCall = FALSE], told'[p])
    /\ UNCHANGED <<machineVars, marker, call, faults>>

Disowned(r, n) == [r EXCEPT !.column = NOID, !.group = NOID,
                            !.disowned = [pgid |-> n, boot |-> bootAt]]

AbandonMergeProcessGroup(p, pending, typed, n) ==
    /\ pending.code \in {"MERGE_SUBPROCESS_STILL_RUNNING",
                         "MERGE_GROUP_SURVIVOR_STILL_RUNNING",
                         "MERGE_END_NOT_OBSERVED"}
    /\ typed = IF pending.code = "MERGE_END_NOT_OBSERVED"
               THEN "MERGE_GROUP_ABANDON" ELSE "MERGE_LIVE_ABANDON"
    /\ n = pending.pid
    /\ Release(p, Disowned(row, n), {"group"})

AbandonMergeAccount(p, pending, typed) ==
    /\ pending.code = "MERGE_IDENTITY_UNACCOUNTED"
    /\ typed = "MERGE_UNACCOUNTED_ABANDON"
    /\ Release(p, [row EXCEPT !.abandoned = TRUE], {"account"})

\* Says nothing of the merge.
AbandonPromotionOwnerProcess(p, pending, typed, n) ==
    /\ pending.code = "OWNER_PROCESS_STILL_RUNNING"
    /\ typed = "MERGE_OWNER_ABANDON"
    /\ n = pending.pid
    /\ Release(p, [row EXCEPT !.ownerDisowned = TRUE], {})

AbandonPromotionEntirely(p, pending, typed, n, also) ==
    /\ pending.code = "PROMOTION_OWNER_AND_MERGE_STILL_RUNNING"
    /\ typed = "MERGE_PROMOTION_ABANDON"
    /\ n = pending.pid
    /\ also = pending.also
    /\ Release(p, [Disowned(row, also) EXCEPT !.ownerDisowned = TRUE], {"group"})

\* The record stays unreadable and stops claiming the project.
ReleaseUnreadablePromotion(p, requirement, typed, n) ==
    /\ row.state = "applying"
    /\ typed = requirement.confirmation
    /\ requirement.alive # {} => \E g \in requirement.alive : n = g.pgid
    /\ told' = [told EXCEPT ![p] = @ \cup {"account"}]
    /\ row' = [row EXCEPT !.state = "manual", !.parses = TRUE, !.hashed = FALSE,
                          !.group = IF row.parses THEN @ ELSE NOID,
                          !.disowned = IF row.parses THEN @ ELSE NOID,
                          !.ownerDisowned = row.parses /\ @,
                          !.abandoned = row.parses /\ @,
                          !.concluded = row.parses /\ @]
    /\ UNCHANGED <<machineVars, marker, call, faults>>

Phrase == {"MERGE_GROUP_ABANDON", "MERGE_LIVE_ABANDON", "MERGE_OWNER_ABANDON",
           "MERGE_PROMOTION_ABANDON", "MERGE_UNACCOUNTED_ABANDON",
           "MERGE_UNREADABLE_ABANDON", "MERGE_UNREADABLE_LIVE_ABANDON"}

\* The owner types one of these sentences at p, and numbers.
Types(p, phrases) ==
    \/ /\ promotionRowReadable(row)
       /\ \E pending \in {promotionPending(row, told[p])} :
          \E typed \in phrases, n, also \in Pid :
             \/ AbandonMergeProcessGroup(p, pending, typed, n)
             \/ AbandonMergeAccount(p, pending, typed)
             \/ AbandonPromotionOwnerProcess(p, pending, typed, n)
             \/ AbandonPromotionEntirely(p, pending, typed, n, also)
    \/ /\ ~promotionRowReadable(row)
       /\ \E requirement \in {unreadableReleaseRequirement(row)} :
          \E typed \in phrases, n \in Pid :
             ReleaseUnreadablePromotion(p, requirement, typed, n)

-----------------------------------------------------------------------------
(* git, the machine and what goes wrong.                                   *)

GitTraces ==
    /\ merge.step = "running"
    /\ ~merge.traced
    /\ merge' = [merge EXCEPT !.traced = TRUE]
    /\ trace' = [pgid |-> merge.pid, boot |-> bootAt]
    /\ UNCHANGED <<bootAt, holder, left, escaped, repo, row, marker, call, told,
                   faults>>

GitWrites ==
    /\ merge.step = "running"
    /\ repo # "merged"
    /\ repo' = CASE repo = "before" -> "half"
                 [] repo = "half" -> "dirty"
                 [] repo = "dirty" -> "merged"
    /\ UNCHANGED <<bootAt, holder, left, merge, escaped, row, trace, marker,
                   call, told, faults>>

\* The leader ends, wherever it is.
GitEnds ==
    /\ merge.step = "running"
    /\ merge.traced \/ "trace" \in Faults
    /\ merge' = [merge EXCEPT !.step = "over"]
    /\ holder' = [holder EXCEPT ![merge.pid] = "free"]
    /\ left' \in {{}} \cup {{merge.pid} : x \in {"group"} \cap Faults}
    /\ escaped' \in {FALSE, merge.hooked}
    /\ UNCHANGED <<bootAt, repo, row, trace, marker, call, told, faults>>

GroupEnds ==
    /\ left # {}
    /\ left' = {}
    /\ UNCHANGED <<bootAt, holder, merge, escaped, repo, row, trace, marker,
                   call, told, faults>>

EscapedEnds ==
    /\ escaped
    /\ escaped' = FALSE
    /\ UNCHANGED <<bootAt, holder, left, merge, repo, row, trace, marker, call,
                   told, faults>>

Reuse(n, who) ==
    /\ holder[n] = "free"
    /\ n \notin left
    /\ Happens("reuse")
    /\ holder' = [holder EXCEPT ![n] = who]
    /\ UNCHANGED <<bootAt, left, merge, escaped, repo, row, trace, marker, call,
                   told>>

\* A process of the room dies and is started again, with another number.
Die(p) ==
    /\ Happens("death")
    /\ told' = [told EXCEPT ![p] = {}]
    /\ IF p = Starter
       THEN /\ call' = [call EXCEPT !.step = "ended"]
            /\ holder' = [n \in Pid |-> IF holder[n] = "starter" THEN "free"
                                        ELSE holder[n]]
       ELSE UNCHANGED <<call, holder>>
    /\ UNCHANGED <<bootAt, left, merge, escaped, repo, row, trace, marker>>

Reboot ==
    /\ Happens("reboot")
    /\ bootAt' = bootAt + 1
    /\ holder' = [n \in Pid |-> "free"]
    /\ left' = {}
    /\ escaped' = FALSE
    /\ merge' = [merge EXCEPT !.step = IF @ = "running" THEN "over" ELSE @]
    /\ told' = [p \in Reader |-> {}]
    /\ call' = [call EXCEPT !.step = "ended"]
    /\ UNCHANGED <<repo, row, trace, marker>>

DamageRow ==
    /\ row.state = "applying"
    /\ \/ Happens("payload") /\ row' = [row EXCEPT !.parses = FALSE]
       \/ /\ Happens("column")
          /\ row.column # NOID
          /\ row' = [row EXCEPT !.column = NOID, !.hashed = FALSE]
       \/ /\ Happens("hash")
          /\ row' = [row EXCEPT !.hashed = FALSE, !.byCall = FALSE]
    /\ UNCHANGED <<machineVars, marker, call, told>>

LoseFile ==
    /\ Happens("lose")
    /\ \/ trace # NOID /\ trace' = NOID /\ UNCHANGED marker
       \/ marker # NOID /\ marker' = NOID /\ UNCHANGED trace
    /\ UNCHANGED <<bootAt, holder, left, merge, escaped, repo, row, call, told>>

IdentityNext ==
    \/ \E n \in Pid : RecordMergePgid(n)
    \/ SettlePromotion
    \/ \E p \in Reader :
          \/ ResolvePromotion(p)
          \/ Types(p, Phrase)
          \/ Die(p)
    \/ GitTraces \/ GitWrites \/ GitEnds \/ GroupEnds \/ EscapedEnds
    \/ \E n \in Pid, who \in {"own", "foreign"} : Reuse(n, who)
    \/ Reboot \/ DamageRow \/ LoseFile

IdentitySpec == IdentityInit /\ [][IdentityNext]_identityVars

=============================================================================
