-------------------------- MODULE MergeIdentityProps --------------------------
(***************************************************************************)
(* What the evidence about a merge process is for: no sentence the owner   *)
(* is asked to type, and nothing a process concludes by itself, may say    *)
(* that a merge is over while it is not; and an owner who types what the   *)
(* record shows gets the project back.                                     *)
(***************************************************************************)
EXTENDS MergeIdentity

\* Something of the merge's process group can still write main.
GroupLives ==
    \/ merge.step = "running"
    \/ left # {}

\* The sentence p shows for the record as it stands.
Sentence(p) ==
    IF promotionRowReadable(row) THEN promotionPending(row, told[p]).release
    ELSE IF row.state = "applying"
    THEN unreadableReleaseRequirement(row).confirmation ELSE "none"

\* The sentences that do not say that main may be being written
\* (candidate-registry.ts 235, 301) are asked for only when nothing of the
\* merge's group is alive, whatever of the row, the trace and the marker is
\* missing or damaged, and whoever has its number now.
ShortPhraseMeansGone ==
    \A p \in Reader :
        Sentence(p) \in {"MERGE_GROUP_ABANDON", "MERGE_UNREADABLE_ABANDON"} =>
            ~GroupLives

\* A process that concludes from what it saw, with no word of the owner, is
\* right: nothing of the merge lives, in its group or out of it
\* (mergeWriteConclusion, MERGE_LEADER_EXIT_OBSERVED).
ClosedMeansOver ==
    \A p \in Reader : "closed" \in told[p] => ~GroupLives /\ ~escaped

\* The owner types what the record shows, with the numbers it shows.
FollowRecord(p) == Types(p, {Sentence(p)})

\* The owner keeps a page open and does what it says; git and what it leaves
\* behind may go on for ever.
IdentityFairSpec ==
    /\ IdentitySpec
    /\ \A p \in Reader : /\ WF_identityVars(ResolvePromotion(p))
                         /\ WF_identityVars(FollowRecord(p))

\* A project that is claimed by a promotion becomes free again: the sentence a
\* record shows is one that is taken, and what was released stays released at
\* the next look, whichever source still names it
\* (candidate-registry.ts 2095-2098, 8181-8187).
OwnerGetsOut == row.state = "applying" ~> row.state # "applying"

-----------------------------------------------------------------------------
(* What the code says and does not keep.                                   *)

\* The boot instant is the wall clock less the uptime, so setting the clock by
\* more than the tolerance makes it another boot.
ClockIsSet ==
    /\ bootAt < FirstBoot + MaxFaults
    /\ bootAt' = bootAt + 1
    /\ UNCHANGED <<holder, left, merge, escaped, repo, row, trace, marker, call,
                   told, faults>>

\* With it ShortPhraseMeansGone does not hold: every number of a live merge is
\* of another boot and reads as gone (candidate-registry.ts 2918: "a group
\* recorded before this boot cannot be this boot's pid").
ClockSpec == IdentityInit /\ [][IdentityNext \/ ClockIsSet]_identityVars

=============================================================================
