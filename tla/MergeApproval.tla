---------------------------- MODULE MergeApproval ----------------------------
(***************************************************************************)
(* The question the owner answers before anything may write main: the rows *)
(* of candidate_merge_approvals (src/src/core/candidate-registry.ts) and   *)
(* the service operations that ask, answer, retry and retire them          *)
(* (src/src/core/collaboration-service.ts).                                *)
(*                                                                         *)
(* One project.  A commit of main is named by the history that leads to it,*)
(* so a head is a sequence: every entry is a commit of the owner, or the   *)
(* merge of a task's candidate.  Tokens are left out: the call that grants *)
(* an approval is the only one that ever holds its token.                  *)
(***************************************************************************)
EXTENDS Naturals, Sequences, FiniteSets

CONSTANTS
    Approval,  \* ids of approvals, of which there are finitely many
    Task,      \* tasks with a completed candidate
    MaxOwn,    \* bound on the commits the owner makes
    NONE       \* no task, or nothing left behind

Own == "own"  \* a commit the owner makes in main

ASSUME ApprovalAssumption ==
    /\ MaxOwn \in Nat
    /\ NONE \notin Task \cup Approval
    /\ Own \notin Task

VARIABLES
    appr,      \* candidate_merge_approvals: task, state and the head it binds
    status,    \* candidates.status, completed or merged
    main       \* the project: its history, and the merge left in its tree

approvalVars == <<appr, status, main>>

OpenState == {"requested", "approved"}
ClosedState == {"rejected", "expired", "invalidated", "consumed"}
NoApproval == [task |-> NONE, state |-> "none", base |-> <<>>]

ApprovalRow == [task: Task \cup {NONE},
                state: {"none"} \cup OpenState \cup ClosedState,
                base: Seq(Task \cup {Own})]
ApprovalTypeOK ==
    /\ appr \in [Approval -> ApprovalRow]
    /\ status \in [Task -> {"completed", "merged"}]
    /\ main \in [log: Seq(Task \cup {Own}), left: Approval \cup {NONE}]

ApprovalInit ==
    /\ appr = [a \in Approval |-> NoApproval]
    /\ status = [t \in Task |-> "completed"]
    /\ main = [log |-> <<>>, left |-> NONE]

-----------------------------------------------------------------------------
\* The open slot of a task: one requested or approved row.
openMergeApproval(t) == {a \in Approval : /\ appr[a].task = t
                                          /\ appr[a].state \in OpenState}

\* A row moves only from the state it was read in, and never from a closed one.
writeMergeApproval(a, from, to) ==
    /\ appr[a].state \in from \cap OpenState
    /\ appr' = [appr EXCEPT ![a].state = to]

\* What the row binds has moved: the candidate is no longer only completed, or
\* main has another head or other content.
Changed(a) == \/ status[appr[a].task] # "completed"
              \/ main.log # appr[a].base
              \/ main.left # NONE

\* The gates that are about the working tree a merge would be written into.
LiveGates == main.left = NONE

\* A check that finds the binding changed closes the row.  One that cannot be
\* completed leaves it, and the caller is refused.
settleMergeApproval(a) == /\ writeMergeApproval(a, OpenState, "invalidated")
                          /\ Changed(a)

\* Asks.  resolved is the gate on the task's promotions; the slot is taken by
\* the unique index.
requestMainMerge(a, t, resolved) ==
    /\ appr[a].state = "none"
    /\ status[t] = "completed"
    /\ openMergeApproval(t) = {}
    /\ resolved
    /\ LiveGates
    /\ appr' = [appr EXCEPT ![a] = [task |-> t, state |-> "requested",
                                    base |-> main.log]]
    /\ UNCHANGED <<status, main>>

\* The owner reopens the question of a closed approval no promotion spent: a
\* new row, after the same checks.
retryMainMergeApproval(a, b, resolved) ==
    /\ appr[a].state \in ClosedState \ {"consumed"}
    /\ requestMainMerge(b, appr[a].task, resolved)

\* The owner's yes, after a check of everything the row binds.
grantMainMerge(a) ==
    /\ writeMergeApproval(a, {"requested"}, "approved")
    /\ ~Changed(a)
    /\ UNCHANGED <<status, main>>

\* The owner's no.
rejectMainMerge(a) ==
    /\ writeMergeApproval(a, OpenState, "rejected")
    /\ UNCHANGED <<status, main>>

\* Past its time a row is closed by the next operation that meets it.
sweepExpired(a) ==
    /\ writeMergeApproval(a, OpenState, "expired")
    /\ UNCHANGED <<status, main>>

\* A listing, an inspection or a request looks at an open row again.
observeMergeApproval(a) ==
    /\ settleMergeApproval(a)
    /\ UNCHANGED <<status, main>>

-----------------------------------------------------------------------------
(* The owner, in the project itself.                                       *)

OwnCommits == Cardinality({i \in DOMAIN main.log : main.log[i] = Own})

\* Nobody commits over a half-written merge.
OwnerCommits ==
    /\ main.left = NONE
    /\ OwnCommits < MaxOwn
    /\ main' = [main EXCEPT !.log = Append(@, Own)]
    /\ UNCHANGED <<appr, status>>
=============================================================================
