--------------------------- MODULE WriterLeaseProps ---------------------------
(***************************************************************************)
(* What should be true of the writer lease.                                *)
(***************************************************************************)
EXTENDS WriterLease

(* The owner's view: writer_tasks as one pen.                              *)
PenStage == IF phase = "none" THEN "open" ELSE phase
Pen == INSTANCE WriterPen
           WITH holder <- active, drawn <- next - 1, stage <- PenStage

\* Whatever the processes, calls and agents do, the task row behaves like one
\* pen: numbers are never reused, the pen is down during a take-over, and no
\* pen is given out after it.
ImplementsPen == Pen!Spec

\* The two tables agree, as #verify and the unique index demand of them: a
\* lease exists for every epoch below next_epoch and no other, and the one the
\* task points to, the newest, is the only active one.
StoreConsistent ==
    /\ \A e \in Epochs : lease[e] = "none" <=> e >= next
    /\ \A e \in Epochs : lease[e] = "active" <=> e = active
    /\ active # 0 => active + 1 = next

\* Nobody holds the lease while its worktree is applied to the project, nor
\* after: not even the process that was between two transactions when the
\* apply-back began.
ClosedWhileApplying == phase \in {"applying", "applied"} => active = 0

\* Under the active lease at most one call that can write is going, however
\* late its heartbeats come and whichever process lost the run lock.
OneWriterCall ==
    \A r, s \in Calls :
        (/\ {call[r].step, call[s].step} = {"going"}
         /\ call[r].epoch = active
         /\ call[s].epoch = active
         /\ {call[r].c, call[s].c} \cap Readers = {}) => r = s

\* An agent whose lease has ended, or whose parent's has, gets at most the one
\* write it was cleared for before: also an agent that outlives its call, its
\* GUI, or a delegation checked in two databases.
FencedWrites == \A r \in Calls : call[r].late <= 1

\* A task is marked applied only when the project has all of the work, also
\* when the process dies around the apply-back.
AppliedMeansNew == phase = "applied" => project = "new"

\* A call that lost the run lock to another process, or to the sweep of a
\* stale heartbeat, is stopped.
LostRunStops ==
    \A r \in Calls :
        (call[r].step = "going" /\ run # r) ~> call[r].step \in {"idle", "over"}

-----------------------------------------------------------------------------
(* What the documents and the code say, and the code does not keep.        *)

-----------------------------------------------------------------------------
\* What the documents, the comments and the tests say, and the code does not
\* keep: the README lists where, and the instance that shows it.

\* A starting GUI revokes only leases whose capability no process has.
StartSparesHeldLeases ==
    [][\A g, h \in Guis :
        gop[g].step = "start" /\ gop'[g].step = "children"
            => gop[g].old \notin caps[h]]_vars

\* A task is open to a writer only when the project is not half applied.
ReopenedWhole == phase = "open" => project # "mixed"

\* A GUI answers "already running" only while a call of its own runs.
BusyOnlyWhileRunning ==
    \A g \in busy :
        \E r \in Calls : call[r].gui = g /\ call[r].step \in {"going", "aborted"}
=============================================================================
