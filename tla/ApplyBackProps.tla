--------------------------- MODULE ApplyBackProps ---------------------------
(***************************************************************************)
(* What bringing an agent's work back must not do to the owner's files.    *)
(***************************************************************************)
EXTENDS ApplyBack

\* The files, the task, the previews and the calls keep their shape; no more
\* previews wait than the limit says.
TypeOK ==
    /\ main \in [head : Tree, tree : Tree] /\ wt \in [head : Tree, tree : Tree]
    /\ task \in [kind : Kind,
                 status : {"none", "inspected", "added", "created", "completed", "failed", "refused"},
                 fp : [head : Tree, tree : Tree],
                 lease : BOOLEAN, mark : {"open", "applying", "applied"}]
    /\ snap = NoSnap \/ snap \in [head : Tree, tree : Tree]
    /\ \A s \in Slot : prev[s].at \in {"none", "reading", "live", "gone"}
    /\ \A c \in Call :
          /\ call[c].at \in {"idle", "verify", "recheck", "consume", "session", "put", "undo"} \cup Ended
          /\ call[c].at \in {"put", "undo"} =>
                call[c].done \subseteq Path /\ call[c].hold \in Path \cup {0}
    /\ trash \subseteq Slot /\ seen \subseteq Path
    /\ Cardinality(Waiting) <= Pending

\* What the owner has written since the baseline is never overwritten, moved or
\* restored away: not by an apply whose checks are long past, and not by the
\* roll-back of a failed one (write_file's hash, #moveToTrash, #rollback).
SparesLateEdits ==
    [][\A p \in Path : main.tree[p] = "late" => main'.tree[p] = "late"]_vars

\* An edit the owner had not committed when a run began is replaced only by work
\* that was built on it: the worktree was given that edit (applyToWorktree).
BuiltOnMine ==
    [][\A p \in Path :
          task.kind = "run" /\ main.tree[p] = "mine" /\ main'.tree[p] \notin {"mine", "late"}
             => p \in seen]_vars

\* A Writer task counts as applied over a project that holds its work, whole:
\* no file of another apply's roll-back among it, nothing but the owner's later
\* edits instead (beginApply, finishApply).
Delivered(p) == IF wt.tree[p] # wt.head[p] THEN wt.tree[p] ELSE task.fp.tree[p]
AppliedWhole ==
    task.mark = "applied" => \A p \in Path : main.tree[p] \in {"late", Delivered(p)}

-----------------------------------------------------------------------------
\* What the documents, the comments and the tests say, and the code does not
\* keep: the README lists where, and the instance that shows it.

\* A Writer whose lease was granted, and has survived every start since, can hand
\* in its work (recoverInterruptedRuns, completeRetained).
PreservedWriterCompletes ==
    task.kind = "room" /\ task.lease => task.status \in {"created", "completed"}
=============================================================================
