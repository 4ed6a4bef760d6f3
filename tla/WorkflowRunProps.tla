-------------------------- MODULE WorkflowRunProps --------------------------
(***************************************************************************)
(* What a workflow promises to the one who started it and to the one who   *)
(* reads the session store.                                                *)
(***************************************************************************)
EXTENDS WorkflowRun

\* The row of a run is the record of its executor, but for the mark of an
\* opening that came in between, which the next save writes over; and a run is
\* unfinished in the store only while somebody executes it or its executor has
\* died since the last opening (saveRun, recoverInterruptedRuns, the catch of
\* run).  A run that was restored on such a mark, while its first executor went
\* on, has two records and one row: which of them the row is, nothing says.
RowTellsTruth ==
    \A r \in Run :
        /\ r \notin shared => \A p \in Proc : Executing(p, r) =>
              row[r] \in {eng[p][r].rec, Marked(eng[p][r].rec)}
        /\ row[r].status \in Live =>
              \/ \E p \in Proc : Executing(p, r) /\ row[r] = eng[p][r].rec
              \/ r \in unswept

\* A run is completed on what its reviewers saw and passed: the context they
\* were given is the workspace the checkpointed round left, also when
\* something else wrote to the workspace in between (Promise.all of run and
\* the fingerprints around it).
CompletedAsReviewed ==
    \A p \in Proc, r \in Run : eng[p][r].rec.status = "completed" =>
        /\ eng[p][r].context = eng[p][r].seen
        /\ \A a \in Reviewer : call[p][r][a].out = "pass"

\* A run is over in the store with the status that ended it, and stays over:
\* neither an answer that comes late nor an opening changes the verdict, only
\* a restore of an interrupted run does (catch and finally of run).  Of a run
\* that two processes execute each may write over the verdict of the other.
VerdictStays ==
    [][\A r \in Run \ shared :
          row[r].status \in Terminal /\ row[r].code # "interrupted" =>
              row'[r].status = row[r].status /\ row'[r].code = row[r].code]_vars

\* No call runs on for a stop it has not heard of: a call made before an
\* emergency stop, or by a run that was cancelled or is late, ends, however
\* long its provider would have gone on (invoke of the governor, terminate).
Overdue == \E p \in Proc, r \in Run, a \in Agent :
    call[p][r][a].step = "up" /\ MustStop(p, r, a)
StopsReach == Overdue ~> ~Overdue

\* A run that is started ends, also one that was paused and never resumed
\* (the deadline of run, waitIfPaused).
Working == \E p \in Proc, r \in Run : Executing(p, r)
RunEnds == Working ~> ~Working

-----------------------------------------------------------------------------
\* What the documents, the comments and the tests say, and the code does not
\* keep: the README lists where, and the instance that shows it.

\* A run marked as interrupted is not executed by anybody.
InterruptedMeansDead ==
    \A r \in Run : row[r].code = "interrupted" =>
        \A p \in Proc : ~Executing(p, r)

\* At most so many workflows run in a process.
ConcurrencyBounded ==
    \A p \in Proc : Cardinality({r \in Run : Executing(p, r)}) <= MaxActive

\* A run makes at most so many provider calls.
CallsBounded == \A r \in Run : row[r].counters.calls <= MaxCalls

\* A run that was under way at an emergency stop starts no call after it.
NoCallAfterStop ==
    \A p \in Proc, r \in Run, a \in Agent :
        call[p][r][a].step = "up" /\ a # "tester" =>
            call[p][r][a].epoch = eng[p][r].epoch
=============================================================================
