-------------------------- MODULE CandidateTaskProps --------------------------
(***************************************************************************)
(* What a client request of a candidate is promised.                       *)
(***************************************************************************)
EXTENDS CandidateTask

\* A key makes one thing, whoever repeats it, in however many processes.
OneArtifact ==
    \A k \in Key : \A i, j \in Id :
        \/ cand[i].key = k /\ cand[j].key = k
        \/ point[i].key = k /\ point[j].key = k
        => i = j

Made(k) == \/ \E i \in Id : /\ cand[i].key = k
                            /\ cand[i].status \in {"active", "completed"}
           \/ \E i \in Id : point[i].key = k

\* A success names something that is there.
SuccessIsThere == \A k \in Key : req[k].state = "succeeded" => Made(k)

\* A candidate somebody is creating is not taken for an interrupted one, while
\* its creator still holds the reservation or nobody who took it over has died.
CreatorUndisturbed ==
    [][\A i \in Id, p \in Proc, k \in StartKey :
          (/\ call[p][k].step \in {"create", "activate"} /\ call[p][k].id = i
           /\ call'[p][k] = call[p][k] /\ cand[i].status = "creating"
           /\ req[k].holder = p \/ deaths = 0)
          => cand'[i].status # "failed"]_vars

\* Every checkpoint can be gone back to: the ref is there before the record,
\* and it names the head the record names.
RecoveryReady == \A i \in Id : point[i] # NoPoint => ref[i] = point[i].head

-----------------------------------------------------------------------------
\* What the documents, the comments and the tests say, and the code does not
\* keep: the README lists where, and the instance that shows it.

\* A failure names something that is not.
FailureIsNot == \A k \in Key : req[k].state = "failed" => ~Made(k)

\* A half-created candidate whose owner is dead does not stay one.
OrphanResolves ==
    \A i \in Id : (cand[i].status = "creating" /\ ~Guarded(i))
                  ~> cand[i].status # "creating"
=============================================================================
