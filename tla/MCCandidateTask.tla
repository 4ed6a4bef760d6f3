--------------------------- MODULE MCCandidateTask ---------------------------
(* Instances of the candidate ledger for TLC.                               *)
EXTENDS CandidateTaskProps, TLC

CONSTANTS p1, p2, s, f

TwoProcs == {p1, p2}
Alike == Permutations(TwoProcs)
Calls == {<<p, k>> \in Proc \X Key : call[p][k].step # "idle"}
TwoCalls == Cardinality(Calls) <= 2
=============================================================================
