---------------------------- MODULE MCWriterLease ----------------------------
(***************************************************************************)
(* Instances of the writer lease for TLC.                                  *)
(***************************************************************************)
EXTENDS WriterLeaseProps, TLC

CONSTANTS g1, g2, r1, r2, c1, c2, t1, t2

TwoGuis == {g1, g2}
TwoCalls == {r1, r2}
TwoTrees == {t1, t2}

\* Calls and trees are interchangeable, and so are the processes.
Alike == Permutations(TwoGuis) \cup Permutations(TwoCalls)
             \cup Permutations(TwoTrees)
=============================================================================
