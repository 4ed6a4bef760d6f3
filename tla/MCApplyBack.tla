----------------------------- MODULE MCApplyBack -----------------------------
(* The apply-back for TLC. *)
EXTENDS ApplyBackProps, TLC

CONSTANTS s1, s2, c1, c2

MCPath == 1..2
Alike == Permutations({s1, s2}) \cup Permutations({c1, c2})

\* The first file is in HEAD and on disk; the second may be anything.
MCInit == Init /\ main.head[1] = "old" /\ main.tree[1] # "none"

=============================================================================
