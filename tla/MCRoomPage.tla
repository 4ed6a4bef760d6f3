---------------------------- MODULE MCRoomPage ----------------------------
(* The Room page for TLC. *)
EXTENDS RoomPageProps

CONSTANTS A, B, s1, a1, a2

OnA == [x \in Terminals \cup Approvals |-> IF x = a2 THEN B ELSE A]

\* The address named room A.
MCInit == PageInit /\ room = A
MCSpec == MCInit /\ [][PageNext]_pageVars
MCFairSpec == MCSpec /\ PageFairness

=============================================================================
