----------------------------- MODULE MCRoomInbox -----------------------------
(* Small instances of the inbox for TLC.                                    *)
EXTENDS RoomInboxProps, TLC

CONSTANTS s1, s2, w1, w2

\* Both loops belong to the first seat: the client re-opens room_wait.
MCLoopSeat == [w \in Loops |-> s1]

\* The second seat asks, of the first, and stays; the owner intervenes.
OnlyAsks == /\ s2 \in alive
            /\ \A d \in 1..sent : row[d].source = s2

=============================================================================
