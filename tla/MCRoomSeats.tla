------------------------------ MODULE MCRoomSeats ------------------------------
(***************************************************************************)
(* Small instances of RoomSeats: s1 sends r1 and s2 receives it; the owner *)
(* sends r2.  They start where both have joined and s2 has standby, a      *)
(* state every room comes to; s2 may leave and start again.                *)
(***************************************************************************)
EXTENDS RoomSeatsProps, TLC

CONSTANTS s1, s2, r1, r2, l1, l2

MCFrom == [r \in Requests |-> IF r = r1 THEN s1 ELSE NONE]
MCTo == [r \in Requests |-> s2]

Started == [Here EXCEPT !.in = TRUE]

MCInit ==
    /\ seat = [s \in Seats |-> [Started EXCEPT !.name = IF s = s1 THEN l1 ELSE l2,
                                               !.standby = s = s2]]
    /\ granted = {s2}
    /\ managed = {} /\ ledger = << >> /\ rows = << >> 
    /\ recording = "on" /\ full = FALSE /\ warned = {} /\ muted = {}
    /\ call = [p \in Callers |-> Idle]
    /\ join = {} /\ wait = [s \in Seats |-> "no"] /\ up = Callers
    /\ late = [s \in Seats |-> 0] /\ cut = {} /\ acts = 0

MCSpec == MCInit /\ [][Next]_vars
MCFairSpec == MCSpec /\ Fairness

\* Nobody writes to the sender, so it has no reason to listen; a sender that
\* left does not come back.
SenderOnly == wait[s1] = "no" /\ ~ seat[s1].asked /\ call[s1].step # "ask"

\* Managed agents meet seats here, not messages; with a full ledger, a second
\* line or a sender that is gone the owner decides once.
Bounded ==
    /\ SenderOnly
    /\ managed # {} => ledger = << >>
    /\ full => ledger # << >>
    /\ full \/ Len(ledger) > 1 \/ s1 \notin up => acts < MaxActs
=============================================================================
