---------------------------- MODULE RoomSeatsProps ----------------------------
(***************************************************************************)
(* What a room promises about its seats and the messages between them.     *)
(***************************************************************************)
EXTENDS RoomSeats

TypeOK ==
    /\ seat \in [Seats -> Seat]
    /\ managed \subseteq Labels
    /\ ledger \in Seq(Line) /\ rows \in Seq(Delivery)
    /\ recording \in {"on", "off"} /\ full \in BOOLEAN
    /\ warned \subseteq Requests /\ muted \subseteq Requests /\ cut \subseteq Requests
    /\ call \in [Callers -> Call]
    /\ join \subseteq Seats /\ granted \subseteq Seats
    /\ wait \in [Seats -> {"no", "asking", "listening"}]
    /\ up \subseteq Callers
    /\ acts \in 0..MaxActs
    /\ late \in [Seats -> 0..2]

\* What the description of room_send promises: a retry with the same
\* clientRequestId duplicates neither the line nor the delivery, and the
\* delivery is the one the line speaks of, whatever was renamed in between.
SentOnce ==
    /\ \A i, j \in DOMAIN ledger : ledger[i].req = ledger[j].req => i = j
    /\ \A i, j \in DOMAIN rows : rows[i].req = rows[j].req => i = j
    /\ \A i \in DOMAIN rows : \E k \in DOMAIN ledger :
          ledger[k] = [req |-> rows[i].req, by |-> rows[i].by, to |-> rows[i].to]

\* Where the end of a call shows: in the ledger's warning, in a ledger that is
\* full and has refused it, or in the end of its process.
Told == warned \cup cut \cup IF full THEN muted ELSE {}

\* A line that never became a delivery is explained: the call is still at it, or
\* its end shows.  Only a full ledger keeps silent of a send that failed.
LineExplained ==
    \A i \in DOMAIN ledger : LET r == ledger[i].req IN
        \/ \E j \in DOMAIN rows : rows[j].req = r
        \/ \E p \in Callers : call[p].req = r
        \/ r \in Told

\* When its standby ends, by revocation or removal, a seat tries one more claim
\* at most: the loop looks before every claim, but not in one transaction.
OneLateClaim == \A s \in Seats : late[s] <= 1

\* Standby is approved for one stay: a seat that was removed and approved again
\* starts without it.
StandbyIsGranted == \A s \in Seats : seat[s].standby => s \in granted

-----------------------------------------------------------------------------
(* Liveness.  A call that has begun ends or its process dies, a wait loop   *)
(* looks again every 150 or 200 milliseconds whatever else its process      *)
(* does, and the GUI polls the room.  Nothing is assumed of agents or of    *)
(* the owner.                                                               *)

Fairness ==
    /\ \A s \in Seats : WF_vars(CallStep(s)) /\ SF_vars(LoopStep(s))
    /\ \A o \in Owners : WF_vars(OwnerCallStep(o))
                      /\ \A i \in 1..Cardinality(Requests) : SF_vars(FindStranded(o, i))

FairSpec == Spec /\ Fairness

\* Work sent to a seat that left, or to a name it no longer has, does not stay
\* open for ever.
StrandedSettles ==
    \A i \in 1..Cardinality(Requests) :
        (i \in DOMAIN rows /\ Stranded(i)) ~> ~ (i \in DOMAIN rows /\ Stranded(i))

-----------------------------------------------------------------------------
\* What the documents, the comments and the tests say, and the code does not
\* keep: the README lists where, and the instance that shows it.

\* What the comments of renameExternal say: a seat with queued or open work
\* keeps its name, so its work is not failed as unavailable.
RenameSpares ==
    [][\A s \in Seats :
          (Joined(s) /\ Joined(s)' /\ seat'[s].name # seat[s].name) => OpenRowsOf(s) = {}]_vars

\* What the comment of #assertRemovable says: nothing can slip in between the
\* check and the write, so the seat that leaves holds nothing it has taken on.
RemovedHoldsNothing ==
    [][\A s \in Seats :
          (Joined(s) /\ seat'[s].here /\ ~ seat'[s].in) =>
              \A i \in RowsOf(s) : rows[i].state \notin {"taken", "working"}]_vars

\* What the comment of externalJoinWaitState says: only the owner's refusal
\* makes a request go away under a waiting terminal.
RefusalIsTheOwners ==
    [][\A s \in Seats :
          (s \in join /\ seat[s].here /\ seat[s].in) => seat'[s].in \/ s \notin join']_vars
=============================================================================
