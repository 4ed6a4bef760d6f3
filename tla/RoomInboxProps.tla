---------------------------- MODULE RoomInboxProps ----------------------------
(***************************************************************************)
(* What the inbox is for, as invariants, action properties, a refinement   *)
(* and liveness.  The constants and the actions are those of RoomInbox.    *)
(***************************************************************************)
EXTENDS RoomInbox

\* A prepared reply is only ever working, uncertain or committed, and a
\* committed row names the one ledger message that carries the prepared text:
\* the three transactions of reply never leave a receipt without its message.
ReplyRecorded ==
    /\ \A d \in Deliveries :
          /\ row[d].text # NONE =>
                \/ row[d].state \in {"working", "replied"}
                \/ row[d].state = "failed" /\ row[d].reason = "uncertain"
          /\ row[d].state = "replied" =>
                /\ row[d].seq \in DOMAIN ledger
                /\ ledger[row[d].seq] = [d |-> d, text |-> row[d].text]
    /\ \A i, j \in DOMAIN ledger : ledger[i].d = ledger[j].d => i = j

\* Work whose reply reached the ledger is never offered to anybody again and
\* never reported as cancelled, expired or offline.
AnsweredNeverReoffered ==
    \A d \in Deliveries : Committed(d) =>
        \/ row[d].state \in {"working", "replied"}
        \/ row[d].state = "failed" /\ row[d].reason = "uncertain"

\* The owner's cancel and the seat's reply race for the same row: a row is
\* never both asked to stop and holding a prepared reply.
CancelOrReply ==
    \A d \in Deliveries : ~ (row[d].cancel /\ row[d].text # NONE)

\* A seat is held by the last loop its client opened, or by none: a displaced
\* loop that stalled never takes the seat back.
HolderIsNewest ==
    \A s \in Seats : wait[s].loop \in {NONE, opened[s]}

\* No timer takes acknowledged work from the seat that has it: read and working
\* rows only go back to the queue through a terminal state and an owner's retry.
AcknowledgedWorkKept ==
    [][\A d \in Deliveries :
          row[d].state \in {"read", "working"} =>
              row'[d].state \notin {"queued", "delivered", "expired"}]_vars

\* A verdict is final: replied for ever, expired and cancelled until the owner
\* retries, failed until a retry or, if uncertain, until its receipt is found.
VerdictsStand ==
    [][\A d \in Deliveries :
          row[d].state \in Terminal /\ row'[d].state # row[d].state =>
              \/ row[d].state \in {"failed", "cancelled", "expired"}
                   /\ row'[d].state = "queued" /\ ~ Committed(d)
              \/ row[d].reason = "uncertain" /\ row'[d].state = "replied"]_vars

\* A claim goes to the loop the client of the seat opened last: no message is
\* handed to a caller nobody reads any more.
ClaimedByNewest ==
    [][\A w \in Loops :
          loop'[w].step = "return" /\ loop[w].step # "return" =>
              opened[LoopSeat[w]] = w]_vars

\* The inbox implements the exchange: a reply is sealed when it is prepared and
\* given when the ledger has it, whatever the row says meanwhile.
PhaseOf(d) ==
    CASE Committed(d) -> "answered"
      [] ~ Committed(d) /\ row[d].text # NONE -> "sealed"
      [] ~ Committed(d) /\ row[d].text = NONE /\ row[d].state = "none" -> "unsent"
      [] ~ Committed(d) /\ row[d].text = NONE /\ row[d].state = "queued" -> "waiting"
      [] ~ Committed(d) /\ row[d].text = NONE /\ row[d].state \in Held -> "taken"
      [] OTHER -> "closed"

Exchange == INSTANCE RoomExchange WITH
    Requests <- Deliveries,
    phase <- [d \in Deliveries |-> PhaseOf(d)],
    answer <- [d \in Deliveries |-> row[d].text]

ImplementsExchange == Exchange!Spec

-----------------------------------------------------------------------------
(* Liveness.  Time passes, roomView polls, a call that has begun ends, and  *)
(* the event loop of a process serves the timer of each of its wait loops   *)
(* between other calls; nothing is assumed of the agent or the owner.       *)

GuiFinds(d) == row[d].target \notin alive /\ FailDelivery(d)

Fairness ==
    /\ \A d \in Deliveries : WF_vars(Lapse(d)) /\ WF_vars(Age(d)) /\ WF_vars(GuiFinds(d))
    /\ WF_vars(Sweep)
    /\ WF_vars(ExpireStale)
    /\ \A p \in Procs : WF_vars(Continue(p))
    /\ \A w \in Loops : SF_vars(LoopStep(w))

FairSpec == Spec /\ Fairness

\* Work handed to a seat that never acknowledges it does not stay with that
\* claim: the lease lapses and the sweep hands it back.
UnacknowledgedHandedBack ==
    \A d \in Deliveries : \A t \in Tokens :
        (row[d].state = "delivered" /\ row[d].token = t)
            ~> ~ (row[d].state = "delivered" /\ row[d].token = t)

\* Work addressed to a dead seat does not stay open, prepared reply or not.
DeadSeatSettles ==
    \A d \in Deliveries :
        (row[d].state \in Open /\ row[d].target \notin alive) ~> row[d].state \notin Open

\* A loop displaced by a newer one ends by itself.
DisplacedLoopEnds ==
    \A w \in Loops :
        (loop[w].step # "idle" /\ opened[LoopSeat[w]] # w) ~> loop[w].step = "idle"

-----------------------------------------------------------------------------
\* What the documents, the comments and the tests say, and the code does not
\* keep: the README lists where, and the instance that shows it.

\* What DECISIONS.md and the listening note of room_send say: a seat never has
\* more open work than the limit.  retry queues a row without looking at it.
PendingBounded ==
    \A s \in Seats : Cardinality(Pending(row, s)) <= PendingLimit

\* A kinder scheduler still: roomView expires whatever it finds queued again
\* and again.
PolledSpec == FairSpec /\ SF_vars(ExpireStale)

\* What the comment of expireStaleQueued and its test say: work that keeps being
\* picked up and dropped still ages out.  #claim sweeps and hands the row out
\* again in one transaction, so expiry may never see it queued.
StaleWorkExpires ==
    \A d \in Deliveries :
        (d \in aged /\ row[d].state \in {"queued", "delivered"})
            ~> row[d].state \notin {"queued", "delivered"}
=============================================================================
