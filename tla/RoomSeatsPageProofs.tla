------------------------- MODULE RoomSeatsPageProofs -------------------------
(***************************************************************************)
(* The messages of a room, for every number of seats, owner processes,     *)
(* names, requests, lines and decisions of the owner.                      *)
(*                                                                         *)
(* A request is the business of one process at a time: of its sender, or   *)
(* of the owner's process that has just written its line.  Between the     *)
(* line and the row that process is the only explanation of the line, and  *)
(* it still holds the names the line was written with.                     *)
(***************************************************************************)
EXTENDS RoomSeatsProps, RoomPageProps, SequenceTheorems, FiniteSetTheorems, TLAPS

ALine == [req: Requests, by: Names, to: Names]
ARow == [req: Requests, by: Names, to: Names,
         state: Open \cup {"answered", "closed"}, signed: Names]
ACall == [step: Steps, s: Seats \cup {NONE}, req: Requests \cup {NONE},
          by: Names, to: Names, pending: SUBSET Nat]

Shape ==
    /\ seat \in [Seats -> Seat]
    /\ ledger \in Seq(ALine) /\ rows \in Seq(ARow)
    /\ call \in [Callers -> ACall]
    /\ late \in [Seats -> Nat]

\* The steps of a send, and those between its line and its row.
Middle == {"source again", "target again", "enqueue"}
Sending == Middle \cup {"target", "append", "source after", "target after", "cancel"}

LineOf(c) == [req |-> c.req, by |-> c.by, to |-> c.to]

\* What a process relies on at each step of a send.
Fits(p, c) ==
    /\ p \in Seats /\ c.step \in Sending =>
          c.req \in Requests /\ From[c.req] = p /\ c.s \in Seats
    /\ p \in Owners /\ c.step = "enqueue" =>
          c.req \in Requests /\ From[c.req] = NONE /\ RowOf(c.req) = {}
    /\ c.step \in Middle => \E k \in DOMAIN ledger : ledger[k] = LineOf(c)

Explained(r) ==
    \/ RowOf(r) # {}
    \/ r \in Told
    \/ \E p \in Callers : call[p].step \in Middle /\ call[p].req = r

Sends ==
    /\ SentOnce
    /\ \A p \in Callers : Fits(p, call[p])
    /\ \A i \in DOMAIN ledger : Explained(ledger[i].req)
    /\ \A o, q \in Owners :
          call[o].step = "enqueue" /\ call[q].step = "enqueue" /\ call[o].req = call[q].req
             => o = q

\* A seat that looked and has not claimed yet has claimed nothing late.
Lates == \A s \in Seats :
    /\ late[s] <= 1
    /\ OnStandby(s) \/ call[s].step = "claim" => late[s] = 0

IInv == Shape /\ Sends /\ Lates

-----------------------------------------------------------------------------
(* Sequences, rows, calls and seats.                                       *)

\* A function on 1..n is a sequence.
LEMMA IsSequence ==
    ASSUME NEW S, NEW n \in Nat, NEW f \in [1..n -> S]
    PROVE  f \in Seq(S) /\ Len(f) = n
  OBVIOUS

\* A row stays the row of its request, between the same names.
RowsKept ==
    /\ rows' \in Seq(ARow) /\ Len(rows') = Len(rows)
    /\ \A i \in 1..Len(rows) :
          rows'[i].req = rows[i].req /\ rows'[i].by = rows[i].by /\ rows'[i].to = rows[i].to

\* Moving rows between their states keeps them.
LEMMA MovesKeep ==
    ASSUME Shape, NEW is, NEW from, NEW to \in Open \cup {"answered", "closed"},
           MovesRows(is, from, to)
    PROVE  RowsKept
<1>1. /\ Len(rows) \in Nat /\ DOMAIN rows = 1..Len(rows)
      /\ \A i \in 1..Len(rows) : rows[i] \in ARow
  BY LenProperties DEF Shape
<1>2. ASSUME NEW i \in 1..Len(rows)
      PROVE  /\ rows'[i] \in ARow
             /\ rows'[i].req = rows[i].req /\ rows'[i].by = rows[i].by /\ rows'[i].to = rows[i].to
  <2>1. rows'[i] = IF i \in is /\ rows[i].state \in from THEN [rows[i] EXCEPT !.state = to] ELSE rows[i]
    BY <1>1 DEF MovesRows
  <2>2. rows[i] \in ARow
    BY <1>1
  <2> QED  BY <2>1, <2>2 DEF ARow
<1>3. rows' \in [1..Len(rows) -> ARow]
  BY <1>1, <1>2 DEF MovesRows
<1>4. rows' \in Seq(ARow) /\ Len(rows') = Len(rows)
  BY <1>1, <1>3, IsSequence
<1> QED  BY <1>2, <1>4 DEF RowsKept

\* Rows that are left alone are kept.
LEMMA SameKeeps ==
    ASSUME Shape, rows' = rows
    PROVE  RowsKept
  BY DEF Shape, RowsKept

\* A request has the rows it had.
LEMMA RowOfKept ==
    ASSUME Shape, RowsKept, NEW r
    PROVE  RowOf(r)' = RowOf(r)
<1>1. DOMAIN rows = 1..Len(rows) /\ DOMAIN rows' = 1..Len(rows)
  BY LenProperties DEF Shape, RowsKept
<1> QED  BY <1>1 DEF RowOf, RowsKept

\* Of the seats: none is on standby that was not, or its count begins again.
SeatsKept ==
    /\ seat' \in [Seats -> Seat] /\ late' \in [Seats -> Nat]
    /\ \A s \in Seats :
          \/ late'[s] = 0
          \/ late'[s] = late[s] /\ (OnStandby(s)' => OnStandby(s))

\* One seat is written, and is on standby only if it was.
LEMMA SeatIs ==
    ASSUME Shape, NEW s \in Seats, NEW r \in Seat, seat' = [seat EXCEPT ![s] = r],
           r.here /\ r.in /\ r.standby => OnStandby(s), late' = late
    PROVE  SeatsKept
<1>1. /\ seat' \in [Seats -> Seat] /\ seat'[s] = r
      /\ \A t \in Seats \ {s} : seat'[t] = seat[t]
  BY DEF Shape
<1>2. late' \in [Seats -> Nat] /\ \A t \in Seats : late'[t] = late[t]
  BY DEF Shape
<1>3. ASSUME NEW t \in Seats, OnStandby(t)' PROVE OnStandby(t)
  BY <1>1, <1>3 DEF OnStandby, Joined
<1> QED  BY <1>1, <1>2, <1>3 DEF SeatsKept

\* Seats that are left alone are kept.
LEMMA SeatSame ==
    ASSUME Shape, seat' = seat, late' = late
    PROVE  SeatsKept
  BY DEF Shape, SeatsKept, OnStandby, Joined

\* The same by an UPDATE, which changes nothing of a row that is gone.
LEMMA WriteIs ==
    ASSUME Shape, NEW s \in Seats, NEW r \in Seat, Write(s, r), late' = late,
           r.here /\ r.in /\ r.standby => OnStandby(s) \/ ~ seat[s].here
    PROVE  SeatsKept
<1>1. CASE seat[s].here
  BY <1>1, SeatIs DEF Write
<1>2. CASE ~ seat[s].here
  BY <1>2, SeatSame DEF Write
<1> QED  BY <1>1, <1>2

\* A call that goes to another step, one that ends.
CallIs(p, k) == k \in ACall /\ call' = [call EXCEPT ![p] = k]

\* A call goes to another step with the message it has.
LEMMA GotoIs ==
    ASSUME Shape, NEW p \in Callers, NEW st \in Steps, Goto(p, st)
    PROVE  \E k : /\ CallIs(p, k) /\ k.step = st /\ k.req = call[p].req
                  /\ k.by = call[p].by /\ k.to = call[p].to /\ k.s = call[p].s
<1> DEFINE k == [call[p] EXCEPT !.step = st]
<1>1. call[p] \in ACall
  BY DEF Shape
<1>2. /\ k \in ACall /\ k.step = st /\ k.req = call[p].req
      /\ k.by = call[p].by /\ k.to = call[p].to /\ k.s = call[p].s
  BY <1>1 DEF ACall
<1>3. call' = [call EXCEPT ![p] = k]
  BY DEF Goto, Shape
<1> HIDE DEF k
<1> QED  BY <1>2, <1>3 DEF CallIs

\* The record of no call.
LEMMA IdleIs ==
    Idle \in ACall /\ Idle.step = "idle"
  BY DEF Idle, ACall, Steps, Names

\* A call ends.
LEMMA EndsIs ==
    ASSUME NEW p \in Callers, Ends(p)
    PROVE  CallIs(p, Idle)
  BY IdleIs DEF Ends, CallIs

\* What has shown of ended calls goes on to show while nothing of it is erased.
LEMMA ToldGrows ==
    ASSUME warned \subseteq warned', muted \subseteq muted', cut \subseteq cut', full => full'
    PROVE  Told \subseteq Told'
  BY DEF Told

\* It stands while nothing is said and nobody dies.
LEMMA ToldStands ==
    ASSUME UNCHANGED <<said, cut>>
    PROVE  Told \subseteq Told'
  BY ToldGrows DEF said, gate

\* A warning shows, in the ledger or because the ledger is full.
LEMMA WarningTold ==
    ASSUME NEW p, Warns(p), UNCHANGED <<gate, cut>>
    PROVE  Told \subseteq Told' /\ call[p].req \in Told' /\ Ends(p)
<1>1. full' = full /\ cut' = cut
  BY DEF gate
<1>2. CASE full
  BY <1>1, <1>2, ToldGrows DEF Warns, Told
<1>3. CASE ~ full
  BY <1>1, <1>3, ToldGrows DEF Warns, Told
<1> QED  BY <1>2, <1>3

-----------------------------------------------------------------------------
(* Steps that write no line and no row.                                    *)

\* Outside a send a call relies on nothing.
LEMMA FitsAtRest ==
    ASSUME NEW p, NEW k, k.step \notin Sending
    PROVE  Fits(p, k)
  BY DEF Fits, Sending, Middle

\* What stands when lines and rows do.
LEMMA SendsKept ==
    ASSUME Shape, Sends, ledger' = ledger, RowsKept,
           Told \subseteq Told'
    PROVE  /\ SentOnce'
           /\ \A p, k : Fits(p, k) => Fits(p, k)'
           /\ \A r : RowOf(r)' = RowOf(r)
<1>1. /\ Len(rows) \in Nat /\ DOMAIN rows = 1..Len(rows) /\ DOMAIN rows' = 1..Len(rows)
  BY LenProperties DEF Shape, RowsKept
<1>2. \A r : RowOf(r)' = RowOf(r)
  BY RowOfKept
<1>3. SentOnce'
  BY <1>1 DEF Sends, SentOnce, RowsKept
<1>4. \A p, k : Fits(p, k) => Fits(p, k)'
  BY <1>2 DEF Fits
<1> QED  BY <1>2, <1>3, <1>4

\* One call moves while lines and rows stand: if it leaves the steps between the
\* line and the row, the line is explained otherwise.
LEMMA Calm ==
    ASSUME IInv, SeatsKept, ledger' = ledger, RowsKept,
           Told \subseteq Told',
           NEW p \in Callers, NEW k, CallIs(p, k), Fits(p, k),
           p \in Owners => k.step # "enqueue",
           p \in Seats /\ k.step = "claim" => OnStandby(p),
           call[p].step \in Middle =>
              \/ k.step \in Middle /\ k.req = call[p].req
              \/ call[p].req \in Told'
              \/ RowOf(call[p].req) # {}
    PROVE  IInv'
<1>0. Shape /\ Sends /\ Lates
  BY DEF IInv
<1>1. /\ call' \in [Callers -> ACall] /\ call'[p] = k
      /\ \A q \in Callers \ {p} : call'[q] = call[q]
  BY <1>0 DEF CallIs, Shape
<1>2. Shape'
  BY <1>0, <1>1 DEF Shape, SeatsKept, RowsKept
<1>3. /\ SentOnce'
      /\ \A q, m : Fits(q, m) => Fits(q, m)'
      /\ \A r : RowOf(r)' = RowOf(r)
  BY <1>0, SendsKept
<1>4. ASSUME NEW q \in Callers PROVE Fits(q, call[q])'
  <2>1. Fits(q, call'[q])
    BY <1>0, <1>1 DEF Sends
  <2> QED  BY <1>3, <2>1 DEF Fits
<1>5. ASSUME NEW i \in DOMAIN ledger PROVE Explained(ledger[i].req)'
  <2> DEFINE r == ledger[i].req
  <2>1. CASE RowOf(r) # {} \/ r \in Told
    BY <1>3, <2>1 DEF Explained
  <2>2. ASSUME NEW q \in Callers, call[q].step \in Middle, call[q].req = r
        PROVE  Explained(ledger[i].req)'
    <3>1. CASE q = p
      BY <1>1, <1>3, <2>2, <3>1 DEF Explained
    <3>2. CASE q # p
      BY <1>1, <2>2, <3>2 DEF Explained
    <3> QED  BY <3>1, <3>2
  <2> QED  BY <1>0, <2>1, <2>2 DEF Sends, Explained
<1>6. \A o, q \in Owners :
         call'[o].step = "enqueue" /\ call'[q].step = "enqueue" /\ call'[o].req = call'[q].req
            => o = q
  BY <1>0, <1>1 DEF Sends, Callers
<1>7. Sends'
  BY <1>3, <1>4, <1>5, <1>6 DEF Sends
<1>8. Lates'
  <2> SUFFICES ASSUME NEW s \in Seats
               PROVE  late'[s] <= 1 /\ (OnStandby(s)' \/ call'[s].step = "claim" => late'[s] = 0)
    BY DEF Lates
  <2>1. late'[s] = 0 \/ (late'[s] = late[s] /\ (OnStandby(s)' => OnStandby(s)))
    BY DEF SeatsKept
  <2>2. call'[s].step = "claim" => call[s].step = "claim" \/ OnStandby(s)
    BY <1>1 DEF Callers
  <2> QED  BY <1>0, <2>1, <2>2 DEF Lates
<1> QED  BY <1>2, <1>7, <1>8 DEF IInv

\* The same where no call moves.
LEMMA CallsStill ==
    ASSUME IInv, SeatsKept, ledger' = ledger, RowsKept,
           Told \subseteq Told', call' = call
    PROVE  IInv'
<1>0. Shape /\ Sends /\ Lates
  BY DEF IInv
<1>1. Shape'
  BY <1>0 DEF Shape, SeatsKept, RowsKept
<1>2. /\ SentOnce'
      /\ \A q, m : Fits(q, m) => Fits(q, m)'
      /\ \A r : RowOf(r)' = RowOf(r)
  BY <1>0, SendsKept
<1>3. \A q \in Callers : Fits(q, call[q])'
  <2> SUFFICES ASSUME NEW q \in Callers PROVE Fits(q, call[q])'
    OBVIOUS
  <2>1. Fits(q, call[q])
    BY <1>0 DEF Sends
  <2> QED  BY <1>2, <2>1 DEF Fits
<1>4. \A i \in DOMAIN ledger : Explained(ledger[i].req)'
  BY <1>0, <1>2 DEF Sends, Explained
<1>5. Sends'
  BY <1>0, <1>2, <1>3, <1>4 DEF Sends
<1>6. Lates'
  BY <1>0 DEF Lates, SeatsKept
<1> QED  BY <1>1, <1>5, <1>6 DEF IInv

-----------------------------------------------------------------------------
(* The terminal's side.                                                    *)

Quiet == UNCHANGED <<ledger, rows>> /\ Told \subseteq Told'

\* Only calls and seats move, and no call of a send.
LEMMA QuietStep ==
    ASSUME IInv, SeatsKept, Quiet, NEW p \in Callers, NEW k, CallIs(p, k),
           call[p].step \notin Middle, k.step \notin Sending, p \in Seats /\ k.step = "claim" => OnStandby(p)
    PROVE  IInv'
<1>1. RowsKept
  BY SameKeeps DEF IInv, Quiet
<1>2. Fits(p, k) /\ k.step # "enqueue"
  BY FitsAtRest DEF Sending, Middle
<1> QED  BY <1>1, <1>2, Calm DEF Quiet

\* The same where no call moves.
LEMMA QuietStill ==
    ASSUME IInv, SeatsKept, Quiet, call' = call
    PROVE  IInv'
<1>1. RowsKept
  BY SameKeeps DEF IInv, Quiet
<1> QED  BY <1>1, CallsStill DEF Quiet

\* A terminal goes to a step of its own, or stays.
LEMMA Looking ==
    ASSUME IInv, NEW s \in Seats,
           \/ RequestJoin(s) \/ JoinAnswered(s) \/ JoinTimeout(s) \/ RoomWait(s)
           \/ StandbyAnswered(s) \/ StandbyTimeout(s) \/ WaitTurn(s) \/ WaitTimeout(s)
    PROVE  IInv'
<1>1. Free(s) /\ UNCHANGED <<stores, late, cut>>
  BY DEF RequestJoin, JoinAnswered, JoinTimeout, RoomWait, StandbyAnswered, StandbyTimeout,
         WaitTurn, WaitTimeout, past
<1>2. Quiet /\ SeatsKept
  BY <1>1, SeatSame, ToldStands DEF Quiet, stores, IInv
<1>3. call' = call \/ (\E st \in {"ask", "unask", "want", "unwant"} : Goto(s, st))
      \/ (Goto(s, "claim") /\ OnStandby(s))
  BY DEF RequestJoin, JoinAnswered, JoinTimeout, RoomWait, StandbyAnswered, StandbyTimeout,
         WaitTurn, WaitTimeout
<1>4. CASE call' = call
  BY <1>2, <1>4, QuietStill
<1>5. ASSUME NEW st \in {"ask", "unask", "want", "unwant", "claim"}, Goto(s, st),
             st = "claim" => OnStandby(s)
      PROVE  IInv'
  <2>1. s \in Callers /\ st \in Steps /\ Shape /\ st \notin Sending
    BY DEF Callers, Steps, IInv, Sending, Middle
  <2>2. PICK k : CallIs(s, k) /\ k.step = st
    BY <1>5, <2>1, GotoIs
  <2>3. call[s].step \notin Middle
    BY <1>1 DEF Free, Middle
  <2> QED  BY <1>2, <1>5, <2>1, <2>2, <2>3, QuietStep
<1> QED  BY <1>3, <1>4, <1>5

\* A terminal writes its own row.
LEMMA Writing ==
    ASSUME IInv, NEW s \in Seats,
           \/ WriteJoinRequest(s) \/ WriteJoinCancel(s)
           \/ WriteStandbyRequest(s) \/ WriteStandbyCancel(s)
    PROVE  IInv'
<1>1. /\ call[s].step \in {"ask", "unask", "want", "unwant"} /\ Ends(s)
      /\ UNCHANGED <<ledger, rows, said, late, cut>>
  BY DEF WriteJoinRequest, WriteJoinCancel, WriteStandbyRequest, WriteStandbyCancel, At, past
<1>2. Shape /\ s \in Callers /\ seat[s] \in Seat
  BY DEF IInv, Shape, Callers
<1>3. \/ Write(s, [seat[s] EXCEPT !.asked = TRUE]) \/ Write(s, [seat[s] EXCEPT !.asked = FALSE])
      \/ Write(s, [seat[s] EXCEPT !.wants = TRUE]) \/ Write(s, [seat[s] EXCEPT !.wants = FALSE])
  BY DEF WriteJoinRequest, WriteJoinCancel, WriteStandbyRequest, WriteStandbyCancel
<1>4. PICK r \in Seat : Write(s, r) /\ r.here = seat[s].here /\ r.in = seat[s].in
                        /\ r.standby = seat[s].standby
  <2> DEFINE a == [seat[s] EXCEPT !.asked = TRUE]
             b == [seat[s] EXCEPT !.asked = FALSE]
             c == [seat[s] EXCEPT !.wants = TRUE]
             d == [seat[s] EXCEPT !.wants = FALSE]
  <2>1. /\ a \in Seat /\ a.here = seat[s].here /\ a.in = seat[s].in /\ a.standby = seat[s].standby
        /\ b \in Seat /\ b.here = seat[s].here /\ b.in = seat[s].in /\ b.standby = seat[s].standby
        /\ c \in Seat /\ c.here = seat[s].here /\ c.in = seat[s].in /\ c.standby = seat[s].standby
        /\ d \in Seat /\ d.here = seat[s].here /\ d.in = seat[s].in /\ d.standby = seat[s].standby
    BY <1>2 DEF Seat
  <2>2. Write(s, a) \/ Write(s, b) \/ Write(s, c) \/ Write(s, d)
    BY <1>3
  <2> HIDE DEF a, b, c, d
  <2> QED  BY <2>1, <2>2
<1>5. r.here /\ r.in /\ r.standby => OnStandby(s)
  BY <1>4 DEF OnStandby, Joined
<1>6. SeatsKept
  BY <1>1, <1>2, <1>4, <1>5, WriteIs
<1>7. CallIs(s, Idle) /\ Idle.step \notin Sending /\ Idle.step # "claim"
      /\ call[s].step \notin Middle
  BY <1>1, <1>2, EndsIs, IdleIs DEF Sending, Middle
<1> QED  BY <1>1, <1>2, <1>6, <1>7, ToldStands, QuietStep DEF Quiet

\* Rows move between their states, and the call if there is one ends.
LEMMA RowsMove ==
    ASSUME IInv, RowsKept, UNCHANGED <<seat, ledger, said, late, cut>>,
           \/ call' = call
           \/ \E p \in Callers : CallIs(p, Idle) /\ call[p].step \notin Middle
    PROVE  IInv'
<1>1. SeatsKept /\ Told \subseteq Told'
  BY SeatSame, ToldStands DEF IInv
<1>2. CASE call' = call
  BY <1>1, <1>2, CallsStill
<1>3. ASSUME NEW p \in Callers, CallIs(p, Idle), call[p].step \notin Middle
      PROVE  IInv'
  <2>1. Idle.step = "idle" /\ Idle.step \notin Sending
    BY IdleIs DEF Sending, Middle
  <2>2. Fits(p, Idle)
    BY <2>1, FitsAtRest
  <2> QED  BY <1>1, <1>3, <2>1, <2>2, Calm
<1> QED  BY <1>2, <1>3

\* What a terminal does with the work it has moves rows only.
LEMMA WorkStep ==
    ASSUME IInv, NEW s \in Seats, Ack(s) \/ Reply(s) \/ WriteReply(s) \/ GiveUp(s)
    PROVE  IInv'
<1>0. Shape /\ s \in Callers
  BY DEF IInv, Callers
<1>1. CASE Ack(s) \/ GiveUp(s)
  <2>1. PICK i, from, to : to \in {"working", "closed"} /\ MovesRows({i}, from, to)
    BY <1>1 DEF Ack, GiveUp
  <2>2. RowsKept
    BY <1>0, <2>1, MovesKeep DEF Open
  <2> QED  BY <1>1, <2>2, RowsMove DEF Ack, GiveUp, past
<1>2. CASE Reply(s)
  <2>1. PICK i \in RowsOf(s) :
           call' = [call EXCEPT ![s] = [Idle EXCEPT !.step = "reply", !.by = seat[s].name, !.pending = {i}]]
    BY <1>2 DEF Reply
  <2> DEFINE k == [Idle EXCEPT !.step = "reply", !.by = seat[s].name, !.pending = {i}]
  <2>2. seat[s].name \in Names /\ i \in Nat
    BY <1>0, LenProperties DEF Shape, Seat, RowsOf
  <2>3. k \in ACall /\ k.step = "reply"
    BY <2>2 DEF ACall, Idle, Steps, Names
  <2>4. CallIs(s, k)
    BY <2>1, <2>3 DEF CallIs
  <2> HIDE DEF k
  <2>5. call[s].step \notin Middle /\ k.step \notin Sending /\ k.step # "claim"
    BY <1>2, <2>3 DEF Reply, Free, Middle, Sending
  <2>6. Quiet /\ SeatsKept
    BY <1>0, <1>2, SeatSame, ToldStands DEF Reply, Quiet, stores, past
  <2> QED  BY <1>0, <2>4, <2>5, <2>6, QuietStep
<1>3. CASE WriteReply(s)
  <2>1. /\ Len(rows) \in Nat /\ DOMAIN rows = 1..Len(rows)
        /\ \A i \in 1..Len(rows) : rows[i] \in ARow
        /\ call[s].by \in Names
    BY <1>0, LenProperties DEF Shape, ACall
  <2>2. ASSUME NEW i \in 1..Len(rows)
        PROVE  /\ rows'[i] \in ARow
               /\ rows'[i].req = rows[i].req /\ rows'[i].by = rows[i].by /\ rows'[i].to = rows[i].to
    <3> DEFINE a == [rows[i] EXCEPT !.state = "answered", !.signed = call[s].by]
    <3>1. rows'[i] = a \/ rows'[i] = rows[i]
      BY <1>3, <2>1 DEF WriteReply
    <3>2. rows[i] \in ARow
      BY <2>1
    <3>3. a \in ARow /\ a.req = rows[i].req /\ a.by = rows[i].by /\ a.to = rows[i].to
      BY <2>1, <3>2 DEF ARow
    <3> HIDE DEF a
    <3> QED  BY <3>1, <3>2, <3>3
  <2>3. rows' \in [1..Len(rows) -> ARow]
    BY <1>3, <2>1, <2>2 DEF WriteReply
  <2>4. RowsKept
    BY <2>1, <2>2, <2>3, IsSequence DEF RowsKept
  <2>5. CallIs(s, Idle) /\ call[s].step \notin Middle
    BY <1>0, <1>3, EndsIs DEF WriteReply, At, Middle
  <2> QED  BY <1>0, <1>3, <2>4, <2>5, RowsMove DEF WriteReply, past
<1> QED  BY <1>1, <1>2, <1>3

\* A claim is late when the standby it looked for has ended.
LEMMA ClaimStep ==
    ASSUME IInv, NEW s \in Seats, Claim(s)
    PROVE  IInv'
<1>0. Shape /\ Sends /\ Lates /\ s \in Callers
  BY DEF IInv, Callers
<1>1. /\ call[s].step = "claim" /\ late[s] = 0 /\ UNCHANGED <<seat, ledger, said, cut>>
      /\ Ends(s) /\ Told \subseteq Told' /\ CallIs(s, Idle) /\ Idle.step = "idle"
  BY <1>0, EndsIs, IdleIs, ToldStands DEF Claim, At, Lates
<1>2. RowsKept
  BY <1>0, MovesKeep DEF Claim, Open
<1>3. /\ late' \in [Seats -> Nat] /\ late'[s] <= 1 /\ (OnStandby(s) => late'[s] = 0)
      /\ \A t \in Seats \ {s} : late'[t] = late[t]
  BY <1>0, <1>1 DEF Claim, Shape
<1>4. /\ call' \in [Callers -> ACall] /\ call'[s] = Idle
      /\ \A q \in Callers \ {s} : call'[q] = call[q]
  BY <1>0, <1>1 DEF CallIs, Shape
<1>5. Shape'
  BY <1>0, <1>1, <1>2, <1>3, <1>4 DEF Shape, RowsKept
<1>6. /\ SentOnce'
      /\ \A q, m : Fits(q, m) => Fits(q, m)'
      /\ \A r : RowOf(r)' = RowOf(r)
  BY <1>0, <1>1, <1>2, SendsKept
<1>7. \A q \in Callers : Fits(q, call[q])'
  <2> SUFFICES ASSUME NEW q \in Callers PROVE Fits(q, call[q])'
    OBVIOUS
  <2>1. Fits(q, call'[q])
    BY <1>0, <1>1, <1>4, FitsAtRest DEF Sends, Sending, Middle
  <2> QED  BY <1>6, <2>1 DEF Fits
<1>8. \A i \in DOMAIN ledger : Explained(ledger[i].req)'
  BY <1>0, <1>1, <1>4, <1>6 DEF Sends, Explained, Middle
<1>9. Sends'
  BY <1>0, <1>1, <1>4, <1>6, <1>7, <1>8 DEF Sends, Callers
<1>10. Lates'
  BY <1>0, <1>1, <1>3, <1>4 DEF Lates, OnStandby, Joined, Callers
<1> QED  BY <1>5, <1>9, <1>10 DEF IInv

-----------------------------------------------------------------------------
(* The two stores of a send.                                               *)

\* A line is written under a key that has none.
LEMMA LineGrows ==
    ASSUME IInv, SeatsKept, rows' = rows, Told \subseteq Told',
           NEW p \in Callers, NEW k, CallIs(p, k), call[p].step \notin Middle,
           k.step \in Middle, k.req \in Requests, Has(k.req) = {},
           ledger' = Append(ledger, LineOf(k)),
           p \in Seats => From[k.req] = p /\ k.s \in Seats,
           p \in Owners => k.step = "enqueue" /\ From[k.req] = NONE
    PROVE  IInv'
<1>0. Shape /\ Sends /\ Lates
  BY DEF IInv
<1>1. /\ call' \in [Callers -> ACall] /\ call'[p] = k
      /\ \A q \in Callers \ {p} : call'[q] = call[q]
  BY <1>0 DEF CallIs, Shape
<1>2. /\ Len(ledger) \in Nat /\ DOMAIN ledger = 1..Len(ledger)
      /\ DOMAIN rows = 1..Len(rows)
  BY <1>0, LenProperties DEF Shape
<1>3. LineOf(k) \in ALine /\ LineOf(k).req = k.req
  BY DEF CallIs, ACall, ALine, LineOf
<1>4. /\ ledger' \in Seq(ALine) /\ Len(ledger') = Len(ledger) + 1
      /\ \A i \in 1..Len(ledger) : ledger'[i] = ledger[i]
      /\ ledger'[Len(ledger) + 1] = LineOf(k)
      /\ DOMAIN ledger' = 1..(Len(ledger) + 1)
  BY <1>0, <1>3, AppendProperties, LenProperties DEF Shape
<1>5. Shape'
  BY <1>0, <1>1, <1>4 DEF Shape, SeatsKept
<1>6. \A i \in 1..Len(ledger) : ledger[i].req # k.req
  BY <1>2 DEF Has
<1>7. RowOf(k.req) = {} /\ \A r : RowOf(r)' = RowOf(r)
  <2>1. ASSUME NEW i \in DOMAIN rows, rows[i].req = k.req PROVE FALSE
    <3>1. PICK j \in DOMAIN ledger :
             ledger[j] = [req |-> rows[i].req, by |-> rows[i].by, to |-> rows[i].to]
      BY <1>0 DEF Sends, SentOnce
    <3>2. ledger[j].req = k.req
      BY <2>1, <3>1
    <3> QED  BY <1>2, <1>6, <3>1, <3>2
  <2> QED  BY <2>1 DEF RowOf
<1>8. SentOnce'
  <2>1. \A i, j \in DOMAIN ledger' : ledger'[i].req = ledger'[j].req => i = j
    BY <1>0, <1>2, <1>3, <1>4, <1>6 DEF Sends, SentOnce
  <2>2. \A i \in DOMAIN rows : \E j \in DOMAIN ledger' :
           ledger'[j] = [req |-> rows[i].req, by |-> rows[i].by, to |-> rows[i].to]
    BY <1>0, <1>2, <1>4 DEF Sends, SentOnce
  <2> QED  BY <1>0, <2>1, <2>2 DEF Sends, SentOnce
<1>9. ASSUME NEW q \in Callers, call[q].step \in Middle PROVE call[q].req # k.req
  <2>1. PICK j \in DOMAIN ledger : ledger[j] = LineOf(call[q])
    BY <1>0, <1>9 DEF Sends, Fits
  <2> QED  BY <1>2, <1>6, <2>1 DEF LineOf
<1>10. ASSUME NEW q \in Callers PROVE Fits(q, call[q])'
  <2>1. CASE q = p
    <3>1. Len(ledger) + 1 \in DOMAIN ledger' /\ ledger'[Len(ledger) + 1] = LineOf(k)
      BY <1>2, <1>4
    <3> QED  BY <1>1, <1>7, <2>1, <3>1 DEF Fits
  <2>2. CASE q # p
    <3>1. Fits(q, call[q]) /\ call'[q] = call[q]
      BY <1>0, <1>1, <2>2 DEF Sends
    <3>2. call[q].step \in Middle => \E j \in DOMAIN ledger' : ledger'[j] = LineOf(call[q])
      BY <1>2, <1>4, <3>1 DEF Fits
    <3> QED  BY <1>7, <3>1, <3>2 DEF Fits
  <2> QED  BY <2>1, <2>2
<1>11. ASSUME NEW i \in DOMAIN ledger' PROVE Explained(ledger[i].req)'
  <2>1. CASE i = Len(ledger) + 1
    BY <1>1, <1>3, <1>4, <2>1 DEF Explained
  <2>2. CASE i \in 1..Len(ledger)
    <3>1. Explained(ledger[i].req) /\ ledger'[i] = ledger[i]
      BY <1>0, <1>2, <1>4, <2>2 DEF Sends
    <3> QED  BY <1>1, <1>7, <3>1 DEF Explained
  <2> QED  BY <1>2, <1>4, <2>1, <2>2
<1>12. \A o, q \in Owners :
          call'[o].step = "enqueue" /\ call'[q].step = "enqueue" /\ call'[o].req = call'[q].req
             => o = q
  <2> SUFFICES ASSUME NEW o \in Owners, NEW q \in Owners, call'[o].step = "enqueue",
                      call'[q].step = "enqueue", call'[o].req = call'[q].req, o # q
               PROVE  FALSE
    OBVIOUS
  <2>1. o \in Callers /\ q \in Callers /\ "enqueue" \in Middle
    BY DEF Callers, Middle
  <2>2. CASE o = p
    BY <1>1, <1>9, <2>1, <2>2
  <2>3. CASE q = p
    BY <1>1, <1>9, <2>1, <2>3
  <2>4. CASE o # p /\ q # p
    BY <1>0, <1>1, <2>1, <2>4 DEF Sends
  <2> QED  BY <2>2, <2>3, <2>4
<1>13. Sends'
  BY <1>8, <1>10, <1>11, <1>12 DEF Sends
<1>14. Lates'
  <2> SUFFICES ASSUME NEW s \in Seats
               PROVE  late'[s] <= 1 /\ (OnStandby(s)' \/ call'[s].step = "claim" => late'[s] = 0)
    BY DEF Lates
  <2>1. late'[s] = 0 \/ (late'[s] = late[s] /\ (OnStandby(s)' => OnStandby(s)))
    BY DEF SeatsKept
  <2>2. call'[s].step = "claim" => call[s].step = "claim"
    BY <1>1 DEF Callers, Middle
  <2> QED  BY <1>0, <2>1, <2>2 DEF Lates
<1> QED  BY <1>5, <1>13, <1>14 DEF IInv

\* The row of a request that has none, between the names of its line.
LEMMA RowGrows ==
    ASSUME IInv, SeatsKept, ledger' = ledger, Told \subseteq Told',
           NEW p \in Callers, NEW k, CallIs(p, k), call[p].step = "enqueue",
           k.step \notin Middle, p \in Seats => Fits(p, k), k.step # "claim",
           rows' = rows \o <<NewRow(p)>>, RowOf(call[p].req) = {},
           call[p].req \in Requests
    PROVE  IInv'
<1>0. Shape /\ Sends /\ Lates
  BY DEF IInv
<1>1. /\ call' \in [Callers -> ACall] /\ call'[p] = k
      /\ \A q \in Callers \ {p} : call'[q] = call[q]
  BY <1>0 DEF CallIs, Shape
<1>2. /\ Len(rows) \in Nat /\ DOMAIN rows = 1..Len(rows)
  BY <1>0, LenProperties DEF Shape
<1> DEFINE w == NewRow(p)
           r == call[p].req
<1>3. w \in ARow /\ w.req = r /\ w.by = call[p].by /\ w.to = call[p].to
  <2>1. call[p] \in ACall
    BY <1>0 DEF Shape
  <2> QED  BY <2>1 DEF NewRow, ACall, ARow, Open, Names
<1>4. rows' = Append(rows, w)
  BY <1>0, <1>3, AppendIsConcat DEF Shape
<1> HIDE DEF w
<1>5. /\ rows' \in Seq(ARow) /\ Len(rows') = Len(rows) + 1
      /\ \A i \in 1..Len(rows) : rows'[i] = rows[i]
      /\ rows'[Len(rows) + 1] = w
      /\ DOMAIN rows' = 1..(Len(rows) + 1)
  BY <1>0, <1>3, <1>4, AppendProperties, LenProperties DEF Shape
<1>6. Shape'
  BY <1>0, <1>1, <1>5 DEF Shape, SeatsKept
<1>7. \A i \in 1..Len(rows) : rows[i].req # r
  BY <1>2 DEF RowOf
<1>8. \A m : m # r => RowOf(m)' = RowOf(m)
  BY <1>2, <1>3, <1>5 DEF RowOf
<1>9. \A m : RowOf(m) # {} => RowOf(m)' # {}
  BY <1>8
<1>11. SentOnce'
  <2>1. \A i, j \in DOMAIN rows' : rows'[i].req = rows'[j].req => i = j
    BY <1>0, <1>2, <1>3, <1>5, <1>7 DEF Sends, SentOnce
  <2>2. PICK j \in DOMAIN ledger : ledger[j] = LineOf(call[p])
    BY <1>0 DEF Sends, Fits, Middle
  <2>3. ledger[j] = [req |-> w.req, by |-> w.by, to |-> w.to]
    BY <1>3, <2>2 DEF LineOf
  <2>4. \A i \in DOMAIN rows' : \E m \in DOMAIN ledger :
           ledger[m] = [req |-> rows'[i].req, by |-> rows'[i].by, to |-> rows'[i].to]
    BY <1>0, <1>2, <1>5, <2>3 DEF Sends, SentOnce
  <2> QED  BY <1>0, <2>1, <2>4 DEF Sends, SentOnce
<1>12. ASSUME NEW q \in Callers PROVE Fits(q, call[q])'
  <2>1. CASE q = p
    BY <1>1, <2>1 DEF Fits, Middle
  <2>2. CASE q # p
    <3>1. Fits(q, call[q]) /\ call'[q] = call[q] /\ Fits(p, call[p])
      BY <1>0, <1>1, <2>2 DEF Sends
    <3>2. q \in Owners /\ call[q].step = "enqueue" => call[q].req # r
      <4>1. CASE p \in Owners
        BY <1>0, <2>2, <4>1 DEF Sends
      <4>2. CASE p \in Seats
        BY <3>1, <4>2, SeatsAssumption DEF Fits, Sending, Middle
      <4> QED  BY <4>1, <4>2 DEF Callers
    <3> QED  BY <1>8, <3>1, <3>2 DEF Fits
  <2> QED  BY <2>1, <2>2
<1>13. ASSUME NEW i \in DOMAIN ledger PROVE Explained(ledger[i].req)'
  <2>1. Explained(ledger[i].req)
    BY <1>0, <1>13 DEF Sends
  <2>2. CASE ledger[i].req = call[p].req
    <3>1. \A m : m = call[p].req => RowOf(m)' # {}
      <4>1. Len(rows) + 1 \in DOMAIN rows' /\ rows'[Len(rows) + 1].req = r
        BY <1>2, <1>3, <1>5
      <4> QED  BY <4>1 DEF RowOf
    <3> QED  BY <2>2, <3>1 DEF Explained
  <2>3. CASE ledger[i].req # call[p].req
    BY <1>1, <1>8, <2>1, <2>3 DEF Explained
  <2> QED  BY <2>2, <2>3
<1>14. \A o, q \in Owners :
          call'[o].step = "enqueue" /\ call'[q].step = "enqueue" /\ call'[o].req = call'[q].req
             => o = q
  BY <1>0, <1>1 DEF Sends, Callers, Middle
<1>15. Sends'
  BY <1>11, <1>12, <1>13, <1>14 DEF Sends
<1>16. Lates'
  BY <1>0, <1>1 DEF Lates, SeatsKept, Callers
<1> QED  BY <1>6, <1>15, <1>16 DEF IInv

-----------------------------------------------------------------------------
(* A send, step by step.                                                   *)

\* What a terminal at a step of a send has by the invariant.
LEMMA AtSend ==
    ASSUME IInv, NEW s \in Seats, call[s].step \in Sending
    PROVE  /\ Shape /\ Sends /\ s \in Callers /\ s \notin Owners
           /\ call[s] \in ACall /\ call[s].req \in Requests /\ From[call[s].req] = s /\ call[s].s \in Seats
           /\ Fits(s, call[s])
  BY SeatsAssumption DEF IInv, Shape, Sends, Fits, Callers

\* A seat that sends, and stays on its way or ends with a warning or without a
\* line to explain.
LEMMA SendCalm ==
    ASSUME IInv, NEW s \in Seats, NEW k, CallIs(s, k), Fits(s, k), k.step # "claim",
           UNCHANGED <<seat, ledger, late>>, RowsKept, Told \subseteq Told',
           call[s].step \in Middle =>
              \/ k.step \in Middle /\ k.req = call[s].req
              \/ call[s].req \in Told'
              \/ RowOf(call[s].req) # {}
    PROVE  IInv'
<1>1. SeatsKept /\ s \in Callers /\ s \notin Owners
  BY SeatSame, SeatsAssumption DEF IInv, Callers
<1> QED  BY <1>1, Calm

\* A send goes on to its next step with the same message.
LEMMA SendGoes ==
    ASSUME IInv, NEW s \in Seats, call[s].step \in Sending, NEW st \in Sending, Goto(s, st),
           st \in Middle => \E j \in DOMAIN ledger : ledger[j] = LineOf(call[s])
    PROVE  \E k : /\ CallIs(s, k) /\ Fits(s, k) /\ k.step = st
                  /\ k.req = call[s].req
<1>1. /\ Shape /\ s \in Callers /\ s \notin Owners
      /\ call[s].req \in Requests /\ From[call[s].req] = s /\ call[s].s \in Seats
  BY AtSend
<1>2. st \in Steps
  BY DEF Sending, Middle, Steps
<1>3. PICK k : /\ CallIs(s, k) /\ k.step = st /\ k.req = call[s].req
               /\ k.by = call[s].by /\ k.to = call[s].to /\ k.s = call[s].s
  BY <1>1, <1>2, GotoIs
<1>4. Fits(s, k)
  BY <1>1, <1>3 DEF Fits, LineOf
<1> QED  BY <1>3, <1>4

\* The call ends, and what it has written so far is explained.
LEMMA SendEnds ==
    ASSUME IInv, NEW s \in Seats, Ends(s), UNCHANGED <<seat, ledger, late>>,
           RowsKept, Told \subseteq Told',
           call[s].step \in Middle => call[s].req \in Told'
    PROVE  IInv'
<1>1. CallIs(s, Idle) /\ Idle.step = "idle" /\ Idle.step \notin Sending
  BY EndsIs, IdleIs DEF Callers, Sending, Middle
<1>2. Fits(s, Idle)
  BY <1>1, FitsAtRest
<1> QED  BY <1>1, <1>2, SendCalm

\* A send begins with the name its seat has by now.
LEMMA SendBegins ==
    ASSUME IInv, NEW s \in Seats, NEW r \in Requests, Send(s, r)
    PROVE  IInv'
<1> DEFINE k == [Idle EXCEPT !.step = "target", !.req = r, !.s = To[r], !.by = seat[s].name]
<1>1. Shape /\ seat[s].name \in Names /\ To[r] \in Seats
  BY SeatsAssumption DEF IInv, Shape, Seat
<1>2. k \in ACall /\ k.step = "target" /\ k.req = r /\ k.s \in Seats
  BY <1>1 DEF ACall, Idle, Steps, Names
<1>3. CallIs(s, k) /\ From[r] = s /\ call[s].step = "idle"
  BY <1>2 DEF Send, CallIs, Free
<1> HIDE DEF k
<1>4. Fits(s, k) /\ call[s].step \notin Middle
  BY <1>2, <1>3, SeatsAssumption DEF Fits, Middle
<1>5. UNCHANGED <<seat, ledger, late, rows>> /\ Told \subseteq Told'
  BY ToldStands DEF Send, stores, past
<1> QED  BY <1>1, <1>2, <1>3, <1>4, <1>5, SameKeeps, SendCalm

\* The target must be on standby; its name is the one the line will say.
LEMMA SendTargetStep ==
    ASSUME IInv, NEW s \in Seats, SendTarget(s)
    PROVE  IInv'
<1>1. call[s].step = "target" /\ UNCHANGED <<seat, ledger, late, rows>>
      /\ Told \subseteq Told'
  BY ToldStands DEF SendTarget, At, stores, past
<1>2. /\ Shape /\ call[s] \in ACall /\ call[s].req \in Requests /\ From[call[s].req] = s /\ call[s].s \in Seats
      /\ s \notin Owners /\ call[s].step \notin Middle
  BY <1>1, AtSend DEF Sending, Middle
<1>3. CASE Ends(s)
  BY <1>1, <1>2, <1>3, SameKeeps, SendEnds
<1>4. CASE OnStandby(call[s].s)
           /\ call' = [call EXCEPT ![s].step = "append", ![s].to = seat[call[s].s].name]
  <2> DEFINE k == [call[s] EXCEPT !.step = "append", !.to = seat[call[s].s].name]
  <2>1. seat[call[s].s].name \in Names
    BY <1>2 DEF Shape, Seat
  <2>2. k \in ACall /\ k.step = "append" /\ k.req = call[s].req /\ k.s = call[s].s
    BY <1>2, <2>1 DEF ACall, Steps
  <2>3. CallIs(s, k)
    BY <1>2, <1>4, <2>2 DEF CallIs, Shape
  <2> HIDE DEF k
  <2>4. Fits(s, k)
    BY <1>2, <2>2 DEF Fits, Middle
  <2> QED  BY <1>1, <1>2, <2>2, <2>3, <2>4, SameKeeps, SendCalm
<1> QED  BY <1>3, <1>4 DEF SendTarget

\* The line under the client's key: new, the same again, or another one's.
LEMMA AppendStep ==
    ASSUME IInv, NEW s \in Seats, AppendLine(s)
    PROVE  IInv'
<1> DEFINE c == call[s]
<1>1. call[s].step = "append" /\ UNCHANGED <<seat, late, rows>>
      /\ Told \subseteq Told'
  BY ToldStands DEF AppendLine, At, past
<1>2. /\ Shape /\ c \in ACall /\ c.req \in Requests /\ From[c.req] = s /\ s \in Callers /\ c.s \in Seats
      /\ s \notin Owners /\ c.step \notin Middle
  BY <1>1, AtSend DEF Sending, Middle
<1>3. CASE /\ Has(c.req) = {} /\ ledger' = Append(ledger, LineOf(c)) /\ Goto(s, "source again")
  <2>1. "source again" \in Steps
    BY DEF Steps
  <2>2. PICK k : /\ CallIs(s, k) /\ k.step = "source again" /\ k.req = call[s].req
                 /\ k.by = call[s].by /\ k.to = call[s].to /\ k.s = call[s].s
    BY <1>2, <1>3, <2>1, GotoIs
  <2>3. LineOf(k) = LineOf(c) /\ k.step \in Middle
    BY <2>2 DEF LineOf, Middle
  <2>4. SeatsKept
    BY <1>1, <1>2, SeatSame
  <2> QED  BY <1>1, <1>2, <1>3, <2>2, <2>3, <2>4, LineGrows
<1>4. CASE /\ Has(c.req) # {} /\ ledger' = ledger
           /\ \A i \in Has(c.req) : ledger[i] = LineOf(c)
           /\ Goto(s, "source again")
  <2>1. \E j \in DOMAIN ledger : ledger[j] = LineOf(c)
    BY <1>4 DEF Has
  <2>2. "source again" \in Sending /\ c.step \in Sending /\ "source again" # "claim"
    BY <1>1 DEF Sending, Middle
  <2>3. PICK k : CallIs(s, k) /\ Fits(s, k) /\ k.step = "source again" /\ k.req = c.req
    BY <1>4, <2>1, <2>2, SendGoes
  <2> QED  BY <1>1, <1>2, <1>4, <2>3, SameKeeps, SendCalm
<1>5. CASE ledger' = ledger /\ Ends(s)
  BY <1>1, <1>2, <1>5, SameKeeps, SendEnds
<1> QED  BY <1>3, <1>4, <1>5 DEF AppendLine, LineOf

\* The looks before and after the row, and the withdrawal.
LEMMA LookAgain ==
    ASSUME IInv, NEW s \in Seats, SourceAgain(s) \/ TargetAgain(s) \/ SourceAfter(s)
    PROVE  IInv'
<1>1. /\ call[s].step \in {"source again", "target again", "source after"}
      /\ UNCHANGED <<seat, ledger, late, rows, gate, cut>>
  BY DEF SourceAgain, TargetAgain, SourceAfter, At, past, stores, said
<1>2. Shape /\ Fits(s, call[s]) /\ call[s].step \in Sending
  BY <1>1, AtSend DEF Sending, Middle
<1>3. CASE Warns(s)
  BY <1>1, <1>2, <1>3, SameKeeps, WarningTold, SendEnds
<1>4. ASSUME NEW st \in {"target again", "enqueue", "target after", "cancel"}, Goto(s, st),
             Silent,
             call[s].step \in Middle <=> st \in {"target again", "enqueue"}
      PROVE  IInv'
  <2>1. st \in Sending /\ (st \in Middle <=> call[s].step \in Middle) /\ st # "claim"
    BY <1>4 DEF Sending, Middle
  <2>2. st \in Middle => \E j \in DOMAIN ledger : ledger[j] = LineOf(call[s])
    BY <1>2, <2>1 DEF Fits
  <2>3. PICK k : CallIs(s, k) /\ Fits(s, k) /\ k.step = st /\ k.req = call[s].req
    BY <1>2, <1>4, <2>1, <2>2, SendGoes
  <2>4. Told \subseteq Told'
    BY <1>1, <1>4, ToldStands DEF Silent, said
  <2> QED  BY <1>1, <1>2, <1>4, <2>1, <2>3, <2>4, SameKeeps, SendCalm
<1>5. CASE SourceAgain(s)
  BY <1>3, <1>4, <1>5 DEF SourceAgain, At, Middle
<1>6. CASE TargetAgain(s)
  BY <1>3, <1>4, <1>6 DEF TargetAgain, At, Middle
<1>7. CASE SourceAfter(s)
  BY <1>4, <1>7 DEF SourceAfter, At, Middle, stores, said, Silent
<1> QED  BY <1>5, <1>6, <1>7

\* After the row: the last look and the withdrawal.
LEMMA AfterSteps ==
    ASSUME IInv, NEW s \in Seats, CancelSent(s) \/ TargetAfter(s)
    PROVE  IInv'
<1>1. /\ call[s].step \in {"cancel", "target after"}
      /\ UNCHANGED <<seat, ledger, late, cut, gate>>
  BY DEF CancelSent, TargetAfter, At, past, stores, said
<1>2. /\ Shape /\ call[s].step \notin Middle /\ s \in Callers /\ call[s] \in ACall
      /\ call[s].req \in Requests
  BY <1>1, AtSend DEF Sending, Middle
<1>3. CASE CancelSent(s)
  <2>1. RowsKept
    BY <1>2, <1>3, MovesKeep DEF CancelSent, Open
  <2> QED  BY <1>1, <1>2, <1>3, <2>1, WarningTold, SendEnds DEF CancelSent
<1>4. CASE TargetAfter(s)
  <2>1. rows' = rows /\ Told \subseteq Told'
    BY <1>1, <1>4, ToldStands DEF TargetAfter, stores
  <2>2. CASE Ends(s)
    BY <1>1, <1>2, <2>1, <2>2, SameKeeps, SendEnds
  <2>3. CASE call' = [call EXCEPT ![s].step = "fail", ![s].pending = RowOf(call[s].req)]
    <3> DEFINE is == RowOf(call[s].req)
               k == [call[s] EXCEPT !.step = "fail", !.pending = is]
    <3>1. is \in SUBSET Nat
      BY <1>2, LenProperties DEF Shape, RowOf
    <3>2. CallIs(s, k) /\ k.step = "fail"
      <4> HIDE DEF is
      <4>1. k \in ACall /\ k.step = "fail"
        BY <1>2, <3>1 DEF ACall, Steps
      <4>2. call' = [call EXCEPT ![s] = k]
        BY <1>2, <2>3 DEF Shape, is
      <4> QED  BY <4>1, <4>2 DEF CallIs
    <3> HIDE DEF k
    <3>3. Fits(s, k)
      BY <3>2, FitsAtRest DEF Sending, Middle
    <3> QED  BY <1>1, <1>2, <2>1, <3>2, <3>3, SameKeeps, SendCalm
  <2> QED  BY <1>4, <2>2, <2>3 DEF TargetAfter
<1> QED  BY <1>3, <1>4

\* The row of a request that has one stays; a new one has the names of the line.
LEMMA EnqueueStep ==
    ASSUME IInv, NEW s \in Seats, Enqueue(s)
    PROVE  IInv'
<1>1. call[s].step = "enqueue" /\ UNCHANGED <<seat, ledger, late, cut, gate>>
  BY DEF Enqueue, At, past
<1>2. /\ Shape /\ s \in Callers /\ s \notin Owners /\ call[s].req \in Requests
      /\ From[call[s].req] = s /\ SeatsKept /\ call[s].step \in Sending
  BY <1>1, AtSend, SeatSame DEF Sending, Middle
<1> DEFINE found == RowOf(call[s].req)
<1>3. /\ Told \subseteq Told'
      /\ Goto(s, "source after") \/ (Ends(s) /\ call[s].req \in Told')
  <2>1. CASE Warns(s)
    BY <1>1, <2>1, WarningTold
  <2>2. CASE Goto(s, "source after") /\ Silent
    BY <1>1, <2>2, ToldStands DEF Silent, said
  <2> QED  BY <2>1, <2>2 DEF Enqueue
<1>4. PICK k : /\ CallIs(s, k) /\ Fits(s, k) /\ k.step \in {"source after", "idle"}
  <2>1. CASE Ends(s)
    <3>1. CallIs(s, Idle) /\ Idle.step = "idle"
      BY <1>2, <2>1, EndsIs, IdleIs
    <3>2. Fits(s, Idle)
      BY <3>1, FitsAtRest DEF Sending, Middle
    <3> QED  BY <3>1, <3>2
  <2>2. CASE Goto(s, "source after")
    <3>1. "source after" \in Sending /\ "source after" \notin Middle
      BY DEF Sending, Middle
    <3> QED  BY <1>2, <2>2, <3>1, SendGoes
  <2> QED  BY <1>3, <2>1, <2>2
<1>5. k.step \notin Middle /\ k.step # "claim"
  BY <1>4 DEF Middle
<1>6. CASE found = {} /\ rows' = rows \o <<NewRow(s)>>
  BY <1>1, <1>2, <1>3, <1>4, <1>5, <1>6, RowGrows
<1>7. CASE found # {} /\ rows' = rows
  BY <1>1, <1>2, <1>3, <1>4, <1>5, <1>7, SameKeeps, SendCalm
<1>8. CASE found = {} /\ rows' = rows
  <2>1. Warns(s)
    <3>1. rows # rows \o <<NewRow(s)>>
      BY <1>2 DEF Shape
    <3> QED  BY <1>8, <3>1 DEF Enqueue
  <2>2. Ends(s) /\ call[s].req \in Told'
    BY <1>1, <2>1, WarningTold
  <2> QED  BY <1>1, <1>2, <1>3, <1>8, <2>2, SameKeeps, SendEnds
<1> QED  BY <1>6, <1>7, <1>8 DEF Enqueue

\* One row of those a call has found is failed; the last one ends the call.
LEMMA FailStep ==
    ASSUME IInv, NEW p \in Callers, FailRow(p)
    PROVE  IInv'
<1>0. Shape /\ call[p].step = "fail" /\ call[p] \in ACall
  BY DEF IInv, Shape, FailRow, At
<1>1. PICK i \in call[p].pending :
         /\ MovesRows({i}, Open, "closed")
         /\ \/ call' = [call EXCEPT ![p].pending = @ \ {i}] /\ Silent
            \/ Ends(p) /\ Silent
            \/ Warns(p)
  BY DEF FailRow
<1>2. RowsKept /\ SeatsKept /\ UNCHANGED <<ledger, cut, gate>>
  BY <1>0, <1>1, MovesKeep, SeatSame DEF Open, FailRow, past
<1>3. PICK k : CallIs(p, k) /\ k.step \in {"fail", "idle"}
  <2> DEFINE m == [call[p] EXCEPT !.pending = @ \ {i}]
  <2>1. m \in ACall /\ m.step = "fail"
    BY <1>0 DEF ACall
  <2>2. CASE call' = [call EXCEPT ![p].pending = @ \ {i}]
    <3>1. call' = [call EXCEPT ![p] = m]
      BY <1>0, <2>2 DEF Shape
    <3> HIDE DEF m
    <3> QED  BY <2>1, <3>1 DEF CallIs
  <2>3. CASE Ends(p)
    BY <2>3, EndsIs, IdleIs
  <2> QED  BY <1>1, <2>2, <2>3 DEF Warns
<1>4. /\ k.step \notin Sending /\ k.step # "enqueue" /\ k.step # "claim"
      /\ call[p].step \notin Middle
  BY <1>0, <1>3 DEF Sending, Middle
<1>5. Fits(p, k)
  BY <1>4, FitsAtRest
<1>6. Told \subseteq Told'
  <2>1. CASE Silent
    BY <1>2, <2>1, ToldStands DEF Silent, said
  <2>2. CASE Warns(p)
    BY <1>2, <2>2, WarningTold
  <2> QED  BY <1>1, <2>1, <2>2
<1> QED  BY <1>2, <1>3, <1>4, <1>5, <1>6, Calm

-----------------------------------------------------------------------------
(* The owner's side.                                                       *)

OwnersOwn == {"approve", "managed", "rename", "leave", "create", "fail", "idle"}

\* A call of the owner goes to a step that is not of a send.
LEMMA OwnerGoes ==
    ASSUME IInv, NEW o \in Owners, NEW k, CallIs(o, k), k.step \in OwnersOwn,
           call[o].step \in OwnersOwn, SeatsKept, Quiet
    PROVE  IInv'
<1>1. o \in Callers /\ o \notin Seats /\ k.step \notin Sending /\ call[o].step \notin Middle
  BY SeatsAssumption DEF Callers, OwnersOwn, Sending, Middle
<1> QED  BY <1>1, QuietStep

\* The owner begins something that is more than one step.
LEMMA OwnerBegins ==
    ASSUME IInv, NEW o \in Owners,
           \/ \E s \in Seats : ApproveStandby(o, s) \/ RemoveExternal(o, s) \/ \E n \in Labels : Rename(o, s, n)
           \/ \E n \in Labels : CreateManaged(o, n)
           \/ \E i \in DOMAIN rows : FindStranded(o, i)
    PROVE  IInv'
<1>1. /\ call[o].step = "idle" /\ UNCHANGED <<seat, late, ledger, rows, said, cut>>
  BY DEF ApproveStandby, RemoveExternal, Rename, CreateManaged, FindStranded, Decides, Free, stores, past
<1>2. Quiet /\ SeatsKept /\ Shape /\ DOMAIN rows = 1..Len(rows) /\ Len(rows) \in Nat
  BY <1>1, SeatSame, ToldStands, LenProperties DEF Quiet, IInv, Shape
<1>3. ASSUME NEW k, k \in ACall, k.step \in OwnersOwn, call' = [call EXCEPT ![o] = k]
      PROVE  IInv'
  BY <1>1, <1>2, <1>3, OwnerGoes DEF CallIs, OwnersOwn
<1>4. ASSUME NEW s \in Seats, ApproveStandby(o, s) PROVE IInv'
  <2> DEFINE k == [Idle EXCEPT !.step = "approve", !.s = s]
  <2>1. k \in ACall /\ k.step \in OwnersOwn /\ call' = [call EXCEPT ![o] = k]
    BY <1>4 DEF ApproveStandby, OwnerAt, ACall, Idle, Steps, Names, OwnersOwn
  <2> QED  BY <1>3, <2>1
<1>5. ASSUME NEW s \in Seats, RemoveExternal(o, s) PROVE IInv'
  <2> DEFINE is == RowsOf(s)
             k == [Idle EXCEPT !.step = "leave", !.s = s, !.pending = is]
  <2>1. is \in SUBSET Nat
    BY <1>2 DEF RowsOf
  <2>3. call' = [call EXCEPT ![o] = k]
    BY <1>5 DEF RemoveExternal
  <2> HIDE DEF is
  <2>2. k \in ACall /\ k.step \in OwnersOwn
    BY <2>1 DEF ACall, Idle, Steps, Names, OwnersOwn
  <2> QED  BY <1>3, <2>2, <2>3
<1>6. ASSUME NEW s \in Seats, NEW n \in Labels, Rename(o, s, n) PROVE IInv'
  <2> DEFINE k == [Idle EXCEPT !.step = "rename", !.s = s, !.to = n]
  <2>1. k \in ACall /\ k.step \in OwnersOwn /\ call' = [call EXCEPT ![o] = k]
    BY <1>6 DEF Rename, ACall, Idle, Steps, Names, OwnersOwn
  <2> QED  BY <1>3, <2>1
<1>7. ASSUME NEW n \in Labels, CreateManaged(o, n) PROVE IInv'
  <2> DEFINE k == [Idle EXCEPT !.step = "create", !.to = n]
  <2>1. k \in ACall /\ k.step \in OwnersOwn /\ call' = [call EXCEPT ![o] = k]
    BY <1>7 DEF CreateManaged, ACall, Idle, Steps, Names, OwnersOwn
  <2> QED  BY <1>3, <2>1
<1>8. ASSUME NEW i \in DOMAIN rows, FindStranded(o, i) PROVE IInv'
  <2> DEFINE k == [Idle EXCEPT !.step = "fail", !.pending = {i}]
  <2>1. {i} \in SUBSET Nat
    BY <1>2
  <2>2. k \in ACall /\ k.step \in OwnersOwn
    BY <2>1 DEF ACall, Idle, Steps, Names, OwnersOwn
  <2>3. call' = [call EXCEPT ![o] = k]
    BY <1>8 DEF FindStranded
  <2> QED  BY <1>3, <2>2, <2>3
<1> QED  BY <1>4, <1>5, <1>6, <1>7, <1>8

\* Standby comes with a row in the room, and its count of late claims begins.
LEMMA JoinsAndStandby ==
    ASSUME IInv, NEW o \in Owners,
           WriteStandby(o) \/ \E s \in Seats, n \in Labels : ApproveJoin(o, s, n)
    PROVE  IInv'
<1>0. Shape
  BY DEF IInv
<1>1. ASSUME NEW s \in Seats, NEW r \in Seat, seat' = [seat EXCEPT ![s] = r],
             late' = [late EXCEPT ![s] = 0] \/ (late' = late /\ ~ (r.in /\ r.standby))
      PROVE  SeatsKept
  <2>1. /\ seat' \in [Seats -> Seat] /\ seat'[s] = r
        /\ \A t \in Seats \ {s} : seat'[t] = seat[t]
    BY <1>0, <1>1 DEF Shape
  <2>2. /\ late' \in [Seats -> Nat]
        /\ late'[s] = 0 \/ (late'[s] = late[s] /\ ~ (r.in /\ r.standby))
        /\ \A t \in Seats \ {s} : late'[t] = late[t]
    BY <1>0, <1>1 DEF Shape
  <2> QED  BY <2>1, <2>2 DEF SeatsKept, OnStandby, Joined
<1>2. ASSUME NEW s \in Seats, NEW n \in Labels, ApproveJoin(o, s, n) PROVE IInv'
  <2> DEFINE r == [seat[s] EXCEPT !.in = TRUE, !.asked = FALSE, !.name = n]
             k == [Idle EXCEPT !.step = "managed", !.s = s]
  <2>1. seat[s] \in Seat
    BY <1>0 DEF Shape
  <2>2. r \in Seat /\ r.standby = seat[s].standby
    BY <2>1 DEF Seat, Names
  <2>3. seat' = [seat EXCEPT ![s] = r]
    BY <1>0, <1>2 DEF ApproveJoin, Shape
  <2>4. late' = [late EXCEPT ![s] = 0] \/ (late' = late /\ ~ seat[s].standby)
    BY <1>2 DEF ApproveJoin
  <2> HIDE DEF r
  <2>5. SeatsKept
    BY <1>1, <2>2, <2>3, <2>4
  <2>6. k \in ACall /\ k.step \in OwnersOwn /\ call' = [call EXCEPT ![o] = k]
    BY <1>2 DEF ApproveJoin, OwnerAt, ACall, Idle, Steps, Names, OwnersOwn
  <2> HIDE DEF k
  <2>7. CallIs(o, k) /\ call[o].step \in OwnersOwn /\ Quiet
    BY <1>2, <2>6, ToldStands DEF CallIs, ApproveJoin, Decides, Free, Quiet, OwnersOwn
  <2> QED  BY <2>5, <2>6, <2>7, OwnerGoes
<1>3. CASE WriteStandby(o)
  <2> DEFINE s == call[o].s
             r == [seat[s] EXCEPT !.wants = FALSE, !.standby = TRUE]
  <2>1. /\ call[o].step = "approve" /\ Write(s, r) /\ Ends(o) /\ Quiet
        /\ late' = IF Joined(s) THEN [late EXCEPT ![s] = 0] ELSE late
    BY <1>3, ToldStands DEF WriteStandby, At, Quiet
  <2>2. CASE s \notin Seats
    <3>1. seat' = seat /\ late' = late
      BY <1>0, <2>1, <2>2 DEF Shape, Write
    <3> QED  BY <1>0, <2>1, <3>1, SeatSame, EndsIs, IdleIs, OwnerGoes DEF Callers, OwnersOwn
  <2>3. CASE s \in Seats
    <3>1. seat[s] \in Seat
      BY <1>0, <2>3 DEF Shape
    <3>2. r \in Seat /\ r.in = seat[s].in /\ r.here = seat[s].here
      BY <3>1 DEF Seat
    <3> HIDE DEF r
    <3>3. SeatsKept
      <4>1. CASE seat[s].here
        <5>1. seat' = [seat EXCEPT ![s] = r]
          BY <2>1, <4>1 DEF Write
        <5>2. late' = [late EXCEPT ![s] = 0] \/ (late' = late /\ ~ r.in)
          BY <2>1, <3>2, <4>1 DEF Joined
        <5> HIDE DEF s
        <5> QED  BY <1>1, <2>3, <3>2, <5>1, <5>2
      <4>2. CASE ~ seat[s].here
        BY <1>0, <2>1, <4>2, SeatSame DEF Write, Joined
      <4> QED  BY <4>1, <4>2
    <3> QED  BY <2>1, <3>3, EndsIs, IdleIs, OwnerGoes DEF Callers, OwnersOwn
  <2> QED  BY <2>2, <2>3
<1> QED  BY <1>2, <1>3

\* Standby, a name or the seat itself is taken away, a request is refused.
LEMMA OwnerTakes ==
    ASSUME IInv, NEW o \in Owners,
           \/ UndoJoin(o) \/ WriteName(o) \/ Leave(o) \/ WriteManaged(o)
           \/ \E s \in Seats : RejectJoin(o, s) \/ RevokeStandby(o, s)
           \/ \E n \in Labels : ArchiveManaged(o, n)
    PROVE  IInv'
<1>0. Shape
  BY DEF IInv
<1>1. Quiet /\ late' = late
  BY ToldStands DEF UndoJoin, WriteName, Leave, WriteManaged, RejectJoin, RevokeStandby, ArchiveManaged,
         Quiet, past
<1>2. ASSUME NEW s, Leaves(s) PROVE SeatsKept
  <2>1. Here \in Seat /\ ~ Here.in
    BY DEF Here, Seat, Names
  <2>2. CASE s \in Seats
    BY <1>0, <1>1, <1>2, <2>1, <2>2, WriteIs DEF Leaves
  <2>3. CASE s \notin Seats
    <3>1. seat' = seat
      BY <1>0, <1>2, <2>3 DEF Shape, Leaves, Write
    <3> QED  BY <1>0, <1>1, <3>1, SeatSame
  <2> QED  BY <2>2, <2>3
<1>3. ASSUME call[o].step \in OwnersOwn, SeatsKept, Ends(o) \/ Goto(o, "fail") PROVE IInv'
  <2>1. o \in Callers
    BY DEF Callers
  <2>2. CASE Ends(o)
    BY <1>1, <1>3, <2>1, <2>2, EndsIs, IdleIs, OwnerGoes DEF OwnersOwn
  <2>3. CASE Goto(o, "fail")
    <3>0. "fail" \in Steps
      BY DEF Steps
    <3>1. PICK k : CallIs(o, k) /\ k.step = "fail"
      BY <1>0, <2>1, <2>3, <3>0, GotoIs
    <3> QED  BY <1>1, <1>3, <3>1, OwnerGoes DEF OwnersOwn
  <2> QED  BY <1>3, <2>2, <2>3
<1>4. CASE UndoJoin(o) \/ Leave(o) \/ WriteManaged(o)
  <2>1. call[o].step \in OwnersOwn /\ (Ends(o) \/ Goto(o, "fail"))
    BY <1>4 DEF UndoJoin, Leave, WriteManaged, At, OwnersOwn
  <2>2. Leaves(call[o].s) \/ seat' = seat
    BY <1>4 DEF UndoJoin, Leave, WriteManaged
  <2> QED  BY <1>0, <1>1, <1>2, <1>3, <2>1, <2>2, SeatSame
<1>5. CASE WriteName(o)
  <2> DEFINE s == call[o].s
             r == [seat[s] EXCEPT !.name = call[o].to]
  <2>1. /\ call[o].step \in OwnersOwn /\ Ends(o)
        /\ seat' = [seat EXCEPT ![s] = r] \/ seat' = seat
    BY <1>0, <1>5 DEF WriteName, At, OwnersOwn, Shape
  <2>2. CASE s \in Seats /\ seat' = [seat EXCEPT ![s] = r]
    <3>1. seat[s] \in Seat /\ call[o].to \in Names
      BY <1>0, <2>2 DEF Shape, ACall, Callers
    <3>2. r \in Seat /\ r.in = seat[s].in /\ r.here = seat[s].here /\ r.standby = seat[s].standby
      BY <3>1 DEF Seat
    <3> HIDE DEF r
    <3>3. SeatsKept
      BY <1>0, <1>1, <2>2, <3>2, SeatIs DEF OnStandby, Joined
    <3> QED  BY <1>3, <2>1, <3>3
  <2>3. CASE s \notin Seats \/ seat' = seat
    <3>1. seat' = seat
      BY <1>0, <2>1, <2>3 DEF Shape
    <3> QED  BY <1>0, <1>1, <1>3, <2>1, <3>1, SeatSame
  <2> QED  BY <2>1, <2>2, <2>3
<1>6. ASSUME NEW s \in Seats, RejectJoin(o, s) \/ RevokeStandby(o, s) PROVE IInv'
  <2> DEFINE a == [seat[s] EXCEPT !.asked = FALSE]
             b == [seat[s] EXCEPT !.wants = FALSE, !.standby = FALSE]
  <2>1. seat[s] \in Seat
    BY <1>0 DEF Shape
  <2>2. /\ a \in Seat /\ a.in = seat[s].in /\ a.here = seat[s].here /\ a.standby = seat[s].standby
        /\ b \in Seat /\ ~ b.standby
    BY <2>1 DEF Seat
  <2>3. call' = call /\ (seat' = [seat EXCEPT ![s] = a] \/ seat' = [seat EXCEPT ![s] = b])
    BY <1>0, <1>6 DEF RejectJoin, RevokeStandby, Shape
  <2> HIDE DEF a, b
  <2>4. SeatsKept
    BY <1>0, <1>1, <2>2, <2>3, SeatIs DEF OnStandby, Joined
  <2> QED  BY <1>1, <2>3, <2>4, QuietStill
<1>7. CASE \E n \in Labels : ArchiveManaged(o, n)
  <2>1. seat' = seat /\ call' = call
    BY <1>7 DEF ArchiveManaged
  <2> QED  BY <1>0, <1>1, <2>1, SeatSame, QuietStill
<1> QED  BY <1>4, <1>5, <1>6, <1>7

\* A message of the owner: its line, then its row.
LEMMA PostStep ==
    ASSUME IInv, NEW o \in Owners, EnqueuePost(o) \/ \E r \in Requests : Post(o, r)
    PROVE  IInv'
<1>0. Shape /\ Sends /\ o \in Callers /\ o \notin Seats
  BY SeatsAssumption DEF IInv, Callers
<1>1. ASSUME NEW r \in Requests, Post(o, r) PROVE IInv'
  <2> DEFINE n == seat[To[r]].name
             k == [Idle EXCEPT !.step = "enqueue", !.s = To[r], !.req = r, !.to = n]
  <2>1. n \in Names
    BY <1>0, SeatsAssumption DEF Shape, Seat
  <2>2. /\ call[o].step = "idle" /\ From[r] = NONE /\ Has(r) = {}
        /\ ledger' = Append(ledger, [req |-> r, by |-> NONE, to |-> n])
        /\ call' = [call EXCEPT ![o] = k]
        /\ UNCHANGED <<seat, late, rows>> /\ Told \subseteq Told'
    BY <1>1, ToldStands DEF Post, Decides, Free, past
  <2> HIDE DEF n
  <2>3. k \in ACall /\ k.step = "enqueue" /\ k.req = r
        /\ LineOf(k) = [req |-> r, by |-> NONE, to |-> n]
    BY <2>1, SeatsAssumption DEF ACall, Idle, Steps, Names, LineOf
  <2> HIDE DEF k
  <2>4. CallIs(o, k) /\ call[o].step \notin Middle /\ k.step \in Middle /\ SeatsKept
    BY <1>0, <2>2, <2>3, SeatSame DEF CallIs, Middle
  <2> QED  BY <1>0, <2>2, <2>3, <2>4, LineGrows
<1>2. CASE EnqueuePost(o)
  <2>1. call[o].step = "enqueue" /\ UNCHANGED <<seat, late, ledger, cut, gate>>
    BY <1>2 DEF EnqueuePost, At, past
  <2>2. call[o].req \in Requests /\ RowOf(call[o].req) = {} /\ SeatsKept
    BY <1>0, <2>1, SeatSame DEF Sends, Fits
  <2>3. Idle.step = "idle" /\ Idle.step \notin Middle
    BY IdleIs DEF Middle
  <2>4. CASE rows' = rows \o <<NewRow(o)>> /\ Ends(o) /\ Silent
    <3>1. CallIs(o, Idle) /\ Told \subseteq Told'
      BY <1>0, <2>1, <2>4, EndsIs, ToldStands DEF Silent, said
    <3> QED  BY <1>0, <2>1, <2>2, <2>3, <2>4, <3>1, RowGrows
  <2>5. CASE rows' = rows /\ Warns(o)
    <3>1. CallIs(o, Idle) /\ Told \subseteq Told' /\ call[o].req \in Told'
      BY <1>0, <2>1, <2>5, EndsIs, WarningTold
    <3>2. Fits(o, Idle)
      BY <2>3, FitsAtRest DEF Sending, Middle
    <3> QED  BY <1>0, <2>1, <2>2, <2>3, <2>5, <3>1, <3>2, SameKeeps, Calm
  <2> QED  BY <1>2, <2>4, <2>5 DEF EnqueuePost
<1> QED  BY <1>1, <1>2

\* The gate of the room moves and nothing else.
LEMMA GateStep ==
    ASSUME IInv, Fills \/ \E o \in Owners : SetRecording(o)
    PROVE  IInv'
<1>1. /\ UNCHANGED <<seat, ledger, rows, warned, muted, cut, late, call>>
      /\ full => full'
  BY DEF Fills, SetRecording, past
<1>2. Quiet /\ SeatsKept
  BY <1>1, ToldGrows, SeatSame DEF Quiet, IInv
<1> QED  BY <1>1, <1>2, QuietStill

\* A delivery moves without a call.
LEMMA RowStep ==
    ASSUME IInv,
           HandBack \/ \E o \in Owners, i \in DOMAIN rows : CancelDelivery(o, i) \/ RetryDelivery(o, i)
    PROVE  IInv'
<1>1. \E i, from, to : to \in Open \cup {"answered", "closed"} /\ MovesRows({i}, from, to)
  BY DEF HandBack, CancelDelivery, RetryDelivery, Open
<1>2. RowsKept
  BY <1>1, MovesKeep DEF IInv
<1>3. UNCHANGED <<seat, ledger, said, late, cut, call>>
  BY DEF HandBack, CancelDelivery, RetryDelivery, past
<1> QED  BY <1>2, <1>3, RowsMove

-----------------------------------------------------------------------------
(* Ends of processes and of presence rows.                                 *)

\* A seat closes, fails what it was sent, or is pruned.
LEMMA EndSteps ==
    ASSUME IInv, NEW s \in Seats, Close(s) \/ FailTarget(s) \/ Lapse(s)
    PROVE  IInv'
<1>0. Shape /\ s \in Callers
  BY DEF IInv, Callers
<1>1. ASSUME seat' = [seat EXCEPT ![s] = Gone], late' = late PROVE SeatsKept
  <2>1. Gone \in Seat /\ ~ Gone.here
    BY DEF Gone, Here, Seat, Names
  <2> QED  BY <1>0, <1>1, <2>1, SeatIs
<1>2. CASE Close(s)
  <2>1. /\ call[s].step = "idle" /\ Goto(s, "offline") /\ SeatsKept /\ Quiet
    BY <1>1, <1>2, ToldStands DEF Close, Free, Quiet
  <2>2. "offline" \in Steps /\ "offline" \notin Sending /\ call[s].step \notin Middle
    BY <2>1 DEF Steps, Sending, Middle
  <2>3. PICK k : CallIs(s, k) /\ k.step = "offline"
    BY <1>0, <2>1, <2>2, GotoIs
  <2> QED  BY <1>0, <2>1, <2>2, <2>3, QuietStep
<1>3. CASE FailTarget(s)
  <2>1. /\ call[s].step = "offline" /\ Ends(s) /\ UNCHANGED <<seat, ledger, said, late, cut>>
        /\ MovesRows(RowsOf(s), Open, "closed")
    BY <1>3 DEF FailTarget, At, past
  <2>2. RowsKept
    BY <1>0, <2>1, MovesKeep
  <2>3. CallIs(s, Idle) /\ call[s].step \notin Middle
    BY <1>0, <2>1, EndsIs DEF Middle
  <2> QED  BY <1>0, <2>1, <2>2, <2>3, RowsMove
<1>4. CASE Lapse(s)
  BY <1>1, <1>4, ToldStands, QuietStill DEF Lapse, Quiet
<1> QED  BY <1>2, <1>3, <1>4

\* The line of a send whose process dies is explained by that.
LEMMA DieStep ==
    ASSUME IInv, NEW p \in Callers, Die(p)
    PROVE  IInv'
<1>0. Shape /\ Sends
  BY DEF IInv
<1>1. /\ Ends(p) /\ UNCHANGED <<seat, late, ledger, rows, said>>
      /\ cut' = IF call[p].req = NONE THEN cut ELSE cut \cup {call[p].req}
  BY DEF Die, Cut, stores
<1>2. call[p].step \in Middle => call[p].req \in cut'
  <2> SUFFICES ASSUME call[p].step \in Middle PROVE call[p].req \in cut'
    OBVIOUS
  <2>1. PICK j \in DOMAIN ledger : ledger[j] = LineOf(call[p])
    BY <1>0 DEF Sends, Fits
  <2>2. ledger[j] \in ALine
    BY <1>0, <2>1, LenProperties DEF Shape
  <2>3. call[p].req \in Requests
    BY <2>1, <2>2 DEF ALine, LineOf
  <2> QED  BY <1>1, <2>3, SeatsAssumption
<1>3. CallIs(p, Idle) /\ Idle.step = "idle"
  BY <1>1, EndsIs, IdleIs
<1>4. Fits(p, Idle)
  BY <1>3, FitsAtRest DEF Sending, Middle
<1>5. SeatsKept /\ RowsKept /\ Told \subseteq Told' /\ cut' \subseteq Told' /\ ledger' = ledger
  BY <1>0, <1>1, SeatSame, SameKeeps, ToldGrows DEF said, gate, Told
<1> QED  BY <1>2, <1>3, <1>4, <1>5, Calm

-----------------------------------------------------------------------------
(* What holds of every step, and what follows.                             *)

\* At the start nothing is sent.
LEMMA InitIs ==
    ASSUME Init
    PROVE  IInv
<1>1. /\ seat = [s \in Seats |-> Here] /\ ledger = << >> /\ rows = << >>
      /\ call = [p \in Callers |-> Idle] /\ late = [s \in Seats |-> 0]
  BY DEF Init
<1>2. Here \in Seat /\ ~ Here.in
  BY DEF Here, Seat, Names
<1>3. Idle \in ACall /\ Idle.step = "idle"
  BY IdleIs
<1>4. DOMAIN ledger = {} /\ DOMAIN rows = {} /\ ledger \in Seq(ALine) /\ rows \in Seq(ARow)
  BY <1>1
<1>5. \A p \in Callers : call[p].step = "idle"
  BY <1>1, <1>3
<1>6. Shape
  BY <1>1, <1>2, <1>3, <1>4 DEF Shape
<1>7. Sends
  BY <1>4, <1>5, FitsAtRest DEF Sends, SentOnce, Sending, Middle, Callers
<1>8. Lates
  BY <1>1 DEF Lates
<1> QED  BY <1>6, <1>7, <1>8 DEF IInv

\* Every step keeps the invariant.
LEMMA Step ==
    ASSUME IInv, [Next]_vars
    PROVE  IInv'
<1>1. ASSUME NEW s \in Seats, SeatStep(s) PROVE IInv'
  <2>0. s \in Callers
    BY DEF Callers
  <2>1. CASE \/ RequestJoin(s) \/ JoinAnswered(s) \/ JoinTimeout(s) \/ RoomWait(s)
             \/ StandbyAnswered(s) \/ StandbyTimeout(s) \/ WaitTurn(s) \/ WaitTimeout(s)
    BY <2>1, Looking
  <2>2. CASE Ack(s) \/ Reply(s) \/ WriteReply(s) \/ GiveUp(s)
    BY <2>2, WorkStep
  <2>3. CASE \E r \in Requests : Send(s, r)
    BY <2>3, SendBegins
  <2>4. CASE CallStep(s)
    <3>1. CASE \/ WriteJoinRequest(s) \/ WriteJoinCancel(s)
               \/ WriteStandbyRequest(s) \/ WriteStandbyCancel(s)
      BY <3>1, Writing
    <3>2. CASE Claim(s) \/ SendTarget(s) \/ AppendLine(s) \/ Enqueue(s)
      BY <3>2, ClaimStep, SendTargetStep, AppendStep, EnqueueStep
    <3>3. CASE SourceAgain(s) \/ TargetAgain(s) \/ SourceAfter(s)
      BY <3>3, LookAgain
    <3>4. CASE CancelSent(s) \/ TargetAfter(s)
      BY <3>4, AfterSteps
    <3>5. CASE FailRow(s)
      BY <2>0, <3>5, FailStep
    <3>6. CASE FailTarget(s)
      BY <3>6, EndSteps
    <3>7. CASE WriteReply(s)
      BY <3>7, WorkStep
    <3> QED  BY <2>4, <3>1, <3>2, <3>3, <3>4, <3>5, <3>6, <3>7 DEF CallStep
  <2>5. CASE Close(s) \/ Lapse(s)
    BY <2>5, EndSteps
  <2> QED  BY <1>1, <2>1, <2>2, <2>3, <2>4, <2>5 DEF SeatStep, LoopStep
<1>2. ASSUME NEW o \in Owners, OwnerStep(o) PROVE IInv'
  <2>0. o \in Callers
    BY DEF Callers
  <2>1. CASE \E s \in Seats, n \in Labels : ApproveJoin(o, s, n)
    BY <2>1, JoinsAndStandby
  <2>2. CASE \/ \E s \in Seats : ApproveStandby(o, s) \/ RemoveExternal(o, s)
                                 \/ \E n \in Labels : Rename(o, s, n)
             \/ \E n \in Labels : CreateManaged(o, n)
             \/ \E i \in DOMAIN rows : FindStranded(o, i)
    BY <2>2, OwnerBegins
  <2>3. CASE \/ \E s \in Seats : RejectJoin(o, s) \/ RevokeStandby(o, s)
             \/ \E n \in Labels : ArchiveManaged(o, n)
             \/ UndoJoin(o) \/ WriteName(o) \/ Leave(o) \/ WriteManaged(o)
    BY <2>3, OwnerTakes
  <2>4. CASE EnqueuePost(o) \/ \E r \in Requests : Post(o, r)
    BY <2>4, PostStep
  <2>5. CASE \E i \in DOMAIN rows : CancelDelivery(o, i) \/ RetryDelivery(o, i)
    BY <2>5, RowStep
  <2>6. CASE WriteStandby(o)
    BY <2>6, JoinsAndStandby
  <2>7. CASE FailRow(o)
    BY <2>0, <2>7, FailStep
  <2>8. CASE SetRecording(o)
    BY <2>8, GateStep
  <2> QED  BY <1>2, <2>1, <2>2, <2>3, <2>4, <2>5, <2>6, <2>7, <2>8 DEF OwnerStep, OwnerCallStep
<1>3. CASE \E p \in Callers : Die(p)
  BY <1>3, DieStep
<1>4. CASE HandBack
  BY <1>4, RowStep
<1>5. CASE UNCHANGED vars
  <2>1. UNCHANGED <<seat, late, ledger, rows, said, cut, call>>
    BY <1>5 DEF vars, said, gate
  <2> QED  BY <2>1, SeatSame, ToldStands, QuietStill DEF Quiet, IInv
<1>6. CASE Fills
  BY <1>6, GateStep
<1> QED  BY <1>1, <1>2, <1>3, <1>4, <1>5, <1>6 DEF Next

\* In every reachable state each call of a send holds the message of its line, for
\* every number of seats, owner processes, names, requests and lines.
THEOREM Invariant == Spec => []IInv
<1>1. Init => IInv
  BY InitIs
<1>2. IInv /\ [Next]_vars => IInv'
  BY Step
<1> QED  BY <1>1, <1>2, PTL DEF Spec

\* A retry with the same clientRequestId duplicates neither the line nor the
\* delivery, and the delivery is the one the line speaks of.
THEOREM SentOnceHolds == Spec => []SentOnce
<1>1. IInv => SentOnce
  BY DEF IInv, Sends
<1> QED  BY <1>1, Invariant, PTL

\* A line without a delivery is at work, warned of, cut off by the end of its
\* process, or stands in a full ledger that has refused the warning.
THEOREM LineExplainedHolds == Spec => []LineExplained
<1>1. IInv => LineExplained
  <2> SUFFICES ASSUME IInv, NEW i \in DOMAIN ledger
               PROVE  \/ \E j \in DOMAIN rows : rows[j].req = ledger[i].req
                      \/ \E p \in Callers : call[p].req = ledger[i].req
                      \/ ledger[i].req \in Told
    BY DEF LineExplained
  <2> QED  BY DEF IInv, Sends, Explained, RowOf
<1> QED  BY <1>1, Invariant, PTL

\* A seat whose standby has ended claims at most once more.
THEOREM OneLateClaimHolds == Spec => []OneLateClaim
<1>1. IInv => OneLateClaim
  BY DEF IInv, Lates, OneLateClaim
<1> QED  BY <1>1, Invariant, PTL

-----------------------------------------------------------------------------
(***************************************************************************)
(* The Room page, for every number of rooms, terminals, approvals, lines   *)
(* and calls in flight.                                                    *)
(*                                                                         *)
(* A poll carries the place it reads from, and the page only moves on with *)
(* the answer to it: one is in flight at a time.  What the bell has rung   *)
(* for lies behind the place of a page that has settled, and behind the    *)
(* end of every answer the server gives later.                             *)
(***************************************************************************)

LedgerLine == [room : Rooms, seq : Nat]

\* The seats of an answer.
Answer == UNION {[D -> {"asking", "joined"}] : D \in SUBSET Terminals}

\* Calls that keep an A and are answered with an R.
CallOf(A, R) ==
    {c \in [room : Rooms, arg : A, served : BOOLEAN, answer : R \cup {NULL}] :
        c.served => c.answer \in R}
PollCall == CallOf(Nat, [last : Nat, total : Nat])
RefreshCall == CallOf(Answer, Answer)
DecisionCall == CallOf([seat : Terminals, what : {"join", "reject", "leave"}], BOOLEAN)
ListCall == CallOf({NULL}, SUBSET Approvals)
LoadCall == CallOf([reset : BOOLEAN, before : Nat], Seq(LedgerLine))
FindCall == CallOf({NULL}, Seq(LedgerLine))

Note == ({"line"} \X LedgerLine)
        \cup ({"asks", "lapsed", "offline", "approval"} \X (Terminals \cup Approvals))

StoresOK ==
    /\ lines \in [Rooms -> Nat]
    /\ stands \in [Terminals -> {"out", "asking", "joined"}]

PlaceOK ==
    /\ room \in Rooms /\ mode \in {"live", "history"}
    /\ after \in Nat /\ settled \in BOOLEAN
    /\ hidden \in BOOLEAN /\ searching \in BOOLEAN /\ queries \in Nat

HistoryOK ==
    /\ earlier \in Seq(LedgerLine) /\ before \in Nat
    /\ older \in {"hidden", "ready", "busy"}

ListsOK ==
    /\ seen \in Answer /\ refused \subseteq Terminals
    /\ listed \subseteq Approvals /\ listedFor \in Rooms \cup {NULL}
    /\ bell \in Seq(Note)

SingleOK ==
    /\ poll \in PollCall \cup {NULL}
    /\ refresh \in RefreshCall \cup {NULL}
    /\ decision \in DecisionCall \cup {NULL}

SeveralOK ==
    /\ lists \in Seq(ListCall) /\ Len(lists) <= MaxCalls
    /\ loads \in Seq(LoadCall) /\ Len(loads) <= MaxCalls
    /\ finds \in Seq(FindCall) /\ Len(finds) <= MaxCalls

PageTypes ==
    StoresOK /\ PlaceOK /\ HistoryOK /\ ListsOK /\ SingleOK /\ SeveralOK

\* What a poll in flight knows.
PollKnows ==
    poll # NULL =>
        /\ poll.arg <= lines[poll.room]
        /\ poll.room = room => poll.arg = after \/ (after = 0 /\ ~ settled)
        /\ poll.served =>
              /\ poll.arg <= poll.answer.last
              /\ poll.answer.last <= poll.answer.total
              /\ poll.answer.total <= lines[poll.room]
              /\ \A i \in DOMAIN bell :
                    bell[i][1] = "line" /\ bell[i][2].room = poll.room =>
                        bell[i][2].seq <= poll.answer.total

\* What the page has rung for was there, and it is past it once it settled.
RungBefore ==
    \A i \in DOMAIN bell : bell[i][1] = "line" =>
        /\ bell[i][2].seq <= lines[bell[i][2].room]
        /\ settled /\ bell[i][2].room = room => bell[i][2].seq <= after

\* A live page loads no history, and before the first search it finds nothing.
Alone ==
    /\ mode = "live" => loads = << >> /\ older = "hidden"
    /\ queries = 0 => finds = << >> /\ ~ searching

LinesShown ==
    mode = "live" /\ queries = 0 =>
        /\ shown \in Seq(LedgerLine)
        /\ \A i \in DOMAIN shown :
              /\ shown[i].room = room
              /\ shown[i].seq <= after
              /\ i > 1 => shown[i - 1].seq < shown[i].seq

PageInv ==
    /\ PageTypes
    /\ after <= lines[room] /\ PollKnows
    /\ RungBefore /\ NewsOnce
    /\ Alone /\ LinesShown

-----------------------------------------------------------------------------
(* Calls, lines and notifications.                                         *)

\* A call has the shape of its kind, before and after it is answered.
LEMMA SentIs ==
    ASSUME NEW A, NEW R, NEW r \in Rooms, NEW x \in A
    PROVE  /\ Sent(r, x) \in CallOf(A, R)
           /\ Sent(r, x).room = r /\ Sent(r, x).arg = x /\ ~ Sent(r, x).served
  BY DEF Sent, CallOf

LEMMA SentFields ==
    ASSUME NEW r, NEW x
    PROVE  Sent(r, x).room = r /\ Sent(r, x).arg = x /\ ~ Sent(r, x).served
  BY DEF Sent

LEMMA AnsweredIs ==
    ASSUME NEW A, NEW R, NEW c \in CallOf(A, R), NEW x \in R
    PROVE  /\ Answered(c, x) \in CallOf(A, R)
           /\ Answered(c, x).room = c.room /\ Answered(c, x).arg = c.arg
           /\ Answered(c, x).served /\ Answered(c, x).answer = x
  BY DEF Answered, CallOf

LEMMA PageCallIs ==
    ASSUME NEW A, NEW R, NEW c \in CallOf(A, R)
    PROVE  /\ c.room \in Rooms /\ c.arg \in A
           /\ c.served \in BOOLEAN /\ (c.served => c.answer \in R)
  BY DEF CallOf

\* An element of a sequence, and a sequence with one taken out or replaced.
LEMMA ElementIs ==
    ASSUME NEW S, NEW s \in Seq(S), NEW i \in DOMAIN s
    PROVE  s[i] \in S /\ i \in 1..Len(s)
  BY LenProperties, ElementOfSeq

LEMMA Removed ==
    ASSUME NEW S, NEW s \in Seq(S), NEW i \in DOMAIN s
    PROVE  RemoveAt(s, i) \in Seq(S) /\ Len(RemoveAt(s, i)) <= Len(s)
<1>1. i \in 1..Len(s) /\ Len(s) \in Nat
  BY LenProperties
<1>2. /\ SubSeq(s, 1, i - 1) \in Seq(S) /\ SubSeq(s, i + 1, Len(s)) \in Seq(S)
      /\ Len(SubSeq(s, 1, i - 1)) = i - 1
      /\ Len(SubSeq(s, i + 1, Len(s))) = Len(s) - i
  BY <1>1, SubSeqProperties
<1> QED  BY <1>1, <1>2, ConcatProperties DEF RemoveAt

LEMMA Replaced ==
    ASSUME NEW S, NEW s \in Seq(S), NEW i \in DOMAIN s, NEW x \in S
    PROVE  [s EXCEPT ![i] = x] \in Seq(S) /\ Len([s EXCEPT ![i] = x]) = Len(s)
  BY ExceptSeq, LenProperties

LEMMA LowerIs ==
    ASSUME NEW m \in Nat, NEW n \in Nat
    PROVE  Lower(m, n) \in Nat /\ Lower(m, n) <= m /\ Lower(m, n) <= n
  BY DEF Lower

LEMMA HigherIs ==
    ASSUME NEW m \in Nat, NEW n \in Nat
    PROVE  Higher(m, n) \in Nat
  BY DEF Higher

\* Consecutive lines of a ledger, in its order.
LEMMA LinesAre ==
    ASSUME NEW r \in Rooms, NEW m \in Nat, NEW n \in Nat
    PROVE  /\ Lines(r, m, n) \in Seq(LedgerLine)
           /\ Len(Lines(r, m, n)) = IF m <= n THEN n - m + 1 ELSE 0
           /\ \A i \in 1..Len(Lines(r, m, n)) :
                 /\ Lines(r, m, n)[i].room = r
                 /\ Lines(r, m, n)[i].seq = m + i - 1
<1> DEFINE k == IF m <= n THEN n - m + 1 ELSE 0
<1>1. k \in Nat
  OBVIOUS
<1> HIDE DEF k
<1>2. \A i \in 1..k : [room |-> r, seq |-> m + i - 1] \in LedgerLine
  <2> SUFFICES ASSUME NEW i \in 1..k PROVE m + i - 1 \in Nat
    BY DEF LedgerLine
  <2> QED  BY <1>1
<1>3. Lines(r, m, n) = [i \in 1..k |-> [room |-> r, seq |-> m + i - 1]]
  BY DEF Lines, k
<1>4. Lines(r, m, n) \in [1..k -> LedgerLine]
  BY <1>2, <1>3, Zenon
<1>5. Lines(r, m, n) \in Seq(LedgerLine) /\ Len(Lines(r, m, n)) = k
  BY <1>1, <1>4, SeqDef, LenProperties
<1>6. \A i \in 1..k : Lines(r, m, n)[i] = [room |-> r, seq |-> m + i - 1]
  BY <1>3, Zenon
<1>7. \A i \in 1..k : /\ Lines(r, m, n)[i].room = r
                      /\ Lines(r, m, n)[i].seq = m + i - 1
  <2> SUFFICES ASSUME NEW i \in 1..k
               PROVE  /\ Lines(r, m, n)[i].room = r
                      /\ Lines(r, m, n)[i].seq = m + i - 1
    OBVIOUS
  <2>1. Lines(r, m, n)[i] = [room |-> r, seq |-> m + i - 1]
    BY <1>6
  <2> QED  BY <2>1
<1>8. Len(Lines(r, m, n)) = IF m <= n THEN n - m + 1 ELSE 0
  BY <1>5 DEF k
<1>9. \A i \in 1..Len(Lines(r, m, n)) : /\ Lines(r, m, n)[i].room = r
                                         /\ Lines(r, m, n)[i].seq = m + i - 1
  BY <1>5, <1>7, Zenon
<1> QED  BY <1>5, <1>8, <1>9

\* The elements of a finite set in some order.
LEMMA InOrder ==
    ASSUME NEW S, IsFiniteSet(S)
    PROVE  SetToSeq(S) \in Seq(S)
<1> DEFINE n == Cardinality(S)
<1>1. n \in Nat /\ \E f : ExistsBijection(1..n, S)
  BY FS_CardinalityType
<1>2. PICK f : f \in Bijection(1..n, S)
  BY <1>1 DEF ExistsBijection
<1>3. f \in [1..n -> S] /\ IsInjective(f)
  BY <1>2 DEF Bijection, Injection
<1>4. SetToSeq(S) \in [1..n -> S]
  BY <1>3 DEF SetToSeq
<1> QED  BY <1>1, <1>4, SeqDef

\* Ringing only adds to the bell, and only notifications of its kind.
LEMMA RungIs ==
    ASSUME NEW b \in Seq(Note), NEW kind, NEW X, NEW s \in Seq(X),
           {kind} \X X \subseteq Note
    PROVE  /\ Rung(b, kind, s) \in Seq(Note)
           /\ Len(b) <= Len(Rung(b, kind, s))
           /\ \A i \in 1..Len(b) : Rung(b, kind, s)[i] = b[i]
           /\ \A i \in 1..Len(Rung(b, kind, s)) :
                 i > Len(b) => Rung(b, kind, s)[i][1] = kind
<1> DEFINE new == [i \in DOMAIN s |-> <<kind, s[i]>>]
           K == {kind} \X X
<1>1. DOMAIN s = 1..Len(s) /\ Len(s) \in Nat /\ \A i \in DOMAIN s : s[i] \in X
  BY ElementIs, LenProperties
<1>2. new \in [1..Len(s) -> K]
  BY <1>1
<1>3. new \in Seq(K)
  BY <1>1, <1>2, SeqDef
<1> HIDE DEF new
<1>4. PICK t \in Seq(K) : Rung(b, kind, s) = b \o t
  <2>1. CASE b # << >> /\ new # << >> /\ Last(b) = Head(new)
    BY <1>3, <2>1, HeadTailProperties DEF Rung, new
  <2>2. CASE ~ (b # << >> /\ new # << >> /\ Last(b) = Head(new))
    BY <1>3, <2>2 DEF Rung, new
  <2> QED  BY <2>1, <2>2
<1>5. t \in Seq(Note)
  BY SeqMonotonic
<1>6. \A i \in 1..Len(t) : t[i] \in K /\ t[i][1] = kind
  BY ElementOfSeq
<1>7. Len(b) \in Nat /\ Len(t) \in Nat
  BY LenProperties
<1> QED  BY <1>4, <1>5, <1>6, <1>7, ConcatProperties

-----------------------------------------------------------------------------
(* The page's state keeps its shape.                                       *)

\* What stays as it is keeps its shape.
LEMMA Kept ==
    /\ StoresOK /\ UNCHANGED <<lines, stands>> => StoresOK'
    /\ PlaceOK /\ UNCHANGED <<focus, after, settled, queries>> => PlaceOK'
    /\ HistoryOK /\ UNCHANGED <<earlier, before, older>> => HistoryOK'
    /\ ListsOK /\ UNCHANGED <<people, requests, bell>> => ListsOK'
    /\ SingleOK /\ UNCHANGED single => SingleOK'
    /\ SeveralOK /\ UNCHANGED several => SeveralOK'
  BY DEF StoresOK, PlaceOK, HistoryOK, ListsOK, SingleOK, SeveralOK,
         focus, people, requests, single, several

\* What an answer says of the seats.
LEMMA AnswerIs ==
    /\ << >> \in Answer
    /\ \A f \in Answer : DOMAIN f \subseteq Terminals
    /\ \A f \in Answer : \A s \in DOMAIN f : f[s] \in {"asking", "joined"}
    /\ \A D \in SUBSET Terminals : [D -> {"asking", "joined"}] \subseteq Answer
<1>1. << >> \in [{} -> {"asking", "joined"}]
  OBVIOUS
<1>2. {} \in SUBSET Terminals
  OBVIOUS
<1> QED  BY <1>1, <1>2 DEF Answer

LEMMA SeatsOfIs ==
    ASSUME StoresOK, NEW r \in Rooms
    PROVE  SeatsOf(r) \in Answer
<1> DEFINE D == {s \in Terminals : RoomOf[s] = r /\ stands[s] # "out"}
<1>1. D \in SUBSET Terminals /\ \A s \in D : stands[s] \in {"asking", "joined"}
  BY DEF StoresOK
<1>2. SeatsOf(r) = [s \in D |-> stands[s]]
  BY DEF SeatsOf
<1> HIDE DEF D
<1>3. SeatsOf(r) \in [D -> {"asking", "joined"}]
  BY <1>1, <1>2
<1> QED  BY <1>1, <1>3, AnswerIs

\* A joined or rejected seat patched into what the page knows.
LEMMA Patched ==
    ASSUME NEW f \in Answer, NEW s \in Terminals
    PROVE  WithJoined(f, s) \in Answer /\ Without(f, s) \in Answer
<1>1. DOMAIN f \cup {s} \in SUBSET Terminals /\ DOMAIN f \ {s} \in SUBSET Terminals
  BY AnswerIs
<1>2. WithJoined(f, s) \in [DOMAIN f \cup {s} -> {"asking", "joined"}]
  BY AnswerIs DEF WithJoined
<1>3. Without(f, s) \in [DOMAIN f \ {s} -> {"asking", "joined"}]
  BY AnswerIs DEF Without
<1> QED  BY <1>1, <1>2, <1>3, AnswerIs

\* The same as RungIs, of a set of seats or approvals.
LEMMA RungAllIs ==
    ASSUME NEW b \in Seq(Note), NEW kind \in {"asks", "lapsed", "offline", "approval"},
           NEW S \in SUBSET (Terminals \cup Approvals)
    PROVE  /\ RungAll(b, kind, S) \in Seq(Note)
           /\ Len(b) <= Len(RungAll(b, kind, S))
           /\ \A i \in 1..Len(b) : RungAll(b, kind, S)[i] = b[i]
           /\ \A i \in 1..Len(RungAll(b, kind, S)) :
                 i > Len(b) => RungAll(b, kind, S)[i][1] = kind
<1>1. SetToSeq(S) \in Seq(S)
  BY InOrder, PageAssumption, FS_Subset DEF PageAssumption
<1>2. {kind} \X S \subseteq Note
  BY DEF Note
<1> QED  BY <1>1, <1>2, RungIs DEF RungAll

\* A page of the history is lines of the ledger.
LEMMA HistoryLines ==
    ASSUME StoresOK, NEW c \in LoadCall
    PROVE  Lines(c.room, HistoryStart(c), HistoryEnd(c)) \in Seq(LedgerLine)
<1>1. c.room \in Rooms /\ c.arg.before \in Nat /\ lines[c.room] \in Nat
  BY PageCallIs DEF LoadCall, StoresOK
<1>2. HistoryEnd(c) \in Nat
  <2>1. CASE c.arg.before = 0
    BY <1>1, <2>1 DEF HistoryEnd
  <2>2. CASE c.arg.before # 0
    <3>1. c.arg.before - 1 \in Nat
      BY <1>1, <2>2
    <3> QED  BY <1>1, <2>2, <3>1, LowerIs DEF HistoryEnd
  <2> QED  BY <2>1, <2>2
<1>3. Limit \in Nat
  BY PageAssumption DEF PageAssumption
<1>4. Lower(Limit, HistoryEnd(c)) \in Nat /\ Lower(Limit, HistoryEnd(c)) <= HistoryEnd(c)
  BY <1>2, <1>3, LowerIs
<1>5. (HistoryEnd(c) + 1) - Lower(Limit, HistoryEnd(c)) \in Nat
  BY <1>2, <1>4
<1>6. HistoryStart(c) \in Nat
  BY <1>5, HigherIs DEF HistoryStart
<1> QED  BY <1>1, <1>2, <1>6, LinesAre

\* The actions, in groups that change the same parts of the state.
LEMMA SelectTypes ==
    ASSUME PageTypes, NEW r \in Rooms, SelectRoom(r), Len(loads) < MaxCalls,
           searching' \in BOOLEAN,
           UNCHANGED <<server, refused, mode, hidden, bell, poll, decision,
                       lists, finds, queries>>
    PROVE  PageTypes'
<1> USE DEF PageTypes
<1>1. StoresOK'
  BY Kept DEF server
<1>2. PlaceOK'
  BY DEF SelectRoom, PlaceOK
<1>3. HistoryOK'
  BY EmptySeq DEF SelectRoom, HistoryOK
<1>4. ListsOK'
  BY AnswerIs DEF SelectRoom, ListsOK
<1>5. SingleOK'
  <2>1. Sent(r, << >>) \in RefreshCall
    BY SentIs, AnswerIs DEF RefreshCall
  <2> QED  BY <2>1 DEF SelectRoom, SingleOK, RefreshSent
<1>6. SeveralOK'
  <2>1. Sent(r, [reset |-> TRUE, before |-> 0]) \in LoadCall
    BY SentIs DEF LoadCall
  <2>2. CASE loads' = loads
    BY <2>2 DEF SeveralOK
  <2>3. CASE loads' = Append(loads, Sent(r, [reset |-> TRUE, before |-> 0]))
    <3>1. MaxCalls \in Nat /\ Len(loads) \in Nat
      BY PageAssumption, LenProperties DEF PageAssumption, SeveralOK
    <3> QED  BY <2>1, <2>3, <3>1, AppendProperties DEF SeveralOK
  <2> QED  BY <2>2, <2>3 DEF SelectRoom
<1> QED  BY <1>1, <1>2, <1>3, <1>4, <1>5, <1>6

LEMMA LandPollTypes ==
    ASSUME PageTypes, Ready(poll), after' \in {after, poll.answer.last},
           settled' \in BOOLEAN, bell' \in {bell, Rung(bell, "line", News(poll))},
           poll' = NULL,
           UNCHANGED <<server, earlier, before, older, people, requests, focus,
                       refresh, decision, several, queries>>
    PROVE  PageTypes'
<1> USE DEF PageTypes
<1>1. StoresOK' /\ HistoryOK' /\ SeveralOK'
  BY Kept DEF server
<1>2. poll \in PollCall
  BY DEF Ready, SingleOK
<1>3. poll.answer.last \in Nat /\ poll.room \in Rooms /\ poll.arg \in Nat
  BY <1>2, PageCallIs DEF Ready, PollCall
<1>4. PlaceOK'
  BY <1>3 DEF PlaceOK, focus
<1>5. bell' \in Seq(Note)
  <2>1. News(poll) \in Seq(LedgerLine)
    BY <1>3, LinesAre DEF News
  <2>2. {"line"} \X LedgerLine \subseteq Note
    BY DEF Note
  <2> QED  BY <2>1, <2>2, RungIs DEF ListsOK
<1>6. ListsOK'
  BY <1>5 DEF ListsOK, people, requests
<1>7. SingleOK'
  BY DEF SingleOK
<1> QED  BY <1>1, <1>4, <1>6, <1>7

\* What a refresh finds new or gone are seats.
LEMMA RefreshIs ==
    ASSUME SingleOK, Ready(refresh)
    PROVE  /\ refresh.room \in Rooms /\ refresh.answer \in Answer
           /\ Newly(refresh) \subseteq Terminals
           /\ \A state : Missing(refresh, state) \subseteq Terminals
<1>1. refresh \in RefreshCall /\ refresh.served
  BY DEF Ready, SingleOK
<1>2. refresh.room \in Rooms /\ refresh.arg \in Answer /\ refresh.answer \in Answer
  BY <1>1, PageCallIs DEF RefreshCall
<1> QED  BY <1>2, AnswerIs DEF Newly, Missing

LEMMA SingleTypes ==
    ASSUME PageTypes, \/ Poll \/ ServePoll \/ Refresh \/ ServeRefresh \/ Show
                      \/ \E s \in Terminals, what \in {"join", "reject", "leave"} : Decide(s, what)
                      \/ ServeDecision
    PROVE  PageTypes'
<1> USE DEF PageTypes
<1>1. /\ UNCHANGED <<lines, view, people, requests, mode, room, searching, bell,
                     several, queries>>
      /\ hidden' \in BOOLEAN
  BY DEF Poll, ServePoll, Refresh, ServeRefresh, Show, Decide, ServeDecision, server,
         focus, since, PlaceOK
<1>2. PlaceOK'
  BY <1>1 DEF PlaceOK, view
<1>3. HistoryOK' /\ ListsOK' /\ SeveralOK'
  BY <1>1, Kept DEF view
<1>4. Sent(room, after) \in PollCall /\ Sent(room, seen) \in RefreshCall
  BY SentIs DEF PlaceOK, ListsOK, PollCall, RefreshCall
<1>5. StoresOK'
  BY <1>1 DEF Poll, ServePoll, Refresh, ServeRefresh, Show, Decide, ServeDecision, server,
         StoresOK
<1>6. SingleOK'
  <2>1. CASE Poll \/ Refresh \/ Show
    BY <1>4, <2>1 DEF Poll, Refresh, Show, RefreshSent, SingleOK
  <2>2. CASE ServePoll
    <3>1. poll \in PollCall
      BY <2>2 DEF ServePoll, Waits, SingleOK
    <3>2. poll.room \in Rooms /\ poll.arg \in Nat
      BY <3>1, PageCallIs DEF PollCall
    <3>3. Limit \in Nat /\ lines[poll.room] \in Nat /\ poll.arg + Limit \in Nat
      BY <3>2, PageAssumption DEF PageAssumption, StoresOK
    <3>4. [last |-> Lower(lines[poll.room], poll.arg + Limit),
           total |-> lines[poll.room]] \in [last : Nat, total : Nat]
      BY <3>3, LowerIs
    <3>5. poll' \in PollCall
      BY <2>2, <3>1, <3>4, AnsweredIs DEF ServePoll, PollCall
    <3> QED  BY <2>2, <3>5 DEF ServePoll, SingleOK
  <2>3. CASE ServeRefresh
    <3>1. refresh \in RefreshCall
      BY <2>3 DEF ServeRefresh, Waits, SingleOK
    <3>2. SeatsOf(refresh.room) \in Answer
      BY <3>1, PageCallIs, SeatsOfIs DEF RefreshCall
    <3>3. refresh' \in RefreshCall
      BY <2>3, <3>1, <3>2, AnsweredIs DEF ServeRefresh, RefreshCall
    <3> QED  BY <2>3, <3>3 DEF ServeRefresh, SingleOK
  <2>4. ASSUME NEW s \in Terminals, NEW what \in {"join", "reject", "leave"}, Decide(s, what)
        PROVE  SingleOK'
    <3>1. Sent(room, [seat |-> s, what |-> what]) \in DecisionCall
      BY SentIs DEF PlaceOK, DecisionCall
    <3> QED  BY <2>4, <3>1 DEF Decide, SingleOK
  <2>5. CASE ServeDecision
    <3>1. decision \in DecisionCall
      BY <2>5 DEF ServeDecision, Waits, SingleOK
    <3>2. PICK ok \in BOOLEAN : decision' = Answered(decision, ok)
      BY <2>5 DEF ServeDecision
    <3>3. decision' \in DecisionCall
      BY <3>1, <3>2, AnsweredIs DEF DecisionCall
    <3> QED  BY <2>5, <3>3 DEF ServeDecision, SingleOK
  <2> QED  BY <2>1, <2>2, <2>3, <2>4, <2>5
<1> QED  BY <1>2, <1>3, <1>5, <1>6

LEMMA LandSingleTypes ==
    ASSUME PageTypes, LandPoll \/ LandRefresh \/ LandDecision
    PROVE  PageTypes'
<1> USE DEF PageTypes
<1>1. CASE LandPoll
  <2>1. Ready(poll) /\ after' \in {after, poll.answer.last}
    BY <1>1 DEF LandPoll
  <2>2. bell' \in {bell, Rung(bell, "line", News(poll))}
    BY <1>1 DEF LandPoll
  <2>3. settled' \in BOOLEAN
    <3>1. CASE poll.room # room
      BY <1>1, <3>1 DEF LandPoll, PlaceOK
    <3>2. CASE poll.room = room
      BY <1>1, <3>2 DEF LandPoll
    <3> QED  BY <3>1, <3>2
  <2>4. poll' = NULL /\ UNCHANGED <<server, earlier, before, older, people, requests, focus,
                                   refresh, decision, several, queries>>
    BY <1>1 DEF LandPoll, since
  <2> QED  BY <2>1, <2>2, <2>3, <2>4, LandPollTypes
<1>2. CASE LandRefresh
  <2>1. StoresOK' /\ PlaceOK' /\ HistoryOK' /\ SeveralOK'
    BY <1>2, Kept DEF LandRefresh, server, view, since
  <2>2. SingleOK'
    BY <1>2 DEF LandRefresh, SingleOK
  <2>3. CASE refresh.room # room
    BY <1>2, <2>1, <2>2, <2>3 DEF LandRefresh, ListsOK, requests
  <2>4. CASE refresh.room = room
    <3>1. /\ Ready(refresh)
          /\ seen' = refresh.answer /\ refused' = refused \ Newly(refresh)
          /\ bell' = RungAll(RungAll(RungAll(bell, "asks", Newly(refresh)),
                                "lapsed", Missing(refresh, "asking") \ refused'),
                        "offline", Missing(refresh, "joined"))
          /\ listed' = listed /\ listedFor' = listedFor
      BY <1>2, <2>4 DEF LandRefresh, requests
    <3>2. /\ Newly(refresh) \in SUBSET (Terminals \cup Approvals)
          /\ Missing(refresh, "asking") \ refused' \in SUBSET (Terminals \cup Approvals)
          /\ Missing(refresh, "joined") \in SUBSET (Terminals \cup Approvals)
      BY <3>1, RefreshIs
    <3>3. bell' \in Seq(Note)
      BY <3>1, <3>2, RungAllIs DEF ListsOK
    <3> QED  BY <2>1, <2>2, <3>1, <3>3, RefreshIs DEF ListsOK
  <2> QED  BY <2>1, <2>2, <2>3, <2>4
<1>3. CASE LandDecision
  <2>1. StoresOK' /\ PlaceOK' /\ HistoryOK' /\ SeveralOK'
    BY <1>3, Kept DEF LandDecision, server, view, since
  <2>2. decision.arg.seat \in Terminals
    <3>1. decision \in DecisionCall
      BY <1>3 DEF LandDecision, Ready, SingleOK
    <3>2. decision.arg \in [seat : Terminals, what : {"join", "reject", "leave"}]
      BY <3>1, PageCallIs DEF DecisionCall
    <3> QED  BY <3>2
  <2>3. seen' \in Answer /\ refused' \subseteq Terminals
    BY <1>3, <2>2, Patched DEF LandDecision, ListsOK
  <2>4. ListsOK'
    BY <1>3, <2>3 DEF LandDecision, ListsOK, requests
  <2>5. Sent(room, seen') \in RefreshCall
    BY <2>3, SentIs DEF PlaceOK, RefreshCall
  <2>6. SingleOK'
    BY <1>3, <2>5 DEF LandDecision, SingleOK, RefreshSent
  <2> QED  BY <2>1, <2>4, <2>6
<1> QED  BY <1>1, <1>2, <1>3

\* A call sent or landed stays within the bound.
LEMMA SentOneMore ==
    ASSUME NEW S, NEW s \in Seq(S), NEW c \in S, Len(s) < MaxCalls
    PROVE  Append(s, c) \in Seq(S) /\ Len(Append(s, c)) <= MaxCalls
<1>1. MaxCalls \in Nat /\ Len(s) \in Nat
  BY PageAssumption, LenProperties DEF PageAssumption
<1> QED  BY <1>1, AppendProperties

LEMMA OneFewer ==
    ASSUME NEW S, NEW s \in Seq(S), NEW i \in DOMAIN s, Len(s) <= MaxCalls
    PROVE  RemoveAt(s, i) \in Seq(S) /\ Len(RemoveAt(s, i)) <= MaxCalls
<1>1. MaxCalls \in Nat /\ Len(s) \in Nat /\ Len(RemoveAt(s, i)) \in Nat
  BY PageAssumption, LenProperties, Removed DEF PageAssumption
<1> QED  BY <1>1, Removed

LEMMA ListTypes ==
    ASSUME PageTypes, NEW i, ListApprovals \/ ServeList(i) \/ LandList(i)
    PROVE  PageTypes'
<1> USE DEF PageTypes
<1>1. /\ UNCHANGED <<server, view, people, focus, single, loads, finds, queries>>
  BY DEF ListApprovals, ServeList, LandList, since
<1>2. StoresOK' /\ PlaceOK' /\ HistoryOK' /\ SingleOK'
  BY <1>1, Kept DEF server, view
<1>3. lists' \in Seq(ListCall) /\ Len(lists') <= MaxCalls
  <2>1. CASE ListApprovals
    <3>1. Sent(room, NULL) \in ListCall
      BY SentIs DEF ListCall, PlaceOK
    <3> QED  BY <2>1, <3>1, SentOneMore DEF ListApprovals, SeveralOK
  <2>2. CASE ServeList(i)
    <3>1. i \in DOMAIN lists /\ lists[i] \in ListCall
      BY <2>2, ElementIs DEF ServeList, SeveralOK
    <3>2. RequestedIn(lists[i].room) \in SUBSET Approvals
      BY DEF RequestedIn
    <3>3. Answered(lists[i], RequestedIn(lists[i].room)) \in ListCall
      BY <3>1, <3>2, AnsweredIs DEF ListCall
    <3> QED  BY <2>2, <3>1, <3>3, Replaced DEF ServeList, SeveralOK
  <2>3. CASE LandList(i)
    BY <2>3, OneFewer DEF LandList, SeveralOK
  <2> QED  BY <2>1, <2>2, <2>3
<1>4. SeveralOK'
  BY <1>1, <1>3 DEF SeveralOK
<1>5. ListsOK'
  <2>1. CASE ListApprovals \/ ServeList(i)
    BY <2>1, Kept DEF ListApprovals, ServeList
  <2>2. CASE LandList(i)
    <3>1. lists[i] \in ListCall /\ lists[i].served
      BY <2>2, ElementIs DEF LandList, SeveralOK, Ready
    <3>2. lists[i].answer \in SUBSET Approvals
      BY <3>1, PageCallIs DEF ListCall
    <3>3. bell' \in Seq(Note)
      <4>1. lists[i].answer \ listed \in SUBSET (Terminals \cup Approvals)
        BY <3>2
      <4> QED  BY <2>2, <4>1, RungAllIs DEF LandList, ListsOK
    <3> QED  BY <1>1, <2>2, <3>2, <3>3 DEF LandList, ListsOK, people, PlaceOK
  <2> QED  BY <2>1, <2>2
<1> QED  BY <1>2, <1>4, <1>5

LEMMA LoadTypes ==
    ASSUME PageTypes, NEW i, Older \/ ServeLoad(i) \/ LandLoad(i)
    PROVE  PageTypes'
<1> USE DEF PageTypes
<1>1. UNCHANGED <<server, after, settled, people, requests, focus, bell, single, lists,
                  finds, queries>>
  BY DEF Older, ServeLoad, LandLoad, view, since
<1>2. StoresOK' /\ PlaceOK' /\ ListsOK' /\ SingleOK'
  BY <1>1, Kept DEF server
<1>3. loads' \in Seq(LoadCall) /\ Len(loads') <= MaxCalls
  <2>1. CASE Older
    <3>1. Sent(room, [reset |-> FALSE, before |-> before]) \in LoadCall
      BY SentIs DEF LoadCall, PlaceOK, HistoryOK
    <3> QED  BY <2>1, <3>1, SentOneMore DEF Older, SeveralOK
  <2>2. CASE ServeLoad(i)
    <3>1. i \in DOMAIN loads /\ loads[i] \in LoadCall
      BY <2>2, ElementIs DEF ServeLoad, SeveralOK
    <3>2. Answered(loads[i], Lines(loads[i].room, HistoryStart(loads[i]),
                                   HistoryEnd(loads[i]))) \in LoadCall
      BY <3>1, HistoryLines, AnsweredIs DEF LoadCall
    <3> QED  BY <2>2, <3>1, <3>2, Replaced DEF ServeLoad, SeveralOK
  <2>3. CASE LandLoad(i)
    BY <2>3, OneFewer DEF LandLoad, SeveralOK
  <2> QED  BY <2>1, <2>2, <2>3
<1>4. SeveralOK'
  BY <1>1, <1>3 DEF SeveralOK
<1>5. HistoryOK'
  <2>1. CASE Older \/ ServeLoad(i)
    BY <2>1 DEF Older, ServeLoad, HistoryOK, view
  <2>2. CASE LandLoad(i)
    <3>1. loads[i] \in LoadCall /\ loads[i].served
      BY <2>2, ElementIs DEF LandLoad, SeveralOK, Ready
    <3>2. loads[i].answer \in Seq(LedgerLine)
      BY <3>1, PageCallIs DEF LoadCall
    <3>3. earlier' \in Seq(LedgerLine)
      BY <2>2, <3>2, EmptySeq, ConcatProperties DEF LandLoad, HistoryOK
    <3>4. earlier' # << >> => earlier'[1].seq \in Nat
      <4>1. earlier' # << >> => earlier'[1] \in LedgerLine
        BY <3>3, EmptySeq, ElementOfSeq
      <4> QED  BY <4>1 DEF LedgerLine
    <3> QED  BY <2>2, <3>3, <3>4 DEF LandLoad, HistoryOK
  <2> QED  BY <2>1, <2>2
<1> QED  BY <1>2, <1>4, <1>5

LEMMA FindTypes ==
    ASSUME PageTypes, NEW i, Search \/ ServeSearch(i) \/ LandSearch(i)
    PROVE  PageTypes'
<1> USE DEF PageTypes
<1>1. UNCHANGED <<server, after, settled, earlier, before, older, people, requests, mode, room,
                  hidden, bell, single, lists, loads>>
  BY DEF Search, ServeSearch, LandSearch, view, focus
<1>2. StoresOK' /\ HistoryOK' /\ ListsOK' /\ SingleOK'
  BY <1>1, Kept DEF server
<1>3. PlaceOK'
  <2>1. queries + 1 \in Nat
    BY DEF PlaceOK
  <2>2. queries' \in {queries, queries + 1} /\ searching' \in {searching, TRUE}
    BY DEF Search, ServeSearch, LandSearch, focus, since
  <2> QED  BY <1>1, <2>1, <2>2 DEF PlaceOK
<1>4. finds' \in Seq(FindCall) /\ Len(finds') <= MaxCalls
  <2>1. CASE Search
    <3>1. Sent(room, NULL) \in FindCall
      BY SentIs DEF FindCall, PlaceOK
    <3> QED  BY <2>1, <3>1, SentOneMore DEF Search, SeveralOK
  <2>2. CASE ServeSearch(i)
    <3>1. i \in DOMAIN finds /\ finds[i] \in FindCall
      BY <2>2, ElementIs DEF ServeSearch, SeveralOK
    <3>2. finds[i].room \in Rooms /\ lines[finds[i].room] \in Nat
      BY <3>1, PageCallIs DEF FindCall, StoresOK
    <3>3. Answered(finds[i], Lines(finds[i].room, lines[finds[i].room],
                                   lines[finds[i].room])) \in FindCall
      BY <3>1, <3>2, LinesAre, AnsweredIs DEF FindCall
    <3> QED  BY <2>2, <3>1, <3>3, Replaced DEF ServeSearch, SeveralOK
  <2>3. CASE LandSearch(i)
    BY <2>3, OneFewer DEF LandSearch, SeveralOK
  <2> QED  BY <2>1, <2>2, <2>3
<1>5. SeveralOK'
  BY <1>1, <1>4 DEF SeveralOK
<1> QED  BY <1>2, <1>3, <1>5

LEMMA FailTypes ==
    ASSUME PageTypes, Fail
    PROVE  PageTypes'
<1> USE DEF PageTypes
<1>1. UNCHANGED <<server, after, settled, earlier, before, people, requests, focus, bell,
                  queries>>
  BY DEF Fail, since
<1>2. StoresOK' /\ PlaceOK' /\ ListsOK'
  BY <1>1, Kept DEF server
<1>3. HistoryOK'
  BY <1>1 DEF Fail, FailSingle, FailOne, HistoryOK
<1>4. SingleOK'
  BY DEF Fail, FailSingle, FailOne, SingleOK, single
<1>5. SeveralOK'
  <2>1. CASE FailSingle
    BY <2>1, Kept DEF FailSingle
  <2>2. ASSUME NEW i, FailOne(i)
        PROVE  SeveralOK'
    BY <2>2, OneFewer DEF FailOne, SeveralOK
  <2> QED  BY <2>1, <2>2 DEF Fail
<1> QED  BY <1>2, <1>3, <1>4, <1>5

LEMMA OutsideTypes ==
    ASSUME PageTypes, \/ \E r \in Rooms : LineArrives(r)
                      \/ \E s \in Terminals : SeatMoves(s)
                      \/ \E a \in Approvals : ApprovalMoves(a)
                      \/ Hide
                      \/ UNCHANGED pageVars
    PROVE  PageTypes'
<1> USE DEF PageTypes
<1>1. /\ UNCHANGED <<view, people, requests, mode, room, searching, bell, single, several,
                     queries>>
      /\ hidden' \in BOOLEAN
  BY DEF LineArrives, SeatMoves, ApprovalMoves, Hide, view, people, requests, focus, single,
         several, since, PlaceOK, pageVars
<1>2. PlaceOK'
  BY <1>1 DEF PlaceOK, view
<1>3. HistoryOK' /\ ListsOK' /\ SingleOK' /\ SeveralOK'
  BY <1>1, Kept DEF view
<1>4. StoresOK'
  <2>1. ASSUME NEW r \in Rooms, LineArrives(r) PROVE StoresOK'
    <3>1. lines[r] + 1 \in Nat
      BY DEF StoresOK
    <3> QED  BY <2>1, <3>1 DEF LineArrives, StoresOK
  <2>2. ASSUME NEW s \in Terminals, SeatMoves(s) PROVE StoresOK'
    BY <2>2 DEF SeatMoves, StoresOK
  <2>3. CASE (\E a \in Approvals : ApprovalMoves(a)) \/ Hide \/ UNCHANGED pageVars
    BY <2>3 DEF ApprovalMoves, Hide, server, pageVars, StoresOK
  <2> QED  BY <2>1, <2>2, <2>3
<1> QED  BY <1>2, <1>3, <1>4

\* Every step keeps the shape.
LEMMA TypesStep == PageTypes /\ [PageNext]_pageVars => PageTypes'
<1> SUFFICES ASSUME PageTypes, [PageNext]_pageVars PROVE PageTypes'
  OBVIOUS
<1>1. CASE \E r \in Rooms : Select(r)
  BY <1>1, SelectTypes DEF Select, PageTypes, PlaceOK
<1>2. CASE ClearSearch
  BY <1>2, SelectTypes DEF ClearSearch, PageTypes, PlaceOK
<1>3. CASE Lands
  <2>1. CASE ServePoll \/ ServeRefresh \/ ServeDecision
    BY <2>1, SingleTypes
  <2>2. CASE LandPoll \/ LandRefresh \/ LandDecision
    BY <2>2, LandSingleTypes
  <2>3. ASSUME NEW i \in 1..MaxCalls,
               \/ ServeList(i) \/ LandList(i) \/ ServeLoad(i) \/ LandLoad(i)
               \/ ServeSearch(i) \/ LandSearch(i)
        PROVE  PageTypes'
    BY <2>3, ListTypes, LoadTypes, FindTypes
  <2> QED  BY <1>3, <2>1, <2>2, <2>3 DEF Lands
<1>4. CASE \/ Poll \/ Refresh \/ Show
           \/ \E s \in Terminals, what \in {"join", "reject", "leave"} : Decide(s, what)
  BY <1>4, SingleTypes
<1>5. CASE ListApprovals \/ Older \/ Search
  BY <1>5, ListTypes, LoadTypes, FindTypes
<1>6. CASE Fail
  BY <1>6, FailTypes
<1>7. CASE \/ \E r \in Rooms : LineArrives(r)
           \/ \E s \in Terminals : SeatMoves(s)
           \/ \E a \in Approvals : ApprovalMoves(a)
           \/ Hide
           \/ UNCHANGED pageVars
  BY <1>7, OutsideTypes
<1> QED  BY <1>1, <1>2, <1>3, <1>4, <1>5, <1>6, <1>7 DEF PageNext

LEMMA TypesInit == PageInit => PageTypes
<1> SUFFICES ASSUME PageInit PROVE PageTypes
  OBVIOUS
<1>1. Sent(room, << >>) \in RefreshCall
  BY SentIs, AnswerIs DEF PageInit, RefreshCall
<1>2. Sent(room, [reset |-> TRUE, before |-> 0]) \in LoadCall
  BY SentIs DEF PageInit, LoadCall
<1>3. MaxCalls \in Nat /\ 1 <= MaxCalls
  BY PageAssumption DEF PageAssumption
<1>4. StoresOK
  BY DEF PageInit, StoresOK
<1>5. PlaceOK /\ HistoryOK
  <2>1. PlaceOK
    BY DEF PageInit, PlaceOK
  <2>2. HistoryOK
    BY EmptySeq DEF PageInit, HistoryOK
  <2> QED  BY <2>1, <2>2
<1>6. SingleOK
  BY <1>1 DEF PageInit, SingleOK
<1>7. ListsOK
  BY AnswerIs DEF PageInit, ListsOK
<1>8. SeveralOK
  BY <1>2, <1>3 DEF PageInit, SeveralOK
<1> QED  BY <1>4, <1>5, <1>6, <1>7, <1>8 DEF PageTypes

-----------------------------------------------------------------------------
(* The ledger panel and the bell.                                          *)

\* What the panel and the bell depend on.
PollSays == after <= lines[room] /\ PollKnows
Bell == RungBefore /\ NewsOnce
Panel == Alone /\ LinesShown

\* The bell rings for anything but lines.
RingsElse ==
    \A i \in DOMAIN bell' : bell'[i][1] = "line" => i \in DOMAIN bell /\ bell'[i] = bell[i]

\* What is added with another kind adds no line.
LEMMA Elsewhere ==
    ASSUME NEW kind, kind # "line", NEW c, c \in Seq(Note), NEW b \in Seq(Note),
           Len(b) <= Len(c), \A i \in 1..Len(b) : c[i] = b[i],
           \A i \in 1..Len(c) : i > Len(b) => c[i][1] = kind
    PROVE  \A i \in DOMAIN c : c[i][1] = "line" => i \in DOMAIN b /\ c[i] = b[i]
<1> SUFFICES ASSUME NEW i \in 1..Len(c), c[i][1] = "line"
             PROVE  i \in 1..Len(b)
  BY LenProperties
<1>1. Len(b) \in Nat /\ Len(c) \in Nat /\ ~ (i > Len(b))
  BY LenProperties
<1> QED  BY <1>1

LEMMA NotLines ==
    ASSUME NEW b \in Seq(Note), NEW kind \in {"asks", "lapsed", "offline", "approval"},
           NEW S \in SUBSET (Terminals \cup Approvals)
    PROVE  \A i \in DOMAIN RungAll(b, kind, S) : RungAll(b, kind, S)[i][1] = "line" =>
              i \in DOMAIN b /\ RungAll(b, kind, S)[i] = b[i]
  BY RungAllIs, Elsewhere

\* The line of a notification.
LEMMA RungLineIs ==
    ASSUME ListsOK, NEW i \in DOMAIN bell, bell[i][1] = "line"
    PROVE  bell[i][2] \in LedgerLine /\ bell[i][2].room \in Rooms /\ bell[i][2].seq \in Nat
<1>1. bell[i] \in Note
  BY ElementIs DEF ListsOK
<1> QED  BY <1>1 DEF Note, LedgerLine

LEMMA AtMost ==
    ASSUME NEW a \in Nat, NEW b \in Nat, NEW c \in Nat, a <= b, b <= c
    PROVE  a <= c
  OBVIOUS

\* No line is rung for, and the page stays where it is or starts anew.
LEMMA BellRests ==
    ASSUME PageTypes, PageTypes', Bell, RingsElse,
           \A r \in Rooms : lines[r] <= lines'[r],
           settled' => settled /\ room' = room /\ after' = after
    PROVE  Bell'
<1>1. RungBefore'
  <2> SUFFICES ASSUME NEW i \in DOMAIN bell', bell'[i][1] = "line"
               PROVE  /\ bell'[i][2].seq <= lines'[bell'[i][2].room]
                      /\ settled' /\ bell'[i][2].room = room' => bell'[i][2].seq <= after'
    BY DEF RungBefore
  <2>1. i \in DOMAIN bell /\ bell[i][1] = "line" /\ bell'[i] = bell[i]
    BY DEF RingsElse
  <2>2. bell[i][2].room \in Rooms /\ bell[i][2].seq \in Nat
    BY <2>1, RungLineIs DEF PageTypes
  <2>3. lines[bell[i][2].room] \in Nat /\ lines'[bell[i][2].room] \in Nat
    BY <2>2 DEF PageTypes, StoresOK
  <2>4. bell[i][2].seq <= lines[bell[i][2].room]
    BY <2>1 DEF Bell, RungBefore
  <2>5. bell[i][2].seq <= lines'[bell[i][2].room]
    BY <2>2, <2>3, <2>4, AtMost
  <2> QED  BY <2>1, <2>5 DEF Bell, RungBefore
<1>2. NewsOnce'
  BY DEF NewsOnce, RingsElse, Bell
<1> QED  BY <1>1, <1>2 DEF Bell

\* A poll that is sent now, or still on its way.
LEMMA PollRests ==
    ASSUME PageTypes, PageTypes', PollSays, RingsElse,
           \A r \in Rooms : lines[r] <= lines'[r],
           \/ UNCHANGED <<room, after, settled>>
           \/ after' = 0 /\ settled' = FALSE,
           poll' \in {poll, NULL} \/ (poll' = Sent(room', after') /\ after' = after /\ room' = room)
    PROVE  PollSays'
<1>1. after' <= lines'[room']
  <2>1. /\ after \in Nat /\ lines[room] \in Nat /\ lines'[room'] \in Nat /\ lines'[room] \in Nat
        /\ room \in Rooms /\ room' \in Rooms
    BY DEF PageTypes, StoresOK, PlaceOK
  <2>2. after <= lines[room] /\ lines[room] <= lines'[room]
    BY <2>1 DEF PollSays
  <2>3. after <= lines'[room]
    BY <2>1, <2>2, AtMost
  <2> QED  BY <2>1, <2>3
<1>2. PollKnows'
  <2>1. CASE poll' = Sent(room', after')
    <3>1. /\ room' \in Rooms /\ after' \in Nat
      BY DEF PageTypes, PlaceOK
    <3> DEFINE c == Sent(room', after')
    <3>2. c.room = room' /\ c.arg = after' /\ ~ c.served
      BY SentFields
    <3>0. poll' = c
      BY <2>1
    <3> HIDE DEF c
    <3>3. poll'.room = room' /\ poll'.arg = after' /\ ~ poll'.served
      BY <3>0, <3>2
    <3> QED  BY <1>1, <3>3 DEF PollKnows
  <2>2. CASE poll' = poll /\ poll # NULL
    <3>1. poll \in PollCall
      BY <2>2 DEF PageTypes, SingleOK
    <3>2. /\ poll.room \in Rooms /\ poll.arg \in Nat
          /\ poll.served => poll.answer \in [last : Nat, total : Nat]
      BY <3>1, PageCallIs DEF PollCall
    <3>3. lines[poll.room] \in Nat /\ lines'[poll.room] \in Nat
          /\ lines[poll.room] <= lines'[poll.room]
      BY <3>2 DEF PageTypes, StoresOK
    <3>4. poll.arg <= lines'[poll.room]
      BY <2>2, <3>2, <3>3, AtMost DEF PollSays, PollKnows
    <3>5. poll.room = room' => poll.arg = after' \/ (after' = 0 /\ ~ settled')
      BY <2>2 DEF PollSays, PollKnows
    <3>6. ASSUME poll.served
          PROVE  /\ poll.arg <= poll.answer.last
                 /\ poll.answer.last <= poll.answer.total
                 /\ poll.answer.total <= lines'[poll.room]
                 /\ \A i \in DOMAIN bell' :
                       bell'[i][1] = "line" /\ bell'[i][2].room = poll.room =>
                           bell'[i][2].seq <= poll.answer.total
      <4>1. poll.answer.total \in Nat
        BY <3>2, <3>6
      <4>2. poll.answer.total <= lines'[poll.room]
        BY <2>2, <3>3, <3>6, <4>1, AtMost DEF PollSays, PollKnows
      <4> QED  BY <2>2, <3>6, <4>2 DEF PollSays, PollKnows, RingsElse
    <3> QED  BY <2>2, <3>4, <3>5, <3>6 DEF PollKnows
  <2>3. CASE poll' = NULL
    BY <2>3 DEF PollKnows
  <2> QED  BY <2>1, <2>2, <2>3
<1> QED  BY <1>1, <1>2 DEF PollSays

\* An answer lies between what was asked and the end of the ledger.
LEMMA Window ==
    ASSUME NEW l \in Nat, NEW a \in Nat, a <= l
    PROVE  a <= Lower(l, a + Limit) /\ Lower(l, a + Limit) <= l /\ Lower(l, a + Limit) \in Nat
<1>1. Limit \in Nat
  BY PageAssumption DEF PageAssumption
<1> QED  BY <1>1 DEF Lower

\* The server answers with what the ledger has, and so with all that was rung.
LEMMA ServePollSays ==
    ASSUME PageTypes, PollSays, RungBefore, ServePoll
    PROVE  PollSays'
<1> DEFINE r == poll.room
           x == [last |-> Lower(lines[r], poll.arg + Limit), total |-> lines[r]]
<1>1. poll \in PollCall /\ poll # NULL
  BY DEF ServePoll, Waits, PageTypes, SingleOK
<1>2. r \in Rooms /\ poll.arg \in Nat /\ lines[r] \in Nat
  BY <1>1, PageCallIs DEF PollCall, PageTypes, StoresOK
<1>3. poll.arg <= lines[r] /\ (r = room => poll.arg = after \/ (after = 0 /\ ~ settled))
  BY <1>1 DEF PollSays, PollKnows
<1>4. poll.arg <= x.last /\ x.last <= x.total /\ x.total = lines[r] /\ x.last \in Nat
  BY <1>2, <1>3, Window
<1> HIDE DEF x
<1>5. x \in [last : Nat, total : Nat]
  BY <1>2, <1>4 DEF x
<1>6. poll' = Answered(poll, x) /\ UNCHANGED <<lines, room, after, settled, bell>>
  BY DEF ServePoll, x, server, view, focus
<1>7. poll'.room = r /\ poll'.arg = poll.arg /\ poll'.answer = x
  <2>1. poll \in CallOf(Nat, [last : Nat, total : Nat])
    BY <1>1 DEF PollCall
  <2>2. /\ Answered(poll, x).room = r /\ Answered(poll, x).arg = poll.arg
        /\ Answered(poll, x).answer = x
    BY <2>1 DEF Answered, CallOf
  <2> QED  BY <1>6, <2>2
<1>8. after' <= lines'[room']
  BY <1>6 DEF PollSays
<1>9. \A i \in DOMAIN bell : bell[i][1] = "line" /\ bell[i][2].room = r =>
          bell[i][2].seq <= x.total
  BY <1>4 DEF RungBefore
<1>10. lines'[poll'.room] = lines[r] /\ room' = room /\ after' = after /\ settled' = settled
       /\ bell' = bell
  BY <1>6, <1>7
<1>11. lines[r] <= lines[r]
  BY <1>2
<1>12. PollKnows'
  BY <1>3, <1>4, <1>7, <1>9, <1>10, <1>11 DEF PollKnows
<1> QED  BY <1>8, <1>12 DEF PollSays

LEMMA WithinTail ==
    ASSUME NEW m \in Nat, NEW n \in Nat, NEW a \in Nat, NEW i \in Nat,
           i >= 1, m = a + 1, i <= n - m + 1
    PROVE  m + i - 1 = a + i /\ a + i <= n
  OBVIOUS

\* What a page finds new in an answer.
LEMMA NewsIs ==
    ASSUME PageTypes, PollSays, Ready(poll)
    PROVE  /\ poll.room \in Rooms /\ poll.arg \in Nat
           /\ poll.answer.last \in Nat /\ poll.answer.total \in Nat
           /\ poll.arg <= poll.answer.last /\ poll.answer.last <= poll.answer.total
           /\ poll.answer.total <= lines[poll.room]
           /\ News(poll) \in Seq(LedgerLine)
           /\ News(poll) = << >> => poll.arg = poll.answer.last
           /\ \A i \in DOMAIN News(poll) :
                 /\ News(poll)[i].room = poll.room
                 /\ News(poll)[i].seq = poll.arg + i
                 /\ News(poll)[i].seq <= poll.answer.last
                 /\ i \in Nat /\ i >= 1
<1>1. poll \in PollCall /\ poll # NULL /\ poll.served
  BY DEF Ready, PageTypes, SingleOK
<1>2. poll.room \in Rooms /\ poll.arg \in Nat /\ poll.answer \in [last : Nat, total : Nat]
  BY <1>1, PageCallIs DEF PollCall
<1>3. /\ poll.arg <= poll.answer.last /\ poll.answer.last <= poll.answer.total
      /\ poll.answer.total <= lines[poll.room]
  BY <1>1 DEF PollSays, PollKnows
<1> DEFINE m == poll.arg + 1
           n == poll.answer.last
           L == Lines(poll.room, m, n)
<1>4. m \in Nat /\ n \in Nat /\ News(poll) = L
  BY <1>2 DEF News
<1>5. /\ L \in Seq(LedgerLine) /\ Len(L) = (IF m <= n THEN n - m + 1 ELSE 0)
      /\ \A i \in 1..Len(L) : L[i].room = poll.room /\ L[i].seq = m + i - 1
  BY <1>2, <1>4, LinesAre
<1> HIDE DEF L
<1>6. DOMAIN L = 1..Len(L) /\ Len(L) \in Nat
  BY <1>5, LenProperties
<1>7. L = << >> => poll.arg = n
  <2> SUFFICES ASSUME L = << >> PROVE poll.arg = n
    OBVIOUS
  <2>1. Len(L) = 0
    BY EmptySeq
  <2> QED  BY <1>2, <1>3, <1>4, <1>5, <2>1
<1>8. ASSUME NEW i \in 1..Len(L)
      PROVE  /\ m + i - 1 = poll.arg + i /\ poll.arg + i <= n
             /\ i \in Nat /\ i >= 1
  <2> DEFINE a == poll.arg
             k == Len(L)
  <2>1. i \in Nat /\ i >= 1 /\ i <= k
    BY <1>6, <1>8
  <2>2. m \in Nat /\ n \in Nat /\ a \in Nat /\ m = a + 1
    BY <1>2, <1>4
  <2>3. k = (IF m <= n THEN n - m + 1 ELSE 0)
    BY <1>5
  <2> HIDE DEF m, n, a, k
  <2>4. i <= n - m + 1
    BY <2>1, <2>2, <2>3
  <2>5. m + i - 1 = a + i /\ a + i <= n
    BY <2>1, <2>2, <2>4, WithinTail
  <2> QED  BY <2>1, <2>5 DEF a
<1>9. ASSUME NEW i \in DOMAIN L
      PROVE  /\ L[i].room = poll.room /\ L[i].seq = poll.arg + i
             /\ L[i].seq <= n /\ i \in Nat /\ i >= 1
  <2>1. i \in 1..Len(L)
    BY <1>6, <1>9
  <2>2. L[i].room = poll.room /\ L[i].seq = m + i - 1
    BY <1>5, <2>1
  <2> QED  BY <1>8, <2>1, <2>2
<1>10. L \in Seq(LedgerLine) /\ News(poll) = L
  BY <1>4, <1>5
<1> QED  BY <1>2, <1>3, <1>7, <1>9, <1>10

\* A line that the page has not come to is none the bell has rung for.
LEMMA Fresh ==
    ASSUME PageTypes, PollSays, Bell, Ready(poll), poll.room = room, settled
    PROVE  \A i \in DOMAIN bell, j \in DOMAIN News(poll) :
              bell[i] # <<"line", News(poll)[j]>>
<1> SUFFICES ASSUME NEW i \in DOMAIN bell, NEW j \in DOMAIN News(poll),
                    bell[i] = <<"line", News(poll)[j]>>
             PROVE  FALSE
  OBVIOUS
<1>1. bell[i][1] = "line" /\ bell[i][2] = News(poll)[j]
  OBVIOUS
<1>2. bell[i][2].room = room /\ bell[i][2].seq = poll.arg + j
  BY <1>1, NewsIs
<1>3. bell[i][2].seq <= after
  BY <1>1, <1>2 DEF Bell, RungBefore
<1>4. poll.arg = after
  BY DEF Ready, PollSays, PollKnows
<1>5. poll.arg + j <= poll.arg
  BY <1>2, <1>3, <1>4
<1> QED  BY <1>5, NewsIs

\* News that differ from all the bell has are added as they are.
LEMMA RungFresh ==
    ASSUME NEW b \in Seq(Note), NEW s \in Seq(LedgerLine),
           \A i \in DOMAIN b, j \in DOMAIN s : b[i] # <<"line", s[j]>>
    PROVE  /\ Len(Rung(b, "line", s)) = Len(b) + Len(s)
           /\ Rung(b, "line", s) \in Seq(Note)
           /\ \A i \in 1..Len(b) : Rung(b, "line", s)[i] = b[i]
           /\ \A i \in 1..Len(Rung(b, "line", s)) : i > Len(b) =>
                 /\ i - Len(b) \in DOMAIN s
                 /\ Rung(b, "line", s)[i] = <<"line", s[i - Len(b)]>>
<1> DEFINE new == [i \in DOMAIN s |-> <<"line", s[i]>>]
<1>1. /\ DOMAIN s = 1..Len(s) /\ Len(s) \in Nat /\ DOMAIN b = 1..Len(b) /\ Len(b) \in Nat
      /\ \A i \in DOMAIN s : s[i] \in LedgerLine
  BY ElementIs, LenProperties
<1>2. new \in [1..Len(s) -> Note]
  BY <1>1 DEF Note
<1>3. new \in Seq(Note) /\ Len(new) = Len(s)
  BY <1>1, <1>2, SeqDef, LenProperties
<1>4. \A i \in 1..Len(s) : new[i] = <<"line", s[i]>>
  BY <1>1
<1>5. Rung(b, "line", s) = b \o (IF b # << >> /\ new # << >> /\ Last(b) = Head(new)
                                 THEN Tail(new) ELSE new)
  BY DEF Rung
<1> HIDE DEF new
<1>6. ~ (b # << >> /\ new # << >> /\ Last(b) = Head(new))
  <2> SUFFICES ASSUME b # << >>, new # << >>, Last(b) = Head(new) PROVE FALSE
    OBVIOUS
  <2>1. Len(b) \in DOMAIN b /\ 1 \in DOMAIN s
    BY <1>1, <1>3, EmptySeq
  <2>2. Last(b) = b[Len(b)] /\ Head(new) = new[1]
    BY <1>3, HeadTailProperties DEF Last
  <2>3. new[1] = <<"line", s[1]>>
    BY <1>1, <1>4, <2>1
  <2> QED  BY <2>1, <2>2, <2>3
<1>7. Rung(b, "line", s) = b \o new
  BY <1>5, <1>6
<1>8. /\ b \o new \in Seq(Note) /\ Len(b \o new) = Len(b) + Len(s)
      /\ \A i \in 1..(Len(b) + Len(s)) :
            (b \o new)[i] = IF i <= Len(b) THEN b[i] ELSE new[i - Len(b)]
  <2>1. /\ b \o new \in Seq(Note) /\ Len(b \o new) = Len(b) + Len(new)
        /\ \A i \in 1..(Len(b) + Len(new)) :
              (b \o new)[i] = IF i <= Len(b) THEN b[i] ELSE new[i - Len(b)]
    BY <1>3, ConcatProperties
  <2> QED  BY <1>3, <2>1
<1>9. \A i \in 1..Len(b) : (b \o new)[i] = b[i]
  BY <1>1, <1>8
<1>10. ASSUME NEW i \in 1..(Len(b) + Len(s)), i > Len(b)
       PROVE  i - Len(b) \in DOMAIN s /\ (b \o new)[i] = <<"line", s[i - Len(b)]>>
  <2>1. i - Len(b) \in 1..Len(s) /\ ~ (i <= Len(b))
    BY <1>1, <1>10
  <2> QED  BY <1>1, <1>4, <1>8, <2>1
<1> QED  BY <1>7, <1>8, <1>9, <1>10

LEMMA Between ==
    ASSUME NEW a \in Nat, NEW b \in Nat, NEW c \in Nat, NEW d \in Nat, a <= b, b <= c, c <= d
    PROVE  a <= c /\ b <= d /\ a <= d
  OBVIOUS

\* Where the page stands when an answer for its room has landed.
LEMMA Landed ==
    ASSUME PageTypes, PollSays, Ready(poll), poll.room = room,
           after' = IF News(poll) = << >> THEN after ELSE poll.answer.last
    PROVE  /\ after \in Nat /\ after' \in Nat /\ after <= poll.arg /\ after <= after'
           /\ settled => poll.arg = after /\ after' = poll.answer.last
           /\ after' <= poll.answer.last /\ after' <= lines[room]
<1>1. /\ after \in Nat /\ lines[room] \in Nat /\ settled \in BOOLEAN
  BY DEF PageTypes, StoresOK, PlaceOK
<1>2. poll.arg = after \/ (after = 0 /\ ~ settled)
  BY DEF Ready, PollSays, PollKnows
<1>3. /\ poll.arg \in Nat /\ poll.answer.last \in Nat /\ poll.answer.total \in Nat
      /\ poll.arg <= poll.answer.last /\ poll.answer.last <= poll.answer.total
      /\ poll.answer.total <= lines[room]
      /\ News(poll) = << >> => poll.arg = poll.answer.last
  BY NewsIs
<1>4. after <= poll.arg
  BY <1>1, <1>2, <1>3
<1>5. poll.answer.last <= lines[room] /\ after <= poll.answer.last /\ after <= lines[room]
  BY <1>1, <1>3, <1>4, Between
<1>6. CASE News(poll) = << >>
  BY <1>1, <1>2, <1>3, <1>4, <1>5, <1>6
<1>7. CASE News(poll) # << >>
  BY <1>1, <1>2, <1>3, <1>4, <1>5, <1>7
<1> QED  BY <1>6, <1>7

LEMMA LandPollBell ==
    ASSUME PageTypes, PollSays, Bell, LandPoll, poll.room = room
    PROVE  Bell'
<1>1. /\ Ready(poll) /\ after' = IF News(poll) = << >> THEN after ELSE poll.answer.last
      /\ bell' = IF settled /\ poll.arg > 0 THEN Rung(bell, "line", News(poll)) ELSE bell
      /\ settled' = (after' >= poll.answer.total)
      /\ lines' = lines /\ room' = room
  BY DEF LandPoll, server, focus
<1>2. /\ after \in Nat /\ after' \in Nat /\ after' <= lines[room]
      /\ settled => poll.arg = after /\ after' = poll.answer.last
  BY <1>1, Landed
<1>3. /\ poll.answer.last \in Nat /\ poll.answer.total \in Nat /\ poll.arg \in Nat
      /\ News(poll) \in Seq(LedgerLine)
      /\ \A i \in DOMAIN News(poll) :
                 /\ News(poll)[i].room = room
                 /\ News(poll)[i].seq = poll.arg + i
                 /\ News(poll)[i].seq <= poll.answer.last
                 /\ i \in Nat /\ i >= 1
  BY <1>1, NewsIs
\* Lines it has rung for before.
<1>4. ASSUME NEW i \in DOMAIN bell, bell[i][1] = "line"
      PROVE  /\ bell[i][2].seq <= lines[bell[i][2].room]
             /\ settled' /\ bell[i][2].room = room => bell[i][2].seq <= after'
  <2>1. bell[i][2].seq \in Nat
    BY <1>4, RungLineIs DEF PageTypes
  <2>2. bell[i][2].room = room => bell[i][2].seq <= poll.answer.total
    BY <1>1, <1>4 DEF Ready, PollSays, PollKnows
  <2>3. settled' => poll.answer.total <= after'
    BY <1>1, <1>2, <1>3
  <2>4. settled' /\ bell[i][2].room = room => bell[i][2].seq <= after'
    BY <1>2, <1>3, <2>1, <2>2, <2>3, AtMost
  <2> QED  BY <1>4, <2>4 DEF Bell, RungBefore
<1>5. CASE ~ (settled /\ poll.arg > 0)
  <2>1. bell' = bell
    BY <1>1, <1>5
  <2>2. RungBefore'
    BY <1>1, <1>4, <2>1 DEF RungBefore
  <2>3. NewsOnce'
    BY <2>1 DEF NewsOnce, Bell
  <2> QED  BY <2>2, <2>3 DEF Bell
<1>6. CASE settled /\ poll.arg > 0
  <2> DEFINE b == Len(bell)
             N == News(poll)
  <2>1. /\ bell \in Seq(Note) /\ DOMAIN bell = 1..b /\ b \in Nat
    BY LenProperties DEF PageTypes, ListsOK
  <2>2. \A i \in DOMAIN bell, j \in DOMAIN N : bell[i] # <<"line", N[j]>>
    BY <1>1, <1>6, Fresh
  <2>3. /\ bell' \in Seq(Note) /\ \A i \in 1..b : bell'[i] = bell[i]
        /\ \A i \in 1..Len(bell') : i > b =>
              i - b \in DOMAIN N /\ bell'[i] = <<"line", N[i - b]>>
    BY <1>1, <1>3, <1>6, <2>1, <2>2, RungFresh
  <2> HIDE DEF N
  <2>4. DOMAIN bell' = 1..Len(bell') /\ Len(bell') \in Nat
    BY <2>3, LenProperties
  <2>5. ASSUME NEW i \in DOMAIN bell'
        PROVE  i \in DOMAIN bell \/ i > b
    BY <2>1, <2>4
  <2>6. RungBefore'
    <3> SUFFICES ASSUME NEW i \in DOMAIN bell', bell'[i][1] = "line"
                 PROVE  /\ bell'[i][2].seq <= lines'[bell'[i][2].room]
                        /\ settled' /\ bell'[i][2].room = room' => bell'[i][2].seq <= after'
      BY DEF RungBefore
    <3>1. CASE i \in DOMAIN bell
      <4>1. bell'[i] = bell[i]
        BY <2>1, <2>3, <3>1
      <4> QED  BY <1>1, <1>4, <3>1, <4>1
    <3>2. CASE i > b
      <4>1. i - b \in DOMAIN N /\ bell'[i] = <<"line", N[i - b]>>
        BY <2>3, <2>4, <3>2
      <4>2. bell'[i][2] = N[i - b]
        BY <4>1
      <4>3. /\ N[i - b].room = room /\ N[i - b].seq <= poll.answer.last
            /\ N[i - b].seq = poll.arg + (i - b) /\ i - b \in Nat
        BY <1>3, <4>1 DEF N
      <4>4. poll.answer.last = after'
        BY <1>2, <1>6
      <4>5. N[i - b].seq \in Nat /\ lines[room] \in Nat
        BY <1>3, <4>3 DEF PageTypes, StoresOK, PlaceOK
      <4>6. N[i - b].seq <= after' /\ N[i - b].seq <= lines[room]
        BY <1>2, <4>3, <4>4, <4>5, AtMost
      <4> QED  BY <1>1, <4>2, <4>3, <4>6
    <3> QED  BY <2>5, <3>1, <3>2
  <2>7. ASSUME NEW i \in DOMAIN bell', NEW j \in DOMAIN bell',
               bell'[i] = bell'[j], bell'[i][1] = "line", i \in DOMAIN bell
        PROVE  i = j
    <3>1. bell'[i] = bell[i]
      BY <2>1, <2>3, <2>7
    <3>2. CASE j \in DOMAIN bell
      <4>1. bell'[j] = bell[j]
        BY <2>1, <2>3, <3>2
      <4> QED  BY <2>7, <3>1, <3>2, <4>1 DEF Bell, NewsOnce
    <3>3. CASE j > b
      <4>1. j - b \in DOMAIN N /\ bell'[j] = <<"line", N[j - b]>>
        BY <2>3, <2>4, <3>3
      <4> QED  BY <2>2, <2>7, <3>1, <4>1 DEF N
    <3> QED  BY <2>5, <3>2, <3>3
  <2>8. ASSUME NEW i \in DOMAIN bell', NEW j \in DOMAIN bell',
               bell'[i] = bell'[j], i > b, j > b
        PROVE  i = j
    <3>1. /\ i - b \in DOMAIN N /\ bell'[i] = <<"line", N[i - b]>>
          /\ j - b \in DOMAIN N /\ bell'[j] = <<"line", N[j - b]>>
      BY <2>3, <2>4, <2>8
    <3>2. N[i - b] = N[j - b]
      <4>1. bell'[i][2] = N[i - b]
        BY <3>1
      <4>2. bell'[j][2] = N[j - b]
        BY <3>1
      <4> QED  BY <2>8, <4>1, <4>2
    <3>3. poll.arg + (i - b) = poll.arg + (j - b)
      BY <1>3, <3>1, <3>2 DEF N
    <3> QED  BY <1>3, <2>1, <2>4, <3>3
  <2>9. NewsOnce'
    <3> SUFFICES ASSUME NEW i \in DOMAIN bell', NEW j \in DOMAIN bell',
                        bell'[i] = bell'[j], bell'[i][1] = "line"
                 PROVE  i = j
      BY DEF NewsOnce
    <3>1. CASE i \in DOMAIN bell
      BY <2>7, <3>1
    <3>2. CASE j \in DOMAIN bell
      BY <2>7, <3>2
    <3> QED  BY <2>5, <2>8, <3>1, <3>2
  <2> QED  BY <2>6, <2>9 DEF Bell
<1> QED  BY <1>5, <1>6

LEMMA LandPollPanel ==
    ASSUME PageTypes, PollSays, Panel, LandPoll, poll.room = room
    PROVE  Panel'
<1>1. /\ Ready(poll) /\ after' = IF News(poll) = << >> THEN after ELSE poll.answer.last
      /\ shown' = shown \o News(poll)
      /\ UNCHANGED <<room, mode, searching, older, loads, finds, queries>>
  BY DEF LandPoll, focus, several, since
<1>2. Alone'
  BY <1>1 DEF Panel, Alone
<1>3. ASSUME mode = "live", queries = 0
      PROVE  /\ shown' \in Seq(LedgerLine)
             /\ \A i \in DOMAIN shown' :
                   /\ shown'[i].room = room
                   /\ shown'[i].seq <= after'
                   /\ i > 1 => shown'[i - 1].seq < shown'[i].seq
  <2> DEFINE N == News(poll)
             k == Len(shown)
  <2>1. /\ shown \in Seq(LedgerLine) /\ DOMAIN shown = 1..k /\ k \in Nat
        /\ \A i \in DOMAIN shown :
              /\ shown[i].room = room /\ shown[i].seq <= after
              /\ i > 1 => shown[i - 1].seq < shown[i].seq
    BY <1>3, LenProperties DEF Panel, LinesShown
  <2>2. /\ N \in Seq(LedgerLine) /\ DOMAIN N = 1..Len(N) /\ Len(N) \in Nat /\ poll.arg \in Nat
        /\ poll.answer.last \in Nat
        /\ \A i \in DOMAIN N : /\ N[i].room = room /\ N[i].seq = poll.arg + i
                                     /\ N[i].seq <= poll.answer.last
    BY <1>1, NewsIs, LenProperties
  <2>3. /\ after \in Nat /\ after' \in Nat /\ after <= poll.arg /\ after <= after'
        /\ N # << >> => after' = poll.answer.last
    BY <1>1, Landed
  <2> HIDE DEF N
  <2>4. /\ shown \o N \in Seq(LedgerLine) /\ Len(shown \o N) = k + Len(N)
        /\ \A i \in 1..(k + Len(N)) :
              (shown \o N)[i] = IF i <= k THEN shown[i] ELSE N[i - k]
    BY <2>1, <2>2, ConcatProperties
  <2>5. shown' = shown \o N
    BY <1>1 DEF N
  <2>6. shown' \in Seq(LedgerLine) /\ DOMAIN shown' = 1..(k + Len(N))
    BY <2>4, <2>5, LenProperties
  <2>7. ASSUME NEW i \in 1..k
        PROVE  /\ shown'[i] = shown[i] /\ shown[i].seq \in Nat
               /\ shown'[i].room = room /\ shown'[i].seq <= after'
    <3>1. shown'[i] = shown[i]
      BY <2>1, <2>2, <2>4, <2>5
    <3>2. shown[i].seq \in Nat
      <4>1. shown[i] \in LedgerLine
        BY <2>1, ElementOfSeq
      <4> QED  BY <4>1 DEF LedgerLine
    <3>3. shown[i].seq <= after'
      BY <2>1, <2>3, <3>2, AtMost
    <3> QED  BY <2>1, <3>1, <3>2, <3>3
  <2>8. ASSUME NEW i \in 1..(k + Len(N)), i > k
        PROVE  /\ i - k \in DOMAIN N /\ shown'[i] = N[i - k]
               /\ shown'[i].room = room /\ shown'[i].seq = poll.arg + (i - k)
               /\ shown'[i].seq <= after'
    <3>1. i - k \in 1..Len(N) /\ ~ (i <= k)
      BY <2>1, <2>2, <2>8
    <3>2. shown'[i] = N[i - k]
      BY <2>4, <2>5, <3>1
    <3>3. N # << >>
      BY <2>2, <3>1, EmptySeq
    <3> QED  BY <2>2, <2>3, <3>1, <3>2, <3>3
  <2>9. ASSUME NEW i \in 1..(k + Len(N)), i > 1
        PROVE  shown'[i - 1].seq < shown'[i].seq
    <3>1. CASE i <= k
      <4>1. i \in 1..k /\ i - 1 \in 1..k
        BY <2>1, <2>9, <3>1
      <4> QED  BY <2>1, <2>7, <2>9, <4>1
    <3>2. CASE i = k + 1
      <4>1. i > k /\ i - k = 1 /\ i - 1 = k /\ k \in 1..k
        BY <2>1, <2>9, <3>2
      <4>2. shown'[i].seq = poll.arg + 1
        BY <2>8, <4>1
      <4>3. shown'[k] = shown[k] /\ shown[k].seq \in Nat /\ shown[k].seq <= after
        BY <2>1, <2>7, <4>1
      <4>4. shown[k].seq <= poll.arg
        BY <2>2, <2>3, <4>3, AtMost
      <4> QED  BY <2>2, <4>1, <4>2, <4>3, <4>4
    <3>3. CASE i > k + 1
      <4>1. i - 1 \in 1..(k + Len(N)) /\ i - 1 > k /\ i > k /\ i - k \in Nat
            /\ (i - 1) - k = (i - k) - 1
        BY <2>1, <2>2, <2>9, <3>3
      <4>2. shown'[i].seq = poll.arg + (i - k) /\ shown'[i - 1].seq = poll.arg + ((i - k) - 1)
        BY <2>8, <4>1
      <4> QED  BY <2>2, <4>1, <4>2
    <3> QED  BY <2>1, <2>2, <3>1, <3>2, <3>3
  <2>10. \A i \in 1..(k + Len(N)) : shown'[i].room = room /\ shown'[i].seq <= after'
    <3> SUFFICES ASSUME NEW i \in 1..(k + Len(N))
                 PROVE  shown'[i].room = room /\ shown'[i].seq <= after'
      OBVIOUS
    <3>1. i \in 1..k \/ i > k
      BY <2>1, <2>2
    <3> QED  BY <2>7, <2>8, <3>1
  <2> QED  BY <2>6, <2>9, <2>10
<1>4. LinesShown'
  BY <1>1, <1>3 DEF LinesShown
<1> QED  BY <1>2, <1>4 DEF Panel

\* A step that draws nothing, or empties the panel.
LEMMA PanelRests ==
    ASSUME PageTypes, Panel,
           UNCHANGED mode, queries' = queries,
           mode = "live" => loads' = loads /\ older' = older,
           queries = 0 => finds' = finds /\ (searching' = searching \/ ~ searching'),
           mode = "live" /\ queries = 0 =>
               \/ UNCHANGED <<room, after, shown>>
               \/ shown' = << >>
    PROVE  Panel'
<1>1. Alone'
  BY DEF Panel, Alone
<1>2. LinesShown'
  <2> SUFFICES ASSUME mode = "live", queries = 0
               PROVE  LinesShown'
    BY DEF LinesShown
  <2>1. CASE UNCHANGED <<room, after, shown>>
    BY <2>1 DEF Panel, LinesShown
  <2>2. CASE shown' = << >>
    BY <2>2, EmptySeq DEF LinesShown
  <2> QED  BY <2>1, <2>2
<1> QED  BY <1>1, <1>2 DEF Panel

\* Every step keeps the panel in the order of the ledger.
LEMMA PanelStep ==
    ASSUME PageTypes, PollSays, Panel, [PageNext]_pageVars
    PROVE  Panel'
<1>1. CASE LandPoll
  <2>1. CASE poll.room = room
    BY <1>1, <2>1, LandPollPanel
  <2>2. CASE poll.room # room
    BY <1>1, <2>2, PanelRests DEF LandPoll, focus, several, since
  <2> QED  BY <2>1, <2>2
<1>2. CASE \E r \in Rooms : Select(r)
  BY <1>2, PanelRests DEF Select, SelectRoom
<1>3. CASE ClearSearch
  BY <1>3, PanelRests DEF ClearSearch, SelectRoom
<1>4. CASE Search
  <2>1. queries \in Nat /\ queries' = queries + 1 /\ queries' # 0
    BY <1>4 DEF Search, PageTypes, PlaceOK
  <2> QED  BY <1>4, <2>1 DEF Search, Panel, Alone, LinesShown, view
<1>5. CASE Older \/ Fail
  <2>2. CASE Older
    BY <2>2, PanelRests DEF Older, Panel, Alone, focus, since
  <2>3. CASE Fail
    <3>1. UNCHANGED <<mode, queries, searching, room, after, shown>>
      BY <2>3 DEF Fail, focus, since
    <3>2. (mode = "live" => loads = << >>) /\ (queries = 0 => finds = << >>)
      BY DEF Panel, Alone
    <3>3. CASE FailSingle
      BY <3>1, <3>3, PanelRests DEF FailSingle, several
    <3>4. ASSUME NEW i, FailOne(i)
          PROVE  Panel'
      BY <3>1, <3>2, <3>4, PanelRests DEF FailOne
    <3> QED  BY <2>3, <3>3, <3>4 DEF Fail
  <2> QED  BY <1>5, <2>2, <2>3
<1>6. ASSUME NEW i, ServeLoad(i) \/ LandLoad(i)
      PROVE  Panel'
  <2>1. mode # "live"
    <3>1. i \in DOMAIN loads
      BY <1>6 DEF ServeLoad, LandLoad
    <3>2. mode = "live" => loads = << >>
      BY DEF Panel, Alone
    <3> QED  BY <3>1, <3>2
  <2>2. UNCHANGED <<mode, queries, finds, searching>>
    BY <1>6 DEF ServeLoad, LandLoad, focus, since
  <2> QED  BY <2>1, <2>2, PanelRests
<1>7. ASSUME NEW i, ServeSearch(i) \/ LandSearch(i)
      PROVE  Panel'
  <2>1. queries # 0
    BY <1>7 DEF ServeSearch, LandSearch, Panel, Alone
  <2>2. UNCHANGED <<mode, queries, loads, older>>
    BY <1>7 DEF ServeSearch, LandSearch, focus, since, view
  <2> QED  BY <2>1, <2>2, PanelRests
<1>8. CASE \/ ServePoll \/ ServeRefresh \/ LandRefresh \/ ServeDecision \/ LandDecision
           \/ Poll \/ Refresh \/ Hide \/ Show
           \/ UNCHANGED pageVars
  BY <1>8, PanelRests DEF ServePoll, ServeRefresh, LandRefresh, ServeDecision, LandDecision, Poll,
       Refresh, Hide, Show, pageVars, focus, several, since, view
<1>9. ASSUME NEW x, \/ ServeList(x) \/ LandList(x) \/ LineArrives(x) \/ SeatMoves(x)
                    \/ ApprovalMoves(x) \/ ListApprovals
                    \/ \E what \in {"join", "reject", "leave"} : Decide(x, what)
      PROVE  Panel'
  BY <1>9, PanelRests DEF ServeList, LandList, LineArrives, SeatMoves, ApprovalMoves, ListApprovals,
       Decide, focus, several, since, view
<1> QED  BY <1>1, <1>2, <1>3, <1>4, <1>5, <1>6, <1>7, <1>8, <1>9 DEF PageNext, Lands

\* The steps that say nothing new about lines.
LEMMA QuietPageStep ==
    ASSUME PageTypes, PageTypes', PollSays, Bell, RingsElse,
           \A r \in Rooms : lines[r] <= lines'[r],
           \/ UNCHANGED <<room, after, settled>>
           \/ after' = 0 /\ settled' = FALSE,
           \/ poll' \in {poll, NULL}
           \/ poll' = Sent(room', after') /\ after' = after /\ room' = room
    PROVE  PollSays' /\ Bell'
<1>1. settled' => settled /\ room' = room /\ after' = after
  BY DEF PageTypes, PlaceOK
<1> QED  BY <1>1, PollRests, BellRests

\* No line arrives, nothing rings.
LEMMA SameLines ==
    ASSUME PageTypes, lines' = lines
    PROVE  \A r \in Rooms : lines[r] <= lines'[r]
<1> SUFFICES ASSUME NEW r \in Rooms PROVE lines[r] <= lines[r]
  OBVIOUS
<1>1. lines[r] \in Nat
  BY DEF PageTypes, StoresOK
<1> QED  BY <1>1

LEMMA SameBell == bell' = bell => RingsElse
  BY DEF RingsElse

\* Every step keeps what a poll knows, and rings no line twice.
LEMMA BellStep ==
    ASSUME PageTypes, PageTypes', PollSays, Bell, [PageNext]_pageVars
    PROVE  PollSays' /\ Bell'
<1>1. CASE LandPoll
  <2>1. CASE poll.room = room
    <3>1. /\ Ready(poll) /\ after' = IF News(poll) = << >> THEN after ELSE poll.answer.last
          /\ lines' = lines /\ room' = room /\ poll' = NULL
      BY <1>1, <2>1 DEF LandPoll, server, focus
    <3>2. PollSays'
      BY <2>1, <3>1, Landed DEF PollSays, PollKnows
    <3> QED  BY <1>1, <2>1, <3>2, LandPollBell
  <2>2. CASE poll.room # room
    <3>1. /\ UNCHANGED <<lines, room, after, settled, bell>> /\ poll' = NULL
      BY <1>1, <2>2 DEF LandPoll, server, focus
    <3> QED  BY <3>1, QuietPageStep, SameLines, SameBell
  <2> QED  BY <2>1, <2>2
<1>2. CASE ServePoll
  <2>1. UNCHANGED <<lines, room, after, settled, bell>>
    BY <1>2 DEF ServePoll, server, view, focus
  <2>2. Bell'
    BY <2>1, BellRests, SameLines, SameBell DEF PageTypes, PlaceOK
  <2> QED  BY <1>2, <2>2, ServePollSays DEF Bell
<1>3. CASE Poll \/ Show
  <2>1. /\ UNCHANGED <<lines, room, after, settled, bell>>
        /\ poll' = poll \/ poll' = Sent(room, after)
    BY <1>3 DEF Poll, Show, server, view, focus
  <2> QED  BY <2>1, QuietPageStep, SameLines, SameBell
<1>4. CASE (\E r \in Rooms : Select(r)) \/ ClearSearch
  <2>1. lines' = lines /\ bell' = bell /\ poll' = poll /\ after' = 0 /\ settled' = FALSE
    BY <1>4 DEF Select, ClearSearch, SelectRoom, server
  <2> QED  BY <2>1, QuietPageStep, SameLines, SameBell
<1>5. CASE LandRefresh
  <2>1. UNCHANGED <<lines, room, after, settled, poll>>
    BY <1>5 DEF LandRefresh, server, view, focus
  <2>2. RingsElse
    <3>1. CASE refresh.room # room
      BY <1>5, <3>1, SameBell DEF LandRefresh
    <3>2. CASE refresh.room = room
      <4> DEFINE b1 == RungAll(bell, "asks", Newly(refresh))
                 b2 == RungAll(b1, "lapsed", Missing(refresh, "asking") \ refused')
                 b3 == RungAll(b2, "offline", Missing(refresh, "joined"))
      <4>1. bell' = b3 /\ Ready(refresh) /\ bell \in Seq(Note)
        BY <1>5, <3>2 DEF LandRefresh, PageTypes, ListsOK
      <4>2. /\ Newly(refresh) \in SUBSET (Terminals \cup Approvals)
            /\ Missing(refresh, "asking") \ refused' \in SUBSET (Terminals \cup Approvals)
            /\ Missing(refresh, "joined") \in SUBSET (Terminals \cup Approvals)
        BY <4>1, RefreshIs DEF PageTypes
      <4>3. /\ b1 \in Seq(Note)
            /\ \A i \in DOMAIN b1 : b1[i][1] = "line" => i \in DOMAIN bell /\ b1[i] = bell[i]
        BY <4>1, <4>2, RungAllIs, NotLines
      <4> HIDE DEF b1
      <4>4. /\ b2 \in Seq(Note)
            /\ \A i \in DOMAIN b2 : b2[i][1] = "line" => i \in DOMAIN b1 /\ b2[i] = b1[i]
        BY <4>2, <4>3, RungAllIs, NotLines
      <4> HIDE DEF b2
      <4>5. \A i \in DOMAIN b3 : b3[i][1] = "line" => i \in DOMAIN b2 /\ b3[i] = b2[i]
        BY <4>2, <4>4, NotLines
      <4> HIDE DEF b3
      <4> QED  BY <4>1, <4>3, <4>4, <4>5 DEF RingsElse
    <3> QED  BY <3>1, <3>2
  <2> QED  BY <2>1, <2>2, QuietPageStep, SameLines
<1>6. ASSUME NEW i, LandList(i)
      PROVE  PollSays' /\ Bell'
  <2>1. UNCHANGED <<lines, room, after, settled, poll>>
    BY <1>6 DEF LandList, server, view, focus, single
  <2>2. RingsElse
    <3>1. lists[i] \in ListCall /\ lists[i].served
      BY <1>6, ElementIs DEF LandList, PageTypes, SeveralOK, Ready
    <3>2. lists[i].answer \in SUBSET Approvals
      BY <3>1, PageCallIs DEF ListCall
    <3>3. lists[i].answer \ listed \in SUBSET (Terminals \cup Approvals) /\ bell \in Seq(Note)
      BY <3>2 DEF PageTypes, ListsOK
    <3>4. CASE bell' = bell
      BY <3>4, SameBell
    <3>5. CASE bell' = RungAll(bell, "approval", lists[i].answer \ listed)
      BY <3>3, <3>5, NotLines DEF RingsElse
    <3> QED  BY <1>6, <3>4, <3>5 DEF LandList
  <2> QED  BY <2>1, <2>2, QuietPageStep, SameLines
<1>7. ASSUME NEW r \in Rooms, LineArrives(r)
      PROVE  PollSays' /\ Bell'
  <2>1. UNCHANGED <<room, after, settled, poll, bell>>
    BY <1>7 DEF LineArrives, view, focus, single
  <2>2. ASSUME NEW q \in Rooms PROVE lines[q] <= lines'[q]
    <3>1. lines[q] \in Nat /\ lines[r] \in Nat /\ lines' = [lines EXCEPT ![r] = @ + 1]
      BY <1>7 DEF LineArrives, PageTypes, StoresOK
    <3>2. lines'[q] = IF q = r THEN lines[q] + 1 ELSE lines[q]
      BY <3>1 DEF PageTypes, StoresOK
    <3> QED  BY <3>1, <3>2
  <2> QED  BY <2>1, <2>2, QuietPageStep, SameBell
<1>8. CASE \/ ServeRefresh \/ ServeDecision \/ LandDecision \/ Refresh \/ ListApprovals
           \/ Older \/ Search \/ Hide \/ UNCHANGED pageVars
  <2>1. UNCHANGED <<lines, room, after, settled, poll, bell>>
    BY <1>8 DEF ServeRefresh, ServeDecision, LandDecision, Refresh, ListApprovals, Older, Search,
         Hide, pageVars, server, view, focus, single
  <2> QED  BY <2>1, QuietPageStep, SameLines, SameBell
<1>9. ASSUME NEW x, \/ SeatMoves(x) \/ ApprovalMoves(x) \/ ServeList(x) \/ ServeLoad(x)
                    \/ LandLoad(x) \/ ServeSearch(x) \/ LandSearch(x)
                    \/ \E what \in {"join", "reject", "leave"} : Decide(x, what)
      PROVE  PollSays' /\ Bell'
  <2>1. UNCHANGED <<lines, room, after, settled, poll, bell>>
    BY <1>9 DEF SeatMoves, ApprovalMoves, ServeList, ServeLoad, LandLoad, ServeSearch, LandSearch,
         Decide, server, view, focus, single
  <2> QED  BY <2>1, QuietPageStep, SameLines, SameBell
<1>10. CASE Fail
  <2>1. UNCHANGED <<lines, room, after, settled, bell>> /\ poll' \in {poll, NULL}
    BY <1>10 DEF Fail, FailSingle, FailOne, server, focus, single
  <2> QED  BY <2>1, QuietPageStep, SameLines, SameBell
<1> QED  BY <1>1, <1>2, <1>3, <1>4, <1>5, <1>6, <1>7, <1>8, <1>9, <1>10 DEF PageNext, Lands

-----------------------------------------------------------------------------
LEMMA PageInitHolds == PageInit => PageInv
<1> SUFFICES ASSUME PageInit PROVE PageInv
  OBVIOUS
<1>1. PageTypes
  BY TypesInit
<1>2. /\ after = 0 /\ poll = NULL /\ bell = << >> /\ shown = << >> /\ queries = 0
      /\ finds = << >> /\ ~ searching /\ (mode = "live" => loads = << >> /\ older = "hidden")
      /\ lines[room] = 1
  BY DEF PageInit
<1>3. after <= lines[room] /\ PollKnows /\ RungBefore /\ NewsOnce /\ Alone /\ LinesShown
  BY <1>2, EmptySeq DEF PollKnows, RungBefore, NewsOnce, Alone, LinesShown
<1> QED  BY <1>1, <1>3 DEF PageInv

\* The inductive invariant of the page: a poll in flight knows no more than the
\* ledger has and no less than the bell has rung for, the bell has rung for no
\* line that a settled page has yet to come to, and a live page neither loads
\* history nor, before the first search, finds anything (poll, selectRoom,
\* loadHistoryPage, runSearch).
THEOREM PageInvariant == PageSpec => []PageInv
<1>1. PageInit => PageInv
  BY PageInitHolds
<1>2. PageInv /\ [PageNext]_pageVars => PageInv'
  <2> SUFFICES ASSUME PageInv, [PageNext]_pageVars PROVE PageInv'
    OBVIOUS
  <2>1. PageTypes /\ PollSays /\ Bell /\ Panel
    BY DEF PageInv, PollSays, Bell, Panel
  <2>2. PageTypes'
    BY <2>1, TypesStep
  <2>3. PollSays' /\ Bell' /\ Panel'
    BY <2>1, <2>2, BellStep, PanelStep
  <2> QED  BY <2>2, <2>3 DEF PageInv, PollSays, Bell, Panel
<1> QED  BY <1>1, <1>2, PTL DEF PageSpec

\* What the page keeps has its shape, and it has no more calls of a kind in
\* flight than the bound says.
THEOREM PageTypeCorrect == PageSpec => []PageTypeOK
<1>1. PageInv => PageTypeOK
  BY AnswerIs DEF PageInv, PageTypes, PlaceOK, HistoryOK, ListsOK, SeveralOK, PageTypeOK
<1> QED  BY <1>1, PageInvariant, PTL

\* Until somebody searches, a live page shows lines of the selected room, each
\* once and in order, whatever answers come late (poll, selectRoom).
THEOREM LiveLedgerHolds == PageSpec => []LiveLedger
<1>1. PageInv => LiveLedger
  BY DEF PageInv, LinesShown, LiveLedger
<1> QED  BY <1>1, PageInvariant, PTL

\* The bell rings at most once for a line, whichever rooms the owner selects and
\* however often a ledger is read again (ingestRoomNotifications).
THEOREM NewsOnceHolds == PageSpec => []NewsOnce
<1>1. PageInv => NewsOnce
  BY DEF PageInv
<1> QED  BY <1>1, PageInvariant, PTL
=============================================================================
