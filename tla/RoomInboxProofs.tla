--------------------------- MODULE RoomInboxProofs ---------------------------
(***************************************************************************)
(* Theorems about the inbox for every number of seats, owners, loops,      *)
(* tokens, texts and deliveries.  The inductive invariant says, of each    *)
(* row on its own (RowInv), of the rows and the ledger (LedgerInv) and of  *)
(* each call that is under way (OpInv), what the next write relies on: in  *)
(* particular that a fresh read still describes the row, which is what the *)
(* compare-and-swap of #update is for, and that a prepared reply is never  *)
(* overwritten.                                                            *)
(***************************************************************************)
EXTENDS RoomInboxProps, SequenceTheorems, TLAPS

-----------------------------------------------------------------------------
(* The inductive invariant.                                                *)

\* A row is offered only in its pristine state, is held exactly while it has a
\* token, and carries a reply only where it can still be committed.
RowInv(r) ==
    /\ r.attempt \in 0..1
    /\ r.state \in {"none", "queued"} =>
          r.attempt = 0 /\ r.token = NONE /\ r.text = NONE /\ ~ r.cancel
    /\ r.token # NONE <=> r.state \in Held
    /\ r.text # NONE =>
          \/ r.state \in {"working", "replied"}
          \/ r.state = "failed" /\ r.reason = "uncertain"
    /\ r.reason = "uncertain" => r.state = "failed" /\ r.text # NONE
    /\ r.state = "replied" => r.text # NONE
    /\ ~ (r.cancel /\ r.text # NONE)

\* The ledger has at most one message for a row, and it is the prepared one.
LedgerInv ==
    /\ \A i \in DOMAIN ledger : row[ledger[i].d].text = ledger[i].text
    /\ \A i, j \in DOMAIN ledger : ledger[i].d = ledger[j].d => i = j
    /\ \A d \in Deliveries : row[d].state = "replied" =>
          row[d].seq \in DOMAIN ledger /\ ledger[row[d].seq].d = d

\* What a call knows of the row it has read, as long as the read is fresh.
Knows(o, r) ==
    /\ o.step \in UpdateSteps
    /\ o.step = "cancel" => r.state \in Open /\ r.text = NONE
    /\ o.step = "retry" =>
          r.state \in {"failed", "cancelled", "expired"} /\ r.reason # "uncertain"
    /\ o.step \in {"read", "working"} => r.state \in Held
    /\ o.step = "fail" => r.state \in Held /\ r.text = NONE
    /\ o.step = "confirm" => r.state \in Held /\ r.cancel
    /\ o.step = "prepare" =>
          /\ r.state = "working" /\ r.text = NONE /\ ~ r.cancel
          /\ o.text \in Texts
    /\ o.step = "commit" => r.state = "working"
    /\ o.step = "reconcile" => r.state = "working" \/ r.reason = "uncertain"

\* What a call keeps knowing whatever others write.
Bound(o) ==
    /\ o.step # "idle" => o.d \in Deliveries
    /\ o.step \in {"append", "finish"} =>
          o.text \in Texts /\ row[o.d].text = o.text
    /\ o.step \in {"finish", "commit", "reconcile"} => Committed(o.d)

OpInv == \A p \in Procs :
            Bound(op[p]) /\ (op[p].fresh => Knows(op[p], row[op[p].d]))

CoreTyped ==
    /\ row \in [Deliveries -> Row]
    /\ ledger \in Seq([d: Deliveries, text: Texts])
    /\ op \in [Procs -> Op]

Core ==
    /\ CoreTyped
    /\ \A d \in Deliveries : RowInv(row[d])
    /\ LedgerInv
    /\ OpInv

RestTyped ==
    /\ sent \in 0..MaxDeliveries
    /\ lapsed \subseteq Deliveries
    /\ aged \subseteq Deliveries
    /\ wait \in [Seats -> WaitLease]
    /\ loop \in [Loops -> Loop]
    /\ opened \in [Seats -> Loops \cup {NONE}]
    /\ alive \subseteq Seats

\* A row that was not inserted yet is blank.
UnsentBlank == \A d \in Deliveries : d > sent => row[d].state = "none"

IInv == Core /\ RestTyped /\ UnsentBlank

-----------------------------------------------------------------------------
(* Lemmas: what each kind of write keeps.                                  *)

\* The initial state satisfies the invariant.
LEMMA InitIInv == Init => IInv
<1> SUFFICES ASSUME Init PROVE IInv
  OBVIOUS
<1>1. NoRow \in Row /\ RowInv(NoRow)
  BY InboxAssumption DEF NoRow, Row, RowInv, Held, Open, Terminal
<1>2. Idle \in Op
  BY DEF Idle, Op, UpdateSteps
<1>3. CoreTyped
  BY <1>1, <1>2 DEF Init, CoreTyped
<1>4. \A d \in Deliveries : RowInv(row[d])
  BY <1>1 DEF Init
<1>5. LedgerInv
  BY <1>1 DEF Init, LedgerInv, NoRow
<1>6. OpInv
  BY DEF Init, OpInv, Bound, Knows, Idle
<1>7. RestTyped
  BY InboxAssumption DEF Init, RestTyped, WaitLease, NoWait, Loop, NoLoop
<1>8. UnsentBlank
  BY DEF Init, UnsentBlank, NoRow
<1> QED
  BY <1>3, <1>4, <1>5, <1>6, <1>7, <1>8 DEF IInv, Core

\* Every ledger entry is a message about some delivery.
LEMMA LedgerEntries ==
    ASSUME CoreTyped, NEW i \in DOMAIN ledger
    PROVE  ledger[i].d \in Deliveries /\ ledger[i].text \in Texts
<1>1. i \in 1..Len(ledger)
  BY LenProperties DEF CoreTyped
<1>2. ledger[i] \in [d: Deliveries, text: Texts]
  BY <1>1, ElementOfSeq DEF CoreTyped
<1> QED
  BY <1>2

\* The kept rewrite of one row: well formed, with the same reply and receipt.
Keeps(r, new) ==
    /\ RowInv(new)
    /\ r.text # NONE => new.text = r.text
    /\ new.state = "replied" => r.state = "replied" /\ new.seq = r.seq

\* A rewrite of rows that keeps every row well formed, every prepared reply and
\* every receipt keeps the core: the calls it makes stale know nothing any more.
LEMMA ReplaceCore ==
    ASSUME Core, NEW new, Replace(new), UNCHANGED ledger,
           new \in [Deliveries -> Row],
           \A d \in Deliveries : Keeps(row[d], new[d])
    PROVE  Core'
<1> USE DEF Core, Replace
<1>1. CoreTyped'
  BY DEF CoreTyped, Op
<1>2. (\A d \in Deliveries : RowInv(row[d]))'
  BY DEF Keeps
<1>3. LedgerInv'
  <2>1. \A i \in DOMAIN ledger : ledger[i].d \in Deliveries /\ ledger[i].text \in Texts
    BY LedgerEntries
  <2>2. \A i \in DOMAIN ledger : new[ledger[i].d].text = ledger[i].text
    BY <2>1, InboxAssumption DEF LedgerInv, Keeps
  <2>3. \A d \in Deliveries : new[d].state = "replied" =>
           new[d].seq \in DOMAIN ledger /\ ledger[new[d].seq].d = d
    BY DEF LedgerInv, Keeps
  <2> QED
    BY <2>2, <2>3 DEF LedgerInv
<1>4. \A d : Committed(d)' <=> Committed(d)
  BY DEF Committed
<1>5. ASSUME NEW p \in Procs
      PROVE  Bound(op[p])' /\ (op'[p].fresh => Knows(op'[p], row'[op'[p].d]))
  <2>1. op[p] \in Op /\ Bound(op[p]) /\ (op[p].fresh => Knows(op[p], row[op[p].d]))
    BY <1>5 DEF OpInv, CoreTyped
  <2>2. op'[p] = IF op[p].d # 0 /\ new[op[p].d] # row[op[p].d]
                 THEN [op[p] EXCEPT !.fresh = FALSE] ELSE op[p]
    BY <1>5
  <2>3. /\ op'[p].step = op[p].step
        /\ op'[p].d = op[p].d
        /\ op'[p].text = op[p].text
        /\ op'[p].fresh => op'[p] = op[p]
    BY <2>1, <2>2 DEF Op
  <2>4. Bound(op[p])'
    <3>1. op[p].step \in {"append", "finish"} => row'[op[p].d].text = op[p].text
      BY <2>1, InboxAssumption DEF Bound, Keeps
    <3> QED
      BY <1>4, <2>1, <2>3, <3>1 DEF Bound
  <2>5. ASSUME op'[p].fresh PROVE Knows(op'[p], row'[op'[p].d])
    <3>1. op'[p] = op[p] /\ op[p].fresh
      BY <2>3, <2>5
    <3>2. op[p].d \in Deliveries
      BY <2>1, <3>1 DEF Knows, UpdateSteps, Bound
    <3>3. op[p].d # 0
      BY <3>2, InboxAssumption DEF Deliveries
    <3>4. new[op[p].d] = row[op[p].d]
      BY <2>1, <2>2, <2>5, <3>3 DEF Op
    <3> QED
      BY <2>1, <3>1, <3>4
  <2> QED BY <2>4, <2>5
<1>6. OpInv'
  BY <1>5 DEF OpInv
<1> QED
  BY <1>1, <1>2, <1>3, <1>6

\* A call stays a call when what it has read is stale.
LEMMA StaleOp ==
    ASSUME NEW o \in Op
    PROVE  [o EXCEPT !.fresh = FALSE] \in Op
BY DEF Op

\* What the caller of a write may go on with: nothing, or the append of the
\* reply the row now carries.
GoesOn(next) ==
    /\ next \in Op /\ ~ next.fresh
    /\ next.step \in {"idle", "append"}
    /\ next.step = "append" =>
          /\ next.d \in Deliveries /\ next.text \in Texts
          /\ row'[next.d].text = next.text

\* A write of #update keeps the core, if the row it makes is well formed, has a
\* receipt once it is replied, and the caller goes on knowing what it should.
LEMMA UpdateCore ==
    ASSUME Core, NEW p \in Procs, NEW r, NEW next, Update(p, r, next),
           UNCHANGED ledger, op[p].d \in Deliveries,
           r \in Row, RowInv(r),
           row[op[p].d].text # NONE => r.text = row[op[p].d].text,
           r.state = "replied" => r.seq \in DOMAIN ledger /\ ledger[r.seq].d = op[p].d,
           GoesOn(next)
    PROVE  Core'
<1> DEFINE d == op[p].d
<1> USE DEF Core, Update
<1>0. /\ d \in Deliveries
      /\ row \in [Deliveries -> Row]
      /\ row' = [row EXCEPT ![d] = r]
      /\ op \in [Procs -> Op]
      /\ op' = [q \in Procs |-> IF q = p THEN next
                               ELSE IF op[q].d = d
                               THEN [op[q] EXCEPT !.fresh = FALSE] ELSE op[q]]
  BY DEF CoreTyped
<1>1. CoreTyped'
  <2>1. row' \in [Deliveries -> Row] /\ next \in Op
    BY <1>0 DEF GoesOn
  <2>2. ASSUME NEW q \in Procs PROVE op[q] \in Op /\ [op[q] EXCEPT !.fresh = FALSE] \in Op
    BY <1>0, StaleOp
  <2>3. op' \in [Procs -> Op]
    BY <1>0, <2>1, <2>2
  <2> QED
    BY <2>1, <2>3 DEF CoreTyped
<1>2. (\A e \in Deliveries : RowInv(row[e]))'
  BY <1>0
<1>3. LedgerInv'
  <2>1. \A i \in DOMAIN ledger : ledger[i].d \in Deliveries /\ ledger[i].text \in Texts
    BY LedgerEntries
  <2>2. \A i \in DOMAIN ledger : row'[ledger[i].d].text = ledger[i].text
    BY <1>0, <2>1, InboxAssumption DEF LedgerInv
  <2>3. \A e \in Deliveries : row'[e].state = "replied" =>
           row'[e].seq \in DOMAIN ledger /\ ledger[row'[e].seq].d = e
    BY <1>0 DEF LedgerInv
  <2> QED
    BY <2>2, <2>3 DEF LedgerInv
<1>4. \A e : Committed(e)' <=> Committed(e)
  BY DEF Committed
<1>5. ASSUME NEW q \in Procs
      PROVE  Bound(op[q])' /\ (op'[q].fresh => Knows(op'[q], row'[op'[q].d]))
  <2>1. op[q] \in Op /\ Bound(op[q]) /\ (op[q].fresh => Knows(op[q], row[op[q].d]))
    BY <1>5 DEF OpInv, CoreTyped
  <2>2. CASE q = p
    BY <1>0, <2>2 DEF GoesOn, Bound
  <2>3. CASE q # p
    <3>1. op'[q] = IF op[q].d = d THEN [op[q] EXCEPT !.fresh = FALSE] ELSE op[q]
      BY <1>0, <1>5, <2>3
    <3>2. /\ op'[q].step = op[q].step
          /\ op'[q].d = op[q].d
          /\ op'[q].text = op[q].text
          /\ op'[q].fresh => op'[q] = op[q] /\ op[q].d # d
      BY <2>1, <3>1 DEF Op
    <3>3. op[q].step \in {"append", "finish"} => row'[op[q].d].text = op[q].text
      BY <1>0, <2>1, InboxAssumption DEF Bound
    <3>4. Bound(op[q])'
      BY <1>4, <2>1, <3>2, <3>3 DEF Bound
    <3>5. op'[q].fresh => Knows(op'[q], row'[op'[q].d])
      BY <1>0, <2>1, <3>2 DEF Knows
    <3> QED
      BY <3>4, <3>5
  <2> QED
    BY <2>2, <2>3
<1>6. OpInv'
  BY <1>5 DEF OpInv
<1> QED
  BY <1>1, <1>2, <1>3, <1>6

\* A step that writes no row and no message keeps the core, if what it changes
\* of one call fits the rows.
LEMMA CallCore ==
    ASSUME Core, NEW p \in Procs, NEW o \in Op, op' = [op EXCEPT ![p] = o],
           UNCHANGED <<row, ledger>>,
           Bound(o), o.fresh => Knows(o, row[o.d])
    PROVE  Core'
<1> USE DEF Core
<1>1. CoreTyped'
  BY DEF CoreTyped
<1>2. (\A e \in Deliveries : RowInv(row[e]))' /\ LedgerInv'
  BY DEF LedgerInv
<1>3. \A e : Committed(e)' <=> Committed(e)
  BY DEF Committed
<1>4. ASSUME NEW q \in Procs
      PROVE  Bound(op[q])' /\ (op'[q].fresh => Knows(op'[q], row'[op'[q].d]))
  <2>1. CASE q = p
    <3>1. op'[q] = o
      BY <2>1 DEF CoreTyped
    <3> QED
      BY <1>3, <3>1 DEF Bound
  <2>2. CASE q # p
    <3>1. op'[q] = op[q]
      BY <2>2 DEF CoreTyped
    <3>2. Bound(op[q]) /\ (op[q].fresh => Knows(op[q], row[op[q].d]))
      BY DEF OpInv
    <3> QED
      BY <1>3, <3>1, <3>2 DEF Bound
  <2> QED
    BY <2>1, <2>2
<1> QED
  BY <1>1, <1>2, <1>4 DEF OpInv

\* The special case of a call that ends.
LEMMA EndCore ==
    ASSUME Core, NEW p \in Procs, op' = [op EXCEPT ![p] = Idle],
           UNCHANGED <<row, ledger>>
    PROVE  Core'
<1>1. Idle \in Op /\ Bound(Idle) /\ ~ Idle.fresh
  BY DEF Idle, Op, UpdateSteps, Bound
<1> QED
  BY <1>1, CallCore

\* A step that touches neither rows, ledger nor calls keeps the core.
LEMMA StutterCore ==
    ASSUME Core, UNCHANGED <<row, ledger, op>>
    PROVE  Core'
<1>1. \A e : Committed(e)' <=> Committed(e)
  BY DEF Committed
<1>2. OpInv'
  BY <1>1 DEF Core, OpInv, Bound, Knows
<1> QED
  BY <1>2 DEF Core, CoreTyped, LedgerInv

\* The sweep keeps every row well formed and gives an unacknowledged claim its
\* attempt back.
LEMMA SweptKeeps ==
    ASSUME Core
    PROVE  /\ Swept \in [Deliveries -> Row]
           /\ \A d \in Deliveries :
                 /\ Keeps(row[d], Swept[d])
                 /\ row[d].state = "none" => Swept[d] = row[d]
<1> SUFFICES ASSUME NEW d \in Deliveries
             PROVE  /\ Swept[d] \in Row
                    /\ Keeps(row[d], Swept[d])
                    /\ row[d].state = "none" => Swept[d] = row[d]
  BY DEF Swept
<1>0. row[d] \in Row /\ RowInv(row[d])
  BY DEF Core, CoreTyped
<1>1. CASE ~ Due(d)
  BY <1>0, <1>1 DEF Swept, Keeps
<1>2. CASE Due(d)
  <2>1. Swept[d] = SweptRow(row[d]) /\ row[d].state \in Held
    BY <1>2 DEF Swept, Due
  <2>2. CASE row[d].text # NONE
    <3>1. SweptRow(row[d]) = [row[d] EXCEPT !.state = "failed", !.token = NONE,
                                            !.reason = "uncertain"]
      BY <1>0, <2>2 DEF SweptRow, Unleased, Row
    <3>2. SweptRow(row[d]) \in Row
      BY <1>0, <3>1 DEF Row, Terminal
    <3>3. RowInv(SweptRow(row[d]))
      BY <1>0, <2>2, <3>1 DEF RowInv, Row, Held
    <3> QED
      BY <1>0, <2>1, <3>1, <3>2, <3>3 DEF Keeps, Row, Held
  <2>3. CASE row[d].text = NONE
    <3>1. row[d].state = "delivered"
      BY <1>2, <2>3 DEF Due, LeaseIsDeadline
    <3>2. Refunded(row[d]) = 0
      BY <1>0, <3>1 DEF RowInv, Refunded
    <3>3. /\ row[d].cancel => SweptRow(row[d]) =
                [Unleased(row[d], "cancelled") EXCEPT !.attempt = 0]
          /\ ~ row[d].cancel => SweptRow(row[d]) =
                [Unleased(row[d], "queued") EXCEPT !.attempt = 0]
      BY <2>3, <3>1, <3>2 DEF SweptRow
    <3> DEFINE back(state) == [row[d] EXCEPT !.state = state, !.token = NONE,
                                             !.attempt = 0]
    <3>4. /\ row[d].cancel => SweptRow(row[d]) = back("cancelled")
          /\ ~ row[d].cancel => SweptRow(row[d]) = back("queued")
      BY <1>0, <3>3 DEF Unleased, Row
    <3>5. back("cancelled") \in Row /\ back("queued") \in Row
      <4>1. 0 \in 0..MaxAttempts
        BY InboxAssumption
      <4>2. {"cancelled", "queued"} \subseteq Open \cup Terminal \cup {"none"}
        BY DEF Open, Terminal
      <4> QED
        BY <1>0, <4>1, <4>2 DEF Row
    <3>6. row[d].reason # "uncertain"
      BY <1>0, <2>3 DEF RowInv
    <3>7. row[d].cancel => RowInv(back("cancelled"))
      BY <1>0, <2>3, <3>6 DEF RowInv, Row, Held
    <3>8. ~ row[d].cancel => RowInv(back("queued"))
      BY <1>0, <2>3, <3>6 DEF RowInv, Row, Held
    <3>9. /\ back("cancelled").text = NONE /\ back("queued").text = NONE
          /\ back("cancelled").state = "cancelled" /\ back("queued").state = "queued"
      BY <1>0, <2>3 DEF Row
    <3> HIDE DEF back
    <3> QED
      BY <1>0, <2>1, <2>3, <3>1, <3>4, <3>5, <3>7, <3>8, <3>9 DEF Keeps, Row
  <2> QED
    BY <2>2, <2>3
<1> QED
  BY <1>1, <1>2

\* The collection of waiter rows keeps their type.
LEMMA CollectedTyped ==
    ASSUME wait \in [Seats -> WaitLease]
    PROVE  Collected \in [Seats -> WaitLease]
BY DEF Collected, NoWait, WaitLease

\* A rewritten row was inserted before.
LEMMA UpdateBlank ==
    ASSUME IInv, NEW p \in Procs, NEW r, NEW next, Update(p, r, next),
           row[op[p].d].state # "none", UNCHANGED sent
    PROVE  UnsentBlank'
BY DEF IInv, Core, CoreTyped, UnsentBlank, Update

\* What else a step of a call leaves alone.
LEMMA RestSame ==
    ASSUME IInv, UNCHANGED <<row, sent, lapsed, aged, waitVars, alive>>
    PROVE  RestTyped' /\ UnsentBlank'
BY DEF IInv, RestTyped, UnsentBlank, waitVars

-----------------------------------------------------------------------------
(* One lemma per group of actions.                                         *)

\* The clock, and the death of a process.
LEMMA ClockIInv ==
    ASSUME IInv,
           \/ \E d \in Deliveries : Lapse(d) \/ Age(d)
           \/ \E s \in Seats : WaitLeaseAges(s)
    PROVE  IInv'
<1>1. UNCHANGED <<row, ledger, op, sent>>
  BY DEF Lapse, Age, WaitLeaseAges, rowVars
<1>2. RestTyped'
  <2>1. CASE \E d \in Deliveries : Lapse(d) \/ Age(d)
    BY <2>1 DEF IInv, RestTyped, Lapse, Age, waitVars
  <2>2. CASE \E s \in Seats : WaitLeaseAges(s)
    BY <2>2 DEF IInv, RestTyped, WaitLeaseAges, WaitLease, rowVars
  <2> QED
    BY <2>1, <2>2
<1> QED
  BY <1>1, <1>2, StutterCore DEF IInv, UnsentBlank

\* A process that dies forgets its call and its loops, and no row.
LEMMA CrashIInv ==
    ASSUME IInv, NEW p \in Procs, Crash(p)
    PROVE  IInv'
<1>1. Core'
  BY EndCore DEF IInv, Crash, rowVars
<1>2. RestTyped'
  BY DEF IInv, RestTyped, Crash, rowVars, Loop, NoLoop
<1> QED
  BY <1>1, <1>2 DEF IInv, UnsentBlank, Crash, rowVars

\* A new request is blank but for its parties, and comes after all others.
LEMMA EnqueueIInv ==
    ASSUME IInv, NEW p \in Procs, NEW s \in Seats, Enqueue(p, s)
    PROVE  IInv'
<1> DEFINE d == sent + 1
           asked == [NoRow EXCEPT !.state = "queued", !.target = s,
                                  !.source = Source(p)]
           new == [Swept EXCEPT ![d] = asked]
<1>1. /\ d \in Deliveries
      /\ Replace(new)
      /\ sent' = d
      /\ lapsed' = Unswept
      /\ wait' = Collected
      /\ UNCHANGED <<aged, ledger, loop, opened, alive>>
  BY DEF Enqueue
<1>2. asked \in Row /\ RowInv(asked) /\ asked.state = "queued"
  <2>1. NoRow \in Row
    BY InboxAssumption DEF NoRow, Row
  <2>2. Source(p) \in Seats \cup {NONE} /\ "queued" \in Open
    BY DEF Source, Open
  <2>3. asked \in Row
    BY <2>1, <2>2 DEF Row
  <2>4. /\ asked.state = "queued" /\ asked.attempt = 0 /\ asked.token = NONE
        /\ asked.cancel = FALSE /\ asked.text = NONE /\ asked.reason = "none"
    <3>1. /\ NoRow.attempt = 0 /\ NoRow.token = NONE
          /\ NoRow.cancel = FALSE /\ NoRow.text = NONE /\ NoRow.reason = "none"
      BY DEF NoRow
    <3> QED
      BY <2>1, <3>1 DEF Row
  <2>5. RowInv(asked)
    <3> HIDE DEF asked
    <3> QED
      BY <2>4 DEF RowInv, Held
  <2> QED
    BY <2>3, <2>4, <2>5
<1>3. row[d] \in Row /\ RowInv(row[d]) /\ row[d].state = "none"
  BY <1>1 DEF IInv, Core, CoreTyped, UnsentBlank, RestTyped, Deliveries
<1>4. Swept \in [Deliveries -> Row] /\ \A e \in Deliveries : Keeps(row[e], Swept[e])
  BY SweptKeeps DEF IInv
<1>5. new \in [Deliveries -> Row]
  BY <1>1, <1>2, <1>4
<1>6. ASSUME NEW e \in Deliveries PROVE Keeps(row[e], new[e])
  <2>1. CASE e = d
    BY <1>1, <1>2, <1>3, <1>4, <2>1 DEF Keeps, RowInv
  <2>2. CASE e # d
    BY <1>4, <2>2
  <2> QED
    BY <2>1, <2>2
<1>7. Core'
  <2> HIDE DEF new
  <2> QED
    BY <1>1, <1>5, <1>6, ReplaceCore DEF IInv
<1>8. RestTyped'
  BY <1>1, CollectedTyped DEF IInv, RestTyped, Unswept, Deliveries
<1>9. UnsentBlank'
  <2> SUFFICES ASSUME NEW e \in Deliveries, e > d PROVE row'[e].state = "none"
    BY <1>1 DEF UnsentBlank
  <2>1. e # d /\ e > sent
    BY <1>1 DEF Deliveries, IInv, RestTyped
  <2>2. row'[e] = Swept[e]
    BY <1>1, <1>4, <2>1 DEF Replace
  <2> QED
    BY <2>1, <2>2, SweptKeeps DEF IInv, UnsentBlank
<1> QED
  BY <1>7, <1>8, <1>9 DEF IInv

\* A transaction that only sweeps; the call or the loop it is part of is apart.
LEMMA SweptIInv ==
    ASSUME IInv, Replace(Swept), lapsed' = Unswept, wait' = Collected,
           UNCHANGED <<sent, aged, ledger, opened, alive>>,
           loop' \in [Loops -> Loop]
    PROVE  IInv'
<1>1. Core'
  BY SweptKeeps, ReplaceCore DEF IInv
<1>2. RestTyped'
  BY CollectedTyped DEF IInv, RestTyped, Unswept
<1>3. UnsentBlank'
  BY SweptKeeps DEF IInv, UnsentBlank, Replace
<1> QED
  BY <1>1, <1>2, <1>3 DEF IInv

\* The sweep of list, get and waitForReply.
LEMMA SweepIInv == IInv /\ Sweep => IInv'
BY SweptIInv DEF Sweep, IInv, RestTyped

\* Expiry closes queued rows, which hold no reply.
LEMMA ExpireStaleIInv == IInv /\ ExpireStale => IInv'
<1> SUFFICES ASSUME IInv, ExpireStale PROVE IInv'
  OBVIOUS
<1> DEFINE stale == {d \in aged : row[d].state = "queued" /\ row[d].text = NONE}
           gone(r) == [Unleased(r, "expired") EXCEPT !.reason = "none"]
           new == [d \in Deliveries |-> IF d \in stale THEN gone(row[d]) ELSE row[d]]
<1>1. Replace(new) /\ UNCHANGED <<sent, lapsed, aged, ledger, waitVars, alive>>
  BY DEF ExpireStale
<1>2. ASSUME NEW d \in Deliveries
      PROVE  /\ new[d] \in Row
             /\ Keeps(row[d], new[d])
             /\ row[d].state = "none" => new[d] = row[d]
  <2>0. row[d] \in Row /\ RowInv(row[d])
    BY DEF IInv, Core, CoreTyped
  <2>1. CASE d \in stale
    <3>1. new[d] = [row[d] EXCEPT !.state = "expired", !.token = NONE, !.reason = "none"]
      BY <2>0, <2>1 DEF Unleased, Row
    <3>2. row[d].state = "queued" /\ row[d].text = NONE
      BY <2>1
    <3> HIDE DEF new
    <3>3. new[d] \in Row
      BY <2>0, <3>1 DEF Row, Terminal
    <3>4. RowInv(new[d])
      BY <2>0, <3>1, <3>2 DEF RowInv, Row, Held
    <3> QED
      BY <2>0, <3>1, <3>2, <3>3, <3>4 DEF Keeps, Row
  <2>2. CASE d \notin stale
    BY <2>0, <2>2 DEF Keeps
  <2> QED
    BY <2>1, <2>2
<1>3. new \in [Deliveries -> Row]
  BY <1>2
<1> HIDE DEF new
<1>4. Core'
  BY <1>1, <1>2, <1>3, ReplaceCore DEF IInv
<1>5. UnsentBlank'
  BY <1>1, <1>2 DEF IInv, UnsentBlank, Replace
<1> QED
  BY <1>1, <1>4, <1>5 DEF IInv, RestTyped, waitVars

\* The reconciliation of work whose seat is gone.
LEMMA OfflineIInv ==
    ASSUME IInv, NEW D, D \subseteq Deliveries, SeatOffline(D),
           \A d \in D : row[d].state \in Open /\ row[d].text = NONE
    PROVE  IInv'
<1> DEFINE gone(r) == [Unleased(r, "failed") EXCEPT !.reason = "other"]
           new == [d \in Deliveries |-> IF d \in D THEN gone(row[d]) ELSE row[d]]
<1>1. Replace(new) /\ lapsed' = lapsed \ D /\ UNCHANGED <<sent, aged, ledger, waitVars, alive>>
  BY DEF SeatOffline
<1>2. ASSUME NEW d \in Deliveries
      PROVE  /\ new[d] \in Row
             /\ Keeps(row[d], new[d])
             /\ row[d].state = "none" => new[d] = row[d]
  <2>0. row[d] \in Row /\ RowInv(row[d])
    BY DEF IInv, Core, CoreTyped
  <2>1. CASE d \in D
    <3>1. new[d] = [row[d] EXCEPT !.state = "failed", !.token = NONE, !.reason = "other"]
      BY <2>0, <2>1 DEF Unleased, Row
    <3>2. row[d].state \in Open /\ row[d].text = NONE
      BY <2>1
    <3> HIDE DEF new
    <3>3. new[d] \in Row
      BY <2>0, <3>1 DEF Row, Terminal
    <3>4. RowInv(new[d])
      BY <2>0, <3>1, <3>2 DEF RowInv, Row, Held
    <3> QED
      BY <2>0, <3>1, <3>2, <3>3, <3>4 DEF Keeps, Row, Open, Held
  <2>2. CASE d \notin D
    BY <2>0, <2>2 DEF Keeps
  <2> QED
    BY <2>1, <2>2
<1>3. new \in [Deliveries -> Row]
  BY <1>2
<1> HIDE DEF new
<1>4. Core'
  BY <1>1, <1>2, <1>3, ReplaceCore DEF IInv
<1>5. UnsentBlank'
  BY <1>1, <1>2 DEF IInv, UnsentBlank, Replace
<1> QED
  BY <1>1, <1>4, <1>5 DEF IInv, RestTyped, waitVars

\* Unregistering a seat closes its open rows, the prepared ones excepted.
LEMMA FailTargetIInv ==
    ASSUME IInv, NEW s \in Seats, FailTarget(s)
    PROVE  IInv'
BY OfflineIInv DEF FailTarget, Pending

\* So does the check of one delivery whose target is gone.
LEMMA FailDeliveryIInv ==
    ASSUME IInv, NEW d \in Deliveries, FailDelivery(d)
    PROVE  IInv'
BY OfflineIInv DEF FailDelivery

\* Hands out the oldest queued row of the swept inbox.
LEMMA ClaimIInv ==
    ASSUME IInv, NEW w \in Loops, Claim(w)
    PROVE  IInv'
<1>1. PICK d \in Queued(Swept, LoopSeat[w]), t \in Tokens :
         /\ Replace([Swept EXCEPT ![d].state = "delivered", ![d].token = t,
                                  ![d].attempt = @ + 1])
         /\ lapsed' = Unswept
         /\ loop' = [loop EXCEPT ![w] = [step |-> "return", d |-> d]]
  BY DEF Claim
<1> DEFINE given == [Swept[d] EXCEPT !.state = "delivered", !.token = t, !.attempt = @ + 1]
           new == [Swept EXCEPT ![d] = given]
<1>2. Swept \in [Deliveries -> Row] /\ \A e \in Deliveries : Keeps(row[e], Swept[e])
  BY SweptKeeps DEF IInv
<1>3. d \in Deliveries /\ Swept[d].state = "queued"
  BY DEF Queued
<1>4. new = [Swept EXCEPT ![d].state = "delivered", ![d].token = t, ![d].attempt = @ + 1]
  BY <1>2, <1>3
<1>5. Swept[d] \in Row /\ RowInv(Swept[d]) /\ Swept[d].attempt = 0
  BY <1>2, <1>3 DEF Keeps, RowInv
<1>6. given = [Swept[d] EXCEPT !.state = "delivered", !.token = t, !.attempt = 1]
  BY <1>5 DEF Row
<1>7. given \in Row
  <2>1. 1 \in 0..MaxAttempts /\ "delivered" \in Open
    BY InboxAssumption DEF Open, Held
  <2> QED
    BY <1>5, <1>6, <2>1 DEF Row
<1>8. /\ given.state = "delivered" /\ given.token = t /\ given.attempt = 1
      /\ given.text = NONE /\ given.cancel = FALSE /\ given.reason # "uncertain"
  BY <1>3, <1>5, <1>6 DEF Row, RowInv
<1> HIDE DEF given
<1>9. RowInv(given)
  BY <1>8, InboxAssumption DEF RowInv, Held
<1>10. row[d].text = NONE /\ row[d].state # "none"
  BY <1>2, <1>3, <1>5, SweptKeeps DEF Keeps, RowInv, IInv, Core
<1>11. new \in [Deliveries -> Row]
  BY <1>2, <1>3, <1>7
<1>12. \A e \in Deliveries : Keeps(row[e], new[e])
  BY <1>2, <1>3, <1>8, <1>9, <1>10 DEF Keeps
<1>13. Replace(new) /\ wait' = Collected /\ UNCHANGED <<sent, aged, ledger, opened, alive>>
  BY <1>1, <1>4 DEF Claim
<1>14. \A e \in Deliveries : row[e].state = "none" => new[e] = row[e]
  BY <1>2, <1>3, <1>10, SweptKeeps DEF IInv
<1> HIDE DEF new
<1>15. Core'
  BY <1>11, <1>12, <1>13, ReplaceCore DEF IInv
<1>16. RestTyped'
  BY <1>1, <1>3, <1>13, CollectedTyped DEF IInv, RestTyped, Unswept, Loop
<1>17. UnsentBlank'
  BY <1>13, <1>14 DEF IInv, UnsentBlank, Replace
<1> QED
  BY <1>15, <1>16, <1>17 DEF IInv

\* The steps of a wait loop that move no delivery.
LEMMA LoopIInv ==
    ASSUME IInv, NEW w \in Loops,
           \/ BeginWait(w) \/ LeaseLost(w) \/ ClaimNothing(w)
           \/ Refresh(w) \/ StopWait(w) \/ ReturnClaim(w)
    PROVE  IInv'
<1>0. /\ wait \in [Seats -> WaitLease] /\ loop \in [Loops -> Loop]
      /\ opened \in [Seats -> Loops \cup {NONE}]
      /\ LoopSeat[w] \in Seats /\ loop[w] \in Loop
  BY InboxAssumption DEF IInv, RestTyped
<1>1. NoLoop \in Loop /\ NoWait \in WaitLease
  BY DEF NoLoop, Loop, NoWait, WaitLease
<1>2. CASE ClaimNothing(w)
  <2>1. loop' \in [Loops -> Loop]
    BY <1>0, <1>2 DEF ClaimNothing, Loop
  <2> QED
    BY <1>2, <2>1, SweptIInv DEF ClaimNothing
<1>3. ASSUME UNCHANGED <<row, sent, lapsed, aged, ledger, op, alive>>,
             wait' \in [Seats -> WaitLease], loop' \in [Loops -> Loop],
             opened' \in [Seats -> Loops \cup {NONE}]
      PROVE  IInv'
  BY <1>3, StutterCore DEF IInv, RestTyped, UnsentBlank
<1>4. CASE BeginWait(w)
  <2>1. [loop |-> w, age |-> "live"] \in WaitLease
    BY DEF WaitLease
  <2>2. wait' \in [Seats -> WaitLease]
    BY <1>0, <1>4, <2>1, CollectedTyped DEF BeginWait
  <2> QED
    BY <1>0, <1>3, <1>4, <2>2 DEF BeginWait, Loop, rowVars
<1>5. CASE LeaseLost(w)
  BY <1>0, <1>1, <1>3, <1>5 DEF LeaseLost, rowVars
<1>6. CASE Refresh(w)
  <2>1. wait' \in [Seats -> WaitLease]
    BY <1>0, <1>6 DEF Refresh, WaitLease
  <2> QED
    BY <1>0, <1>3, <1>6, <2>1 DEF Refresh, Loop, rowVars
<1>7. EndWait(w) \in [Seats -> WaitLease]
  BY <1>0, <1>1 DEF EndWait
<1>8. CASE StopWait(w)
  BY <1>0, <1>1, <1>3, <1>7, <1>8 DEF StopWait, rowVars
<1>9. CASE ReturnClaim(w)
  BY <1>0, <1>1, <1>3, <1>7, <1>9 DEF ReturnClaim, rowVars
<1> QED
  BY <1>2, <1>4, <1>5, <1>6, <1>8, <1>9

-----------------------------------------------------------------------------
(* Calls: the read that begins them and the write that ends them.          *)

\* A call that has read its row enters its next step.
LEMMA EnterIInv ==
    ASSUME IInv, NEW p \in Procs, NEW step, NEW d \in Deliveries,
           NEW t \in Tokens \cup {NONE}, NEW x \in Texts \cup {NONE},
           Enter(p, step, d, t, x), UNCHANGED <<rowVars, waitVars, alive>>,
           step \in UpdateSteps \cup {"append", "finish"},
           LET o == [step |-> step, d |-> d, tok |-> t, text |-> x,
                     fresh |-> step \in UpdateSteps]
           IN  Bound(o) /\ (step \in UpdateSteps => Knows(o, row[d]))
    PROVE  IInv'
<1> DEFINE o == [step |-> step, d |-> d, tok |-> t, text |-> x,
                 fresh |-> step \in UpdateSteps]
<1>1. o \in Op /\ o.d = d /\ (o.fresh <=> step \in UpdateSteps)
  <2>1. (step \in UpdateSteps) \in BOOLEAN
    OBVIOUS
  <2>2. o.fresh = (step \in UpdateSteps)
    BY Zenon
  <2>3. o \in Op
    BY <2>1, Zenon DEF Op
  <2> QED
    BY <2>2, <2>3
<1>2. op' = [op EXCEPT ![p] = o]
  BY DEF Enter
<1>3. Bound(o) /\ (o.fresh => Knows(o, row[d]))
  BY <1>1
<1> HIDE DEF o
<1>4. Core'
  BY <1>1, <1>2, <1>3, CallCore DEF IInv, rowVars
<1> QED
  BY <1>4, RestSame DEF IInv, rowVars

\* The owner's cancel and retry have read an open, or a closed, row.
LEMMA OwnerCallIInv ==
    ASSUME IInv, NEW p \in Owners, OwnerCall(p)
    PROVE  IInv'
<1>1. PICK d \in Deliveries : Cancel(p, d) \/ Retry(p, d)
  BY DEF OwnerCall
<1>2. CASE Cancel(p, d)
  BY <1>2, EnterIInv DEF Cancel, Bound, Knows, UpdateSteps, Procs
<1>3. CASE Retry(p, d)
  BY <1>3, EnterIInv DEF Retry, Bound, Knows, UpdateSteps, Procs
<1> QED
  BY <1>1, <1>2, <1>3

\* A row with the caller's token is held.
LEMMA AuthorizedHeld ==
    ASSUME IInv, NEW d \in Deliveries, NEW t \in Tokens, Authorized(d, t)
    PROVE  row[d].state \in Held
BY InboxAssumption DEF IInv, Core, RowInv, Authorized

\* A seat's ack, fail, reply and waitForReply have read the row they name.
LEMMA SeatCallIInv ==
    ASSUME IInv, NEW s \in Seats, SeatCall(s)
    PROVE  IInv'
<1>0. s \in Procs
  BY DEF Procs
<1>1. ASSUME NEW d \in Deliveries, AwaitReply(s, d) PROVE IInv'
  BY <1>0, <1>1, EnterIInv DEF AwaitReply, Bound, Knows, UpdateSteps
<1>2. ASSUME NEW d \in Deliveries, NEW t \in Tokens, Fail(s, d, t) PROVE IInv'
  BY <1>0, <1>2, EnterIInv, AuthorizedHeld DEF Fail, Bound, Knows, UpdateSteps
<1>3. ASSUME NEW d \in Deliveries, NEW t \in Tokens, NEW phase \in {"read", "working"},
             Ack(s, d, t, phase)
      PROVE  IInv'
  BY <1>0, <1>3, EnterIInv, AuthorizedHeld DEF Ack, Bound, Knows, UpdateSteps
<1>4. ASSUME NEW d \in Deliveries, NEW t \in Tokens, NEW x \in Texts, Reply(s, d, t, x)
      PROVE  IInv'
  <2>0. UNCHANGED <<rowVars, waitVars, alive>>
    BY <1>4 DEF Reply
  <2>1. CASE row[d].cancel /\ Authorized(d, t) /\ Enter(s, "confirm", d, t, x)
    BY <1>0, <2>0, <2>1, EnterIInv, AuthorizedHeld DEF Bound, Knows, UpdateSteps
  <2>2. CASE row[d].text = x /\ Committed(d) /\ Enter(s, "finish", d, t, x)
    BY <1>0, <2>0, <2>2, EnterIInv DEF Bound, Knows, UpdateSteps
  <2>3. CASE /\ ~ row[d].cancel /\ row[d].state = "working"
             /\ row[d].text = NONE /\ Enter(s, "prepare", d, t, x)
    BY <1>0, <2>0, <2>3, EnterIInv DEF Bound, Knows, UpdateSteps
  <2>4. CASE row[d].text = x /\ Enter(s, "append", d, t, x)
    BY <1>0, <2>0, <2>4, EnterIInv DEF Bound, Knows, UpdateSteps
  <2> QED
    BY <1>4, <2>1, <2>2, <2>3, <2>4 DEF Reply
<1> QED
  BY <1>1, <1>2, <1>3, <1>4 DEF SeatCall

\* A write of #update by a call that knows its row keeps the invariant.
LEMMA UpdateIInv ==
    ASSUME IInv, NEW p \in Procs, NEW r, NEW next, Update(p, r, next),
           op[p].d \in Deliveries, row[op[p].d].state # "none",
           r \in Row, RowInv(r),
           row[op[p].d].text # NONE => r.text = row[op[p].d].text,
           r.state = "replied" => r.seq \in DOMAIN ledger /\ ledger[r.seq].d = op[p].d,
           GoesOn(next),
           lapsed' \subseteq lapsed, aged' \subseteq aged,
           UNCHANGED <<sent, ledger, waitVars, alive>>
    PROVE  IInv'
<1>1. Core'
  BY UpdateCore DEF IInv
<1>2. UnsentBlank'
  BY UpdateBlank
<1> QED
  BY <1>1, <1>2 DEF IInv, RestTyped, waitVars

\* A call that ends with its write goes on with nothing.
LEMMA IdleNext == GoesOn(Idle)
BY DEF Idle, Op, UpdateSteps, GoesOn

\* What a call knows when its write goes through.
LEMMA FreshKnows ==
    ASSUME IInv, NEW p \in Procs, op[p].fresh
    PROVE  /\ op[p] \in Op /\ op[p].d \in Deliveries
           /\ row[op[p].d] \in Row /\ RowInv(row[op[p].d])
           /\ Knows(op[p], row[op[p].d]) /\ Bound(op[p])
<1>1. op[p] \in Op /\ Knows(op[p], row[op[p].d]) /\ Bound(op[p])
  BY DEF IInv, Core, CoreTyped, OpInv
<1>2. op[p].d \in Deliveries
  BY <1>1 DEF Knows, Bound, UpdateSteps
<1> QED
  BY <1>1, <1>2 DEF IInv, Core, CoreTyped

\* cancel asks a working seat to stop and closes any other open row.
LEMMA CancelUpdateIInv ==
    ASSUME IInv, NEW p \in Procs, CancelUpdate(p)
    PROVE  IInv'
<1> DEFINE r == row[op[p].d]
           stopping == [r EXCEPT !.cancel = TRUE]
           stopped == [Unleased(r, "cancelled") EXCEPT !.cancel = TRUE]
<1>0. op[p].fresh /\ op[p].step = "cancel"
  BY DEF CancelUpdate, Update
<1>1. /\ op[p].d \in Deliveries /\ r \in Row /\ RowInv(r)
      /\ r.state \in Open /\ r.text = NONE
  BY <1>0, FreshKnows DEF Knows
<1>2. CASE r.state = "working" /\ Update(p, stopping, Idle) /\ lapsed' = lapsed
  <2>1. stopping \in Row /\ RowInv(stopping) /\ stopping.state # "replied"
    BY <1>1, <1>2 DEF Row, RowInv, Held
  <2> HIDE DEF stopping
  <2> QED
    BY <1>1, <1>2, <2>1, IdleNext, UpdateIInv DEF CancelUpdate, Open, Held
<1>3. CASE Update(p, stopped, Idle) /\ lapsed' = lapsed \ {op[p].d}
  <2>1. stopped = [r EXCEPT !.state = "cancelled", !.token = NONE, !.cancel = TRUE]
    BY <1>1 DEF Unleased, Row
  <2> HIDE DEF stopped
  <2>2. stopped \in Row
    BY <1>1, <2>1 DEF Row, Terminal
  <2>3. RowInv(stopped) /\ stopped.state # "replied"
    BY <1>1, <2>1 DEF Row, RowInv, Held, Open
  <2> QED
    BY <1>1, <1>3, <2>2, <2>3, IdleNext, UpdateIInv DEF CancelUpdate, Open, Held
<1> QED
  BY <1>2, <1>3 DEF CancelUpdate

\* A retried row is as blank as a new one; no reply of it is in the ledger.
LEMMA RetryUpdateIInv ==
    ASSUME IInv, NEW p \in Procs, RetryUpdate(p)
    PROVE  IInv'
<1> DEFINE r == row[op[p].d]
           again == [NoRow EXCEPT !.state = "queued", !.target = r.target,
                                  !.source = r.source]
<1>0. op[p].fresh /\ op[p].step = "retry"
  BY DEF RetryUpdate, Update
<1>1. /\ op[p].d \in Deliveries /\ r \in Row /\ RowInv(r)
      /\ r.state \in {"failed", "cancelled", "expired"} /\ r.reason # "uncertain"
  BY <1>0, FreshKnows DEF Knows
<1>2. r.text = NONE
  BY <1>1 DEF RowInv
<1>3. NoRow \in Row
  BY InboxAssumption DEF NoRow, Row
<1>4. again \in Row
  <2>1. r.target \in Seats \cup {NONE} /\ r.source \in Seats \cup {NONE} /\ "queued" \in Open
    BY <1>1 DEF Row, Open
  <2> QED
    BY <1>3, <2>1 DEF Row
<1>5. /\ again.state = "queued" /\ again.attempt = 0 /\ again.token = NONE
      /\ again.cancel = FALSE /\ again.text = NONE /\ again.reason = "none"
  <2>1. /\ NoRow.attempt = 0 /\ NoRow.token = NONE
        /\ NoRow.cancel = FALSE /\ NoRow.text = NONE /\ NoRow.reason = "none"
    BY DEF NoRow
  <2> QED
    BY <1>3, <2>1 DEF Row
<1>6. /\ Update(p, again, Idle) /\ lapsed' \subseteq lapsed /\ aged' \subseteq aged
      /\ UNCHANGED <<sent, ledger, waitVars, alive>>
  BY DEF RetryUpdate
<1> HIDE DEF again
<1>7. RowInv(again)
  BY <1>5 DEF RowInv, Held
<1> QED
  BY <1>1, <1>2, <1>4, <1>5, <1>6, <1>7, IdleNext, UpdateIInv

\* An ack moves a held row on within the states a seat can hold.
LEMMA AckUpdateIInv ==
    ASSUME IInv, NEW p \in Procs, AckUpdate(p)
    PROVE  IInv'
<1> DEFINE r == row[op[p].d]
           acked == [r EXCEPT !.state = IF r.state = "working" THEN r.state ELSE op[p].step]
<1>0. op[p].fresh /\ op[p].step \in {"read", "working"}
  BY DEF AckUpdate, Update
<1>1. op[p].d \in Deliveries /\ r \in Row /\ RowInv(r) /\ r.state \in Held
  BY <1>0, FreshKnows DEF Knows
<1>2. PICK state \in {"read", "working"} :
         /\ acked = [r EXCEPT !.state = state]
         /\ r.state = "working" => state = "working"
  BY <1>0
<1>3. Update(p, acked, Idle) /\ lapsed' = lapsed \ {op[p].d}
  BY <1>1 DEF AckUpdate, Row
<1> HIDE DEF acked
<1>4. acked \in Row
  BY <1>1, <1>2 DEF Row, Open, Held
<1>5. RowInv(acked) /\ acked.state # "replied"
  BY <1>1, <1>2 DEF Row, RowInv, Held
<1>6. acked.text = r.text
  BY <1>1, <1>2 DEF Row
<1> QED
  BY <1>1, <1>3, <1>4, <1>5, <1>6, IdleNext, UpdateIInv DEF AckUpdate, Held

\* A failed row, or a cancelled one, had no prepared reply.
LEMMA FailUpdateIInv ==
    ASSUME IInv, NEW p \in Procs, FailUpdate(p)
    PROVE  IInv'
<1> DEFINE r == row[op[p].d]
           given == [Unleased(r, IF r.cancel THEN "cancelled" ELSE "failed")
                       EXCEPT !.reason = "other"]
<1>0. op[p].fresh /\ op[p].step = "fail"
  BY DEF FailUpdate, Update
<1>1. /\ op[p].d \in Deliveries /\ r \in Row /\ RowInv(r)
      /\ r.state \in Held /\ r.text = NONE
  BY <1>0, FreshKnows DEF Knows
<1>2. PICK state \in {"cancelled", "failed"} :
         given = [Unleased(r, state) EXCEPT !.reason = "other"]
  OBVIOUS
<1>3. given = [r EXCEPT !.state = state, !.token = NONE, !.reason = "other"]
  BY <1>1, <1>2 DEF Unleased, Row
<1>4. Update(p, given, Idle) /\ lapsed' = lapsed \ {op[p].d}
  BY DEF FailUpdate
<1> HIDE DEF given
<1>5. given \in Row
  BY <1>1, <1>2, <1>3 DEF Row, Terminal
<1>6. RowInv(given) /\ given.state # "replied"
  BY <1>1, <1>3 DEF Row, RowInv, Held
<1> QED
  BY <1>1, <1>4, <1>5, <1>6, IdleNext, UpdateIInv DEF FailUpdate, Held

\* A confirmed cancel closes a row that cannot hold a prepared reply.
LEMMA ConfirmCancelUpdateIInv ==
    ASSUME IInv, NEW p \in Procs, ConfirmCancelUpdate(p)
    PROVE  IInv'
<1> DEFINE r == row[op[p].d]
           stopped == Unleased(r, "cancelled")
<1>0. op[p].fresh /\ op[p].step = "confirm"
  BY DEF ConfirmCancelUpdate, Update
<1>1. /\ op[p].d \in Deliveries /\ r \in Row /\ RowInv(r)
      /\ r.state \in Held /\ r.cancel
  BY <1>0, FreshKnows DEF Knows
<1>2. stopped = [r EXCEPT !.state = "cancelled", !.token = NONE] /\ r.text = NONE
  BY <1>1 DEF Unleased, RowInv
<1>3. Update(p, stopped, Idle) /\ lapsed' = lapsed \ {op[p].d}
  BY DEF ConfirmCancelUpdate
<1> HIDE DEF stopped
<1>4. stopped \in Row
  BY <1>1, <1>2 DEF Row, Terminal
<1>5. RowInv(stopped) /\ stopped.state # "replied"
  BY <1>1, <1>2 DEF Row, RowInv, Held
<1> QED
  BY <1>1, <1>2, <1>3, <1>4, <1>5, IdleNext, UpdateIInv DEF ConfirmCancelUpdate, Held

\* Preparing seals a working row that nobody asked to stop.
LEMMA PrepareUpdateIInv ==
    ASSUME IInv, NEW p \in Procs, PrepareUpdate(p)
    PROVE  IInv'
<1> DEFINE o == op[p]
           r == row[o.d]
           sealed == [r EXCEPT !.text = o.text, !.completion = o.tok]
           next == [o EXCEPT !.step = "append", !.fresh = FALSE]
<1>0. o.fresh /\ o.step = "prepare"
  BY DEF PrepareUpdate, Update
<1>1. /\ o \in Op /\ o.d \in Deliveries /\ r \in Row /\ RowInv(r)
      /\ r.state = "working" /\ r.text = NONE /\ ~ r.cancel /\ o.text \in Texts
  BY <1>0, FreshKnows DEF Knows
<1>2. Update(p, sealed, next) /\ lapsed' = lapsed \ {o.d}
  BY DEF PrepareUpdate
<1>3. sealed \in Row
  BY <1>1 DEF Row, Op
<1>4. RowInv(sealed) /\ sealed.state # "replied" /\ sealed.text = o.text
  BY <1>1 DEF Row, RowInv, Held
<1>5. next \in Op /\ ~ next.fresh /\ next.d = o.d /\ next.text = o.text /\ next.step = "append"
  BY <1>1 DEF Op
<1>6. row'[o.d] = sealed
  BY <1>1, <1>2 DEF Update, IInv, Core, CoreTyped
<1> HIDE DEF sealed, next
<1>7. row'[next.d].text = next.text
  BY <1>4, <1>5, <1>6
<1>8. GoesOn(next)
  BY <1>1, <1>5, <1>7 DEF GoesOn
<1> QED
  BY <1>0, <1>1, <1>2, <1>3, <1>4, <1>5, <1>8, UpdateIInv DEF PrepareUpdate

\* The receipt a commit records is the row's own message.
LEMMA CommitUpdateIInv ==
    ASSUME IInv, NEW p \in Procs, CommitUpdate(p)
    PROVE  IInv'
<1> DEFINE o == op[p]
           r == row[o.d]
           receipt == CHOOSE i \in DOMAIN ledger : ledger[i].d = o.d
           why == IF o.step = "reconcile" THEN "none" ELSE r.reason
           done == [Unleased(r, "replied") EXCEPT
                      !.seq = receipt, !.cancel = FALSE, !.reason = why]
<1>0. o.fresh /\ o.step \in {"commit", "reconcile"}
  BY DEF CommitUpdate, Update
<1>1. /\ o \in Op /\ o.d \in Deliveries /\ r \in Row /\ RowInv(r)
      /\ Knows(o, r) /\ Committed(o.d)
  BY <1>0, FreshKnows DEF Bound
<1>2. receipt \in DOMAIN ledger /\ ledger[receipt].d = o.d
  BY <1>1, Zenon DEF Committed
<1>3. receipt \in Nat
  BY <1>2, LenProperties DEF IInv, Core, CoreTyped
<1>4. r.text # NONE
  BY <1>2, LedgerEntries, InboxAssumption DEF IInv, Core, LedgerInv
<1>5. why \in {"none", "exhausted", "other"}
  BY <1>0, <1>1 DEF Knows, RowInv, Row
<1>6. Update(p, done, Idle) /\ lapsed' = lapsed \ {o.d}
  BY <1>1 DEF CommitUpdate, Unleased, Row
<1> HIDE DEF receipt, why
<1>7. done = [r EXCEPT !.state = "replied", !.token = NONE, !.seq = receipt,
                       !.cancel = FALSE, !.reason = why]
  BY <1>1 DEF Unleased, Row
<1> HIDE DEF done
<1>8. done \in Row
  BY <1>1, <1>3, <1>5, <1>7 DEF Row, Terminal
<1>9. RowInv(done) /\ done.text = r.text /\ done.seq = receipt
  BY <1>1, <1>4, <1>5, <1>7 DEF Row, RowInv, Held
<1> QED
  BY <1>1, <1>2, <1>4, <1>6, <1>8, <1>9, IdleNext, UpdateIInv DEF CommitUpdate, RowInv

\* A message joins the ledger under the text its row has prepared.
LEMMA AppendReplyIInv ==
    ASSUME IInv, NEW p \in Procs, AppendReply(p)
    PROVE  IInv'
<1> DEFINE o == op[p]
           m == [d |-> o.d, text |-> o.text]
           next == [o EXCEPT !.step = "finish"]
<1>1. /\ o \in Op /\ o.step = "append" /\ o.d \in Deliveries
      /\ o.text \in Texts /\ row[o.d].text = o.text /\ ~ o.fresh
  BY DEF AppendReply, IInv, Core, CoreTyped, OpInv, Bound, Knows, UpdateSteps
<1>2. /\ op' = [op EXCEPT ![p] = next]
      /\ ledger' = IF Committed(o.d) THEN ledger ELSE Append(ledger, m)
      /\ UNCHANGED <<row, sent, lapsed, aged, waitVars, alive>>
  BY <1>1 DEF AppendReply, IInv, Core, CoreTyped
<1>3. next \in Op /\ next.d = o.d /\ next.text = o.text /\ next.step = "finish" /\ ~ next.fresh
  BY <1>1 DEF Op
<1> HIDE DEF next
<1>4. RestTyped' /\ UnsentBlank'
  BY <1>2, RestSame
<1>5. CASE Committed(o.d)
  <2>1. Bound(next)
    BY <1>1, <1>3, <1>5 DEF Bound
  <2>2. Core'
    BY <1>2, <1>3, <1>5, <2>1, CallCore DEF IInv
  <2> QED
    BY <1>4, <2>2 DEF IInv
<1>6. CASE ~ Committed(o.d)
  <2>1. ledger \in Seq([d: Deliveries, text: Texts]) /\ m \in [d: Deliveries, text: Texts]
    BY <1>1 DEF IInv, Core, CoreTyped
  <2>2. ledger' = Append(ledger, m)
    BY <1>2, <1>6
  <2>3. /\ ledger' \in Seq([d: Deliveries, text: Texts])
        /\ DOMAIN ledger = 1..Len(ledger) /\ Len(ledger) \in Nat
        /\ DOMAIN ledger' = 1..(Len(ledger) + 1)
        /\ \A i \in DOMAIN ledger : ledger'[i] = ledger[i]
        /\ ledger'[Len(ledger) + 1] = m
    BY <2>1, <2>2, AppendProperties, LenProperties
  <2> DEFINE n == Len(ledger) + 1
  <2>4. DOMAIN ledger' = DOMAIN ledger \cup {n} /\ n \notin DOMAIN ledger
    BY <2>3
  <2>5. m.d = o.d /\ m.text = o.text
    OBVIOUS
  <2> HIDE DEF n, m
  <2>6. /\ \A i \in DOMAIN ledger : ledger'[i] = ledger[i] /\ ledger[i].d # o.d
        /\ ledger'[n] = m
    BY <1>6, <2>3 DEF Committed, n
  <2>7. \A e : Committed(e) => Committed(e)'
    BY <2>4, <2>6 DEF Committed
  <2>8. \E i \in DOMAIN ledger' : ledger'[i].d = o.d
    BY <2>4, <2>5, <2>6
  <2>9. LedgerInv'
    <3>1. \A i \in DOMAIN ledger' : row'[ledger'[i].d].text = ledger'[i].text
      BY <1>1, <1>2, <2>4, <2>5, <2>6 DEF IInv, Core, LedgerInv
    <3>2. \A i, j \in DOMAIN ledger' : ledger'[i].d = ledger'[j].d => i = j
      BY <2>4, <2>5, <2>6 DEF IInv, Core, LedgerInv
    <3>3. \A d \in Deliveries : row'[d].state = "replied" =>
             row'[d].seq \in DOMAIN ledger' /\ ledger'[row'[d].seq].d = d
      BY <1>2, <2>4, <2>6 DEF IInv, Core, LedgerInv
    <3> QED
      BY <3>1, <3>2, <3>3 DEF LedgerInv
  <2>10. ASSUME NEW q \in Procs
         PROVE  Bound(op[q])' /\ (op'[q].fresh => Knows(op'[q], row'[op'[q].d]))
    <3>1. CASE q = p
      <4>1. op'[q] = next
        BY <1>2, <3>1 DEF IInv, Core, CoreTyped
      <4>2. row'[next.d].text = next.text
        BY <1>1, <1>2, <1>3
      <4>3. Committed(op[q].d)'
        BY <1>3, <2>8, <4>1 DEF Committed
      <4> QED
        BY <1>1, <1>3, <4>1, <4>2, <4>3 DEF Bound
    <3>2. CASE q # p
      <4>1. op'[q] = op[q] /\ row' = row
        BY <1>2, <3>2 DEF IInv, Core, CoreTyped
      <4>2. Bound(op[q]) /\ (op[q].fresh => Knows(op[q], row[op[q].d]))
        BY DEF IInv, Core, OpInv
      <4> QED
        BY <2>7, <4>1, <4>2 DEF Bound
    <3> QED
      BY <3>1, <3>2
  <2>11. CoreTyped'
    BY <1>2, <1>3, <2>3 DEF IInv, Core, CoreTyped
  <2>12. (\A d \in Deliveries : RowInv(row[d]))'
    BY <1>2 DEF IInv, Core
  <2>13. Core'
    BY <2>9, <2>10, <2>11, <2>12 DEF Core, OpInv
  <2> QED
    BY <1>4, <2>13 DEF IInv
<1> QED
  BY <1>5, <1>6

\* A call that ends without a write.
LEMMA EndIInv ==
    ASSUME IInv, NEW p \in Procs, op' = [op EXCEPT ![p] = Idle],
           UNCHANGED <<rowVars, waitVars, alive>>
    PROVE  IInv'
BY EndCore, RestSame DEF IInv, rowVars

\* finishReply has found the row of a receipt that is in the ledger.
LEMMA FinishReplyIInv ==
    ASSUME IInv, NEW p \in Procs, FinishReply(p)
    PROVE  IInv'
<1> DEFINE o == op[p]
<1>1. /\ o.d \in Deliveries /\ o.tok \in Tokens \cup {NONE}
      /\ o.text \in Texts \cup {NONE} /\ Committed(o.d)
  BY DEF FinishReply, IInv, Core, CoreTyped, OpInv, Bound, Op
<1>2. UNCHANGED <<rowVars, waitVars, alive>>
  BY DEF FinishReply
<1>3. CASE row[o.d].reason = "uncertain" /\ Enter(p, "reconcile", o.d, o.tok, o.text)
  BY <1>1, <1>2, <1>3, EnterIInv DEF Bound, Knows, UpdateSteps
<1>4. CASE row[o.d].state = "working" /\ Enter(p, "commit", o.d, o.tok, o.text)
  BY <1>1, <1>2, <1>4, EnterIInv DEF Bound, Knows, UpdateSteps
<1>5. CASE op' = [op EXCEPT ![p] = Idle]
  BY <1>2, <1>5, EndIInv
<1> QED
  BY <1>3, <1>4, <1>5 DEF FinishReply

\* Every later step of a call.
LEMMA ContinueIInv ==
    ASSUME IInv, NEW p \in Procs, Continue(p)
    PROVE  IInv'
<1>1. CASE AppendRefused(p) \/ ConcurrentUpdate(p)
  BY <1>1, EndIInv DEF AppendRefused, ConcurrentUpdate
<1> QED
  BY <1>1, CancelUpdateIInv, RetryUpdateIInv, AckUpdateIInv, FailUpdateIInv,
     ConfirmCancelUpdateIInv, PrepareUpdateIInv, AppendReplyIInv,
     FinishReplyIInv, CommitUpdateIInv DEF Continue

\* Every step of the inbox keeps the invariant.
LEMMA NextIInv == IInv /\ [Next]_vars => IInv'
<1> SUFFICES ASSUME IInv, [Next]_vars PROVE IInv'
  OBVIOUS
<1>1. CASE UNCHANGED vars
  BY <1>1, StutterCore DEF IInv, RestTyped, UnsentBlank, vars
<1>2. CASE Sweep \/ ExpireStale
  BY <1>2, SweepIInv, ExpireStaleIInv
<1>3. CASE \E d \in Deliveries : Lapse(d) \/ Age(d) \/ FailDelivery(d)
  BY <1>3, ClockIInv, FailDeliveryIInv
<1>4. CASE \E s \in Seats : WaitLeaseAges(s) \/ FailTarget(s) \/ SeatCall(s)
  BY <1>4, ClockIInv, FailTargetIInv, SeatCallIInv
<1>5. CASE \E s \in Seats, p \in Procs : Enqueue(p, s)
  BY <1>5, EnqueueIInv
<1>6. CASE \E p \in Owners : OwnerCall(p)
  BY <1>6, OwnerCallIInv
<1>7. CASE \E p \in Procs : Continue(p) \/ Crash(p)
  BY <1>7, ContinueIInv, CrashIInv
<1>8. CASE \E w \in Loops : BeginWait(w) \/ LoopStep(w)
  BY <1>8, ClaimIInv, LoopIInv DEF LoopStep
<1> QED
  BY <1>1, <1>2, <1>3, <1>4, <1>5, <1>6, <1>7, <1>8 DEF Next

-----------------------------------------------------------------------------
(* The theorems.                                                           *)

\* The inductive invariant holds in every reachable state.
THEOREM Invariance == Spec => []IInv
BY InitIInv, NextIInv, PTL DEF Spec

\* Every row, lease, waiter row and call stays in its type: in particular a
\* delivery never runs through its attempts, however often it is picked up and
\* dropped.
THEOREM TypeCorrect == Spec => []TypeOK
<1>1. IInv => TypeOK
  BY DEF IInv, Core, CoreTyped, RestTyped, TypeOK
<1> QED
  BY <1>1, Invariance, PTL

\* The three transactions of a reply leave no receipt without its message and
\* no prepared reply where it could be lost, whatever interleaves with them.
THEOREM RepliesRecorded == Spec => []ReplyRecorded
<1>1. IInv => ReplyRecorded
  <2> SUFFICES ASSUME IInv PROVE ReplyRecorded
    OBVIOUS
  <2>1. ASSUME NEW d \in Deliveries, row[d].state = "replied"
        PROVE  row[d].seq \in DOMAIN ledger /\ ledger[row[d].seq] = [d |-> d, text |-> row[d].text]
    <3>1. row[d].seq \in DOMAIN ledger /\ ledger[row[d].seq].d = d
      BY <2>1 DEF IInv, Core, LedgerInv
    <3>2. ledger[row[d].seq].text = row[d].text
      BY <3>1 DEF IInv, Core, LedgerInv
    <3>3. ledger[row[d].seq] \in [d: Deliveries, text: Texts]
      <4>1. ledger \in Seq([d: Deliveries, text: Texts])
        BY DEF IInv, Core, CoreTyped
      <4>2. row[d].seq \in 1..Len(ledger)
        BY <3>1, <4>1, LenProperties
      <4> QED
        BY <4>1, <4>2, ElementOfSeq
    <3> QED
      BY <3>1, <3>2, <3>3
  <2> QED
    BY <2>1 DEF ReplyRecorded, IInv, Core, LedgerInv, RowInv
<1> QED
  BY <1>1, Invariance, PTL

\* Work whose reply is in the ledger is not offered, cancelled, expired or
\* failed as offline, in any interleaving.
THEOREM AnsweredStaysAnswered == Spec => []AnsweredNeverReoffered
<1>1. IInv => AnsweredNeverReoffered
  <2> SUFFICES ASSUME IInv, NEW d \in Deliveries, Committed(d)
               PROVE  \/ row[d].state \in {"working", "replied"}
                      \/ row[d].state = "failed" /\ row[d].reason = "uncertain"
    BY DEF AnsweredNeverReoffered
  <2>1. PICK i \in DOMAIN ledger : ledger[i].d = d
    BY DEF Committed
  <2>2. row[d].text # NONE
    BY <2>1, LedgerEntries, InboxAssumption DEF IInv, Core, LedgerInv
  <2> QED
    BY <2>2 DEF IInv, Core, RowInv
<1> QED
  BY <1>1, Invariance, PTL

\* A cancel and a reply never both win.
THEOREM CancelExcludesReply == Spec => []CancelOrReply
<1>1. IInv => CancelOrReply
  BY DEF IInv, Core, RowInv, CancelOrReply
<1> QED
  BY <1>1, Invariance, PTL

-----------------------------------------------------------------------------
(* The holder of a seat.                                                   *)

\* No step gives a seat to a loop that is not the newest.
LEMMA HolderStep ==
    ASSUME IInv, HolderIsNewest, [Next]_vars
    PROVE  HolderIsNewest'
<1>0. /\ wait \in [Seats -> WaitLease] /\ opened \in [Seats -> Loops \cup {NONE}]
      /\ \A w \in Loops : LoopSeat[w] \in Seats
      /\ \A s \in Seats : wait[s].loop \in {NONE, opened[s]}
  BY InboxAssumption DEF IInv, RestTyped, HolderIsNewest
<1>1. ASSUME opened' = opened, \A s \in Seats : wait'[s].loop \in {wait[s].loop, NONE}
      PROVE  HolderIsNewest'
  BY <1>0, <1>1 DEF HolderIsNewest
<1>2. \A s \in Seats : Collected[s].loop \in {wait[s].loop, NONE}
  BY DEF Collected, NoWait
<1>3. CASE wait' = wait /\ opened' = opened
  BY <1>1, <1>3
<1>4. CASE wait' = Collected /\ opened' = opened
  BY <1>1, <1>2, <1>4
<1>5. ASSUME NEW s \in Seats, WaitLeaseAges(s) PROVE HolderIsNewest'
  <2>1. \A q \in Seats : wait'[q].loop = wait[q].loop
    BY <1>0, <1>5 DEF WaitLeaseAges, WaitLease
  <2> QED
    BY <1>1, <1>5, <2>1 DEF WaitLeaseAges
<1>6. ASSUME NEW w \in Loops, BeginWait(w) PROVE HolderIsNewest'
  <2> DEFINE s == LoopSeat[w]
  <2>1. /\ wait' = [Collected EXCEPT ![s] = [loop |-> w, age |-> "live"]]
        /\ opened' = [opened EXCEPT ![s] = w]
        /\ s \in Seats
    BY <1>0, <1>6 DEF BeginWait
  <2>2. Collected \in [Seats -> WaitLease]
    BY <1>0, CollectedTyped
  <2> HIDE DEF s
  <2>3. wait'[s].loop = w /\ opened'[s] = w
    BY <1>0, <2>1, <2>2
  <2>4. \A q \in Seats \ {s} : wait'[q].loop \in {NONE, opened'[q]}
    BY <1>0, <1>2, <2>1, <2>2
  <2> QED
    BY <2>3, <2>4 DEF HolderIsNewest
<1>7. ASSUME NEW w \in Loops, Refresh(w) PROVE HolderIsNewest'
  <2>1. \A s \in Seats : wait'[s].loop = wait[s].loop
    BY <1>0, <1>7 DEF Refresh, WaitLease
  <2> QED
    BY <1>1, <1>7, <2>1 DEF Refresh
<1>8. ASSUME NEW w \in Loops, wait' = EndWait(w), opened' = opened PROVE HolderIsNewest'
  <2>1. \A s \in Seats : wait'[s].loop \in {wait[s].loop, NONE}
    BY <1>0, <1>8 DEF EndWait, NoWait
  <2> QED
    BY <1>1, <1>8, <2>1
<1>9. CASE UNCHANGED vars
  BY <1>3, <1>9 DEF vars
<1>10. CASE Sweep \/ ExpireStale
  BY <1>3, <1>4, <1>10 DEF Sweep, ExpireStale, waitVars
<1>11. CASE \E d \in Deliveries : Lapse(d) \/ Age(d) \/ FailDelivery(d)
  BY <1>3, <1>11 DEF Lapse, Age, FailDelivery, SeatOffline, waitVars
<1>12. CASE \E s \in Seats : WaitLeaseAges(s) \/ FailTarget(s) \/ SeatCall(s)
  <2>1. \A s \in Seats : FailTarget(s) \/ SeatCall(s) => wait' = wait /\ opened' = opened
    BY DEF FailTarget, SeatOffline, SeatCall, AwaitReply, Fail, Ack, Reply, waitVars
  <2> QED
    BY <1>3, <1>5, <1>12, <2>1
<1>13. CASE \E s \in Seats, p \in Procs : Enqueue(p, s)
  BY <1>4, <1>13 DEF Enqueue
<1>14. CASE \E p \in Owners : OwnerCall(p)
  BY <1>3, <1>14 DEF OwnerCall, Cancel, Retry, waitVars
<1>15. CASE \E p \in Procs : Continue(p) \/ Crash(p)
  BY <1>3, <1>15 DEF Continue, CancelUpdate, RetryUpdate, AckUpdate, FailUpdate,
     ConfirmCancelUpdate, PrepareUpdate, AppendReply, AppendRefused, FinishReply,
     CommitUpdate, ConcurrentUpdate, Crash, waitVars
<1>16. CASE \E w \in Loops : BeginWait(w) \/ LoopStep(w)
  <2> SUFFICES ASSUME NEW w \in Loops, BeginWait(w) \/ LoopStep(w) PROVE HolderIsNewest'
    BY <1>16
  <2>1. CASE LeaseLost(w)
    BY <1>3, <2>1 DEF LeaseLost
  <2>2. CASE ClaimNothing(w) \/ Claim(w)
    BY <1>4, <2>2 DEF ClaimNothing, Claim
  <2>3. CASE StopWait(w) \/ ReturnClaim(w)
    BY <1>8, <2>3 DEF StopWait, ReturnClaim
  <2> QED
    BY <1>6, <1>7, <2>1, <2>2, <2>3 DEF LoopStep
<1> QED
  BY <1>9, <1>10, <1>11, <1>12, <1>13, <1>14, <1>15, <1>16 DEF Next

\* However many room_wait calls a client opens, and however long any of them
\* stalls, a seat is only ever held by the one opened last.
THEOREM NewestHolds == Spec => []HolderIsNewest
<1>1. Init => HolderIsNewest
  BY DEF Init, HolderIsNewest, NoWait
<1> QED
  BY <1>1, HolderStep, Invariance, PTL DEF Spec

\* Hence no message is claimed by a loop the client has replaced.
THEOREM NewestClaims == Spec => ClaimedByNewest
<1>1. ASSUME IInv, HolderIsNewest, [Next]_vars
      PROVE  [\A w \in Loops : loop'[w].step = "return" /\ loop[w].step # "return" =>
                opened[LoopSeat[w]] = w]_vars
  <2> SUFFICES ASSUME Next, NEW w \in Loops, loop'[w].step = "return", loop[w].step # "return"
               PROVE  opened[LoopSeat[w]] = w
    BY <1>1
  <2>0. /\ loop \in [Loops -> Loop] /\ LoopSeat[w] \in Seats /\ w # NONE
        /\ NoLoop.step = "idle"
    BY <1>1, InboxAssumption DEF IInv, RestTyped, NoLoop
  <2>1. ~ UNCHANGED loop
    OBVIOUS
  <2>2. PICK v \in Loops : Claim(v) /\ v = w
    <3>1. CASE \E p \in Procs : Crash(p)
      BY <2>0, <3>1 DEF Crash
    <3>2. CASE \E v \in Loops : BeginWait(v) \/ LeaseLost(v) \/ ClaimNothing(v)
                               \/ Refresh(v) \/ StopWait(v) \/ ReturnClaim(v)
      BY <2>0, <3>2 DEF BeginWait, LeaseLost, ClaimNothing, Refresh, StopWait, ReturnClaim, Loop
    <3>3. CASE \E v \in Loops : Claim(v)
      BY <2>0, <3>3 DEF Claim
    <3>4. CASE Sweep \/ ExpireStale \/ \E d \in Deliveries : Lapse(d) \/ Age(d) \/ FailDelivery(d)
      BY <2>1, <3>4 DEF Sweep, ExpireStale, Lapse, Age, FailDelivery, SeatOffline, waitVars
    <3>5. CASE \E s \in Seats : \/ WaitLeaseAges(s) \/ FailTarget(s) \/ SeatCall(s)
                              \/ \E p \in Procs : Enqueue(p, s)
      <4>1. \A s \in Seats : SeatCall(s) => UNCHANGED loop
        BY DEF SeatCall, AwaitReply, Fail, Ack, Reply, waitVars
      <4>2. \A s \in Seats : WaitLeaseAges(s) \/ FailTarget(s) => UNCHANGED loop
        BY DEF WaitLeaseAges, FailTarget, SeatOffline, waitVars
      <4>3. \A s \in Seats, p \in Procs : Enqueue(p, s) => UNCHANGED loop
        BY DEF Enqueue
      <4> QED
        BY <2>1, <3>5, <4>1, <4>2, <4>3
    <3>6. CASE \E p \in Owners : OwnerCall(p)
      BY <2>1, <3>6 DEF OwnerCall, Cancel, Retry, waitVars
    <3>7. CASE \E p \in Procs : Continue(p)
      BY <2>1, <3>7 DEF Continue, CancelUpdate, RetryUpdate, AckUpdate, FailUpdate,
         ConfirmCancelUpdate, PrepareUpdate, AppendReply, AppendRefused, FinishReply,
         CommitUpdate, ConcurrentUpdate, waitVars
    <3> QED
      BY <3>1, <3>2, <3>3, <3>4, <3>5, <3>6, <3>7 DEF Next, LoopStep
  <2>3. wait[LoopSeat[w]].loop = w
    BY <2>2 DEF Claim, HoldsSeat
  <2> QED
    BY <1>1, <2>0, <2>3 DEF HolderIsNewest
<1> QED
  BY <1>1, Invariance, NewestHolds, PTL DEF Spec, ClaimedByNewest

-----------------------------------------------------------------------------
(* The inbox implements the exchange.  The argument is one relation, Move,  *)
(* between a row and its successor, which covers what every step does to    *)
(* every row; a step of the exchange, and the two action properties about   *)
(* verdicts and acknowledged work, are read off it.                         *)


\* What one step can make of a row.  A lapsed claim can be handed back and taken
\* again in one step, so "delivered" may follow "delivered".
Move(r, new) ==
    \/ new = r
    \/ /\ r.state \in {"none", "failed", "cancelled", "expired"}
       /\ r.reason # "uncertain"
       /\ new.state = "queued" /\ r.text = NONE /\ new.text = NONE
    \/ /\ r.state \in {"queued", "delivered"} /\ new.state = "delivered"
       /\ r.text = NONE /\ new.text = NONE
    \/ /\ r.state = "delivered" /\ new.state = "queued"
       /\ r.text = NONE /\ new.text = NONE
    \/ /\ r.state \in Held /\ new.state \in {"read", "working"}
       /\ new.text = r.text
    \/ /\ r.state = "working" /\ new.state = "working"
       /\ r.text = NONE /\ new.text \in Texts
    \/ /\ r.state \in Open /\ new.state \in {"failed", "cancelled", "expired"}
       /\ new.state = "expired" => r.state = "queued"
       /\ r.text = NONE /\ new.text = NONE
    \/ /\ r.state = "working" /\ new.state = "failed"
       /\ r.text # NONE /\ new.text = r.text
    \/ /\ \/ r.state = "working"
          \/ r.state = "failed" /\ r.reason = "uncertain"
       /\ new.state = "replied"
       /\ r.text # NONE /\ new.text = r.text

Moves == \A d \in Deliveries : Move(row[d], row'[d])

-----------------------------------------------------------------------------
(* Every step moves every row.                                             *)

\* A step that writes no row.
LEMMA StillMoves == ASSUME row' = row PROVE Moves
BY DEF Moves, Move

\* The sweep hands lapsed claims back and lapsed replies over to reconciling.
LEMMA SweptMoves ==
    ASSUME IInv
    PROVE  \A d \in Deliveries : Move(row[d], Swept[d])
<1> SUFFICES ASSUME NEW d \in Deliveries PROVE Move(row[d], Swept[d])
  OBVIOUS
<1>0. row[d] \in Row /\ RowInv(row[d])
  BY DEF IInv, Core, CoreTyped
<1>1. CASE ~ Due(d)
  BY <1>0, <1>1 DEF Swept, Move
<1>2. CASE Due(d) /\ row[d].text # NONE
  <2>1. Swept[d] = [[row[d] EXCEPT !.state = "failed", !.token = NONE]
                       EXCEPT !.reason = "uncertain"]
    BY <1>2 DEF Swept, SweptRow, Unleased
  <2>2. Swept[d].state = "failed" /\ Swept[d].text = row[d].text
    BY <1>0, <2>1 DEF Row
  <2>3. row[d].state = "working"
    BY <1>0, <1>2 DEF Due, RowInv, Held
  <2> QED
    BY <1>2, <2>2, <2>3 DEF Move
<1>3. CASE Due(d) /\ row[d].text = NONE
  <2>1. row[d].state = "delivered"
    BY <1>3 DEF Due, LeaseIsDeadline
  <2>2. \E state \in {"cancelled", "queued"} :
           Swept[d] = [[row[d] EXCEPT !.state = state, !.token = NONE]
                         EXCEPT !.attempt = Refunded(row[d])]
    BY <1>3, <2>1 DEF Swept, SweptRow, Unleased
  <2>3. Swept[d].state \in {"cancelled", "queued"} /\ Swept[d].text = row[d].text
    BY <1>0, <2>2 DEF Row
  <2> QED
    BY <1>3, <2>1, <2>3 DEF Move, Open, Held
<1> QED
  BY <1>1, <1>2, <1>3

\* enqueue asks a request that was never asked.
LEMMA EnqueueMoves ==
    ASSUME IInv, NEW p \in Procs, NEW s \in Seats, Enqueue(p, s)
    PROVE  Moves
<1> DEFINE d == sent + 1
           asked == [NoRow EXCEPT !.state = "queued", !.target = s, !.source = Source(p)]
<1>1. d \in Deliveries /\ row' = [Swept EXCEPT ![d] = asked]
  BY DEF Enqueue, Replace
<1>2. row[d].state = "none" /\ row[d] \in Row /\ RowInv(row[d])
  BY <1>1 DEF IInv, Core, CoreTyped, UnsentBlank, RestTyped, Deliveries
<1>3. asked.state = "queued" /\ asked.text = NONE
  <2>1. NoRow \in Row /\ NoRow.text = NONE
    BY InboxAssumption DEF NoRow, Row
  <2> QED
    BY <2>1 DEF Row
<1>4. Swept \in [Deliveries -> Row]
  BY SweptKeeps DEF IInv
<1> HIDE DEF d, asked
<1>5. Move(row[d], row'[d])
  BY <1>1, <1>2, <1>3, <1>4 DEF Move, RowInv
<1>6. \A e \in Deliveries \ {d} : Move(row[e], row'[e])
  BY <1>1, <1>4, SweptMoves
<1> QED
  BY <1>5, <1>6 DEF Moves

\* A claim takes a queued row, or one whose lapsed claim its own sweep returns.
LEMMA ClaimMoves ==
    ASSUME IInv, NEW w \in Loops, Claim(w)
    PROVE  Moves
<1>1. PICK d \in Queued(Swept, LoopSeat[w]), t \in Tokens :
         row' = [Swept EXCEPT ![d].state = "delivered", ![d].token = t, ![d].attempt = @ + 1]
  BY DEF Claim, Replace
<1>2. d \in Deliveries /\ Swept[d].state = "queued" /\ Swept \in [Deliveries -> Row]
  BY SweptKeeps DEF Queued, IInv
<1>3. row'[d].state = "delivered" /\ row'[d].text = Swept[d].text
  BY <1>1, <1>2 DEF Row
<1>4. Swept[d].text = NONE /\ Keeps(row[d], Swept[d])
  BY <1>2, SweptKeeps DEF IInv, Keeps, RowInv
<1>5. row[d].text = NONE /\ row[d].state \in {"queued", "delivered"}
  <2>1. row[d].text = NONE
    BY <1>4 DEF Keeps
  <2>2. Move(row[d], Swept[d])
    BY <1>2, SweptMoves
  <2>3. row[d].state \in {"queued", "delivered"}
    <3>1. CASE ~ Due(d)
      BY <1>2, <3>1 DEF Swept
    <3>2. CASE Due(d)
      BY <2>1, <3>2 DEF Due, LeaseIsDeadline
    <3> QED
      BY <3>1, <3>2
  <2> QED
    BY <2>1, <2>3
<1>6. Move(row[d], row'[d])
  BY <1>3, <1>4, <1>5 DEF Move
<1>7. \A e \in Deliveries \ {d} : Move(row[e], row'[e])
  BY <1>1, <1>2, SweptMoves
<1> QED
  BY <1>6, <1>7 DEF Moves

\* Expiry closes queued rows.
LEMMA ExpireStaleMoves ==
    ASSUME IInv, ExpireStale
    PROVE  Moves
<1> SUFFICES ASSUME NEW d \in Deliveries PROVE Move(row[d], row'[d])
  BY DEF Moves
<1>0. row[d] \in Row
  BY DEF IInv, Core, CoreTyped
<1>1. \/ row'[d] = row[d]
      \/ /\ row[d].state = "queued" /\ row[d].text = NONE
         /\ row'[d] = [[row[d] EXCEPT !.state = "expired", !.token = NONE] EXCEPT !.reason = "none"]
  BY DEF ExpireStale, Replace, Unleased
<1> QED
  BY <1>0, <1>1 DEF Move, Row, Open

\* A seat that is gone closes rows without a prepared reply.
LEMMA OfflineMoves ==
    ASSUME IInv, NEW D, SeatOffline(D),
           \A d \in D : row[d].state \in Open /\ row[d].text = NONE
    PROVE  Moves
<1> SUFFICES ASSUME NEW d \in Deliveries PROVE Move(row[d], row'[d])
  BY DEF Moves
<1>0. row[d] \in Row
  BY DEF IInv, Core, CoreTyped
<1>1. \/ row'[d] = row[d]
      \/ /\ row[d].state \in Open /\ row[d].text = NONE
         /\ row'[d] = [[row[d] EXCEPT !.state = "failed", !.token = NONE] EXCEPT !.reason = "other"]
  BY DEF SeatOffline, Replace, Unleased
<1>2. CASE /\ row[d].state \in Open /\ row[d].text = NONE
           /\ row'[d] = [[row[d] EXCEPT !.state = "failed", !.token = NONE] EXCEPT !.reason = "other"]
  <2>1. row'[d].state = "failed" /\ row'[d].text = NONE
    BY <1>0, <1>2 DEF Row
  <2> QED
    BY <1>2, <2>1 DEF Move
<1> QED
  BY <1>1, <1>2 DEF Move

\* A write of #update moves its row and no other.
LEMMA UpdateMoves ==
    ASSUME IInv, NEW p \in Procs, NEW r, NEW next, Update(p, r, next),
           op[p].d \in Deliveries, Move(row[op[p].d], r)
    PROVE  Moves
<1>1. row \in [Deliveries -> Row] /\ row' = [row EXCEPT ![op[p].d] = r]
  BY DEF Update, IInv, Core, CoreTyped
<1> QED
  BY <1>1 DEF Moves, Move

\* Every later step of a call moves the row it has read.
LEMMA ContinueMoves ==
    ASSUME IInv, NEW p \in Procs, Continue(p)
    PROVE  Moves
<1> DEFINE r == row[op[p].d]
<1>1. ASSUME op[p].fresh
      PROVE  /\ op[p].d \in Deliveries /\ r \in Row /\ RowInv(r)
             /\ Knows(op[p], r) /\ Bound(op[p]) /\ op[p] \in Op
  BY <1>1, FreshKnows
<1>2. CASE CancelUpdate(p)
  <2>0. op[p].fresh /\ op[p].step = "cancel"
    BY <1>2 DEF CancelUpdate, Update
  <2>1. r.state \in Open /\ r.text = NONE
    BY <1>1, <2>0 DEF Knows
  <2>2. CASE r.state = "working" /\ Update(p, [r EXCEPT !.cancel = TRUE], Idle)
    <3>1. Move(r, [r EXCEPT !.cancel = TRUE])
      BY <1>1, <2>0, <2>2 DEF Move, Row, Held
    <3> QED
      BY <1>1, <2>0, <2>2, <3>1, UpdateMoves
  <2>3. CASE Update(p, [Unleased(r, "cancelled") EXCEPT !.cancel = TRUE], Idle)
    <3>1. Move(r, [Unleased(r, "cancelled") EXCEPT !.cancel = TRUE])
      BY <1>1, <2>0, <2>1 DEF Move, Row, Unleased
    <3> QED
      BY <1>1, <2>0, <2>3, <3>1, UpdateMoves
  <2> QED
    BY <1>2, <2>2, <2>3 DEF CancelUpdate
<1>3. CASE RetryUpdate(p)
  <2> DEFINE again == [NoRow EXCEPT !.state = "queued", !.target = r.target, !.source = r.source]
  <2>0. op[p].fresh /\ op[p].step = "retry" /\ Update(p, again, Idle)
    BY <1>3 DEF RetryUpdate, Update
  <2>1. NoRow \in Row /\ NoRow.text = NONE
    BY InboxAssumption DEF NoRow, Row
  <2>2. again.state = "queued" /\ again.text = NONE
    BY <2>1 DEF Row
  <2> HIDE DEF again
  <2>3. Move(r, again)
    BY <1>1, <2>0, <2>2 DEF Move, Knows, RowInv
  <2> QED
    BY <1>1, <2>0, <2>3, UpdateMoves
<1>4. CASE AckUpdate(p)
  <2> DEFINE acked == [r EXCEPT !.state = IF r.state = "working" THEN r.state ELSE op[p].step]
  <2>0. op[p].fresh /\ op[p].step \in {"read", "working"}
    BY <1>4 DEF AckUpdate, Update
  <2>1. Update(p, acked, Idle)
    BY <1>1, <1>4, <2>0 DEF AckUpdate, Row
  <2>2. acked.state \in {"read", "working"} /\ acked.text = r.text
    BY <1>1, <2>0 DEF Row
  <2> HIDE DEF acked
  <2>3. Move(r, acked)
    BY <1>1, <2>0, <2>2 DEF Move, Knows
  <2> QED
    BY <1>1, <2>0, <2>1, <2>3, UpdateMoves
<1>5. CASE FailUpdate(p)
  <2> DEFINE given == [Unleased(r, IF r.cancel THEN "cancelled" ELSE "failed")
                         EXCEPT !.reason = "other"]
  <2>0. op[p].fresh /\ op[p].step = "fail" /\ Update(p, given, Idle)
    BY <1>5 DEF FailUpdate, Update
  <2>1. given.state \in {"cancelled", "failed"} /\ given.text = r.text
    BY <1>1, <2>0 DEF Unleased, Row
  <2> HIDE DEF given
  <2>2. Move(r, given)
    BY <1>1, <2>0, <2>1 DEF Move, Knows, Open
  <2> QED
    BY <1>1, <2>0, <2>2, UpdateMoves
<1>6. CASE ConfirmCancelUpdate(p)
  <2>0. /\ op[p].fresh /\ op[p].step = "confirm"
        /\ Update(p, Unleased(r, "cancelled"), Idle)
    BY <1>6 DEF ConfirmCancelUpdate, Update
  <2>1. Move(r, Unleased(r, "cancelled"))
    BY <1>1, <2>0 DEF Move, Knows, RowInv, Unleased, Row, Open
  <2> QED
    BY <1>1, <2>0, <2>1, UpdateMoves
<1>7. CASE PrepareUpdate(p)
  <2> DEFINE sealed == [r EXCEPT !.text = op[p].text, !.completion = op[p].tok]
             next == [op[p] EXCEPT !.step = "append", !.fresh = FALSE]
  <2>0. op[p].fresh /\ op[p].step = "prepare" /\ Update(p, sealed, next)
    BY <1>7 DEF PrepareUpdate, Update
  <2>1. Move(r, sealed)
    BY <1>1, <2>0 DEF Move, Knows, Row
  <2> HIDE DEF sealed, next
  <2> QED
    BY <1>1, <2>0, <2>1, UpdateMoves
<1>8. CASE CommitUpdate(p)
  <2> DEFINE receipt == CHOOSE i \in DOMAIN ledger : ledger[i].d = op[p].d
             why == IF op[p].step = "reconcile" THEN "none" ELSE r.reason
             done == [Unleased(r, "replied") EXCEPT
                        !.seq = receipt, !.cancel = FALSE, !.reason = why]
  <2>0. op[p].fresh /\ op[p].step \in {"commit", "reconcile"}
    BY <1>8 DEF CommitUpdate, Update
  <2>1. Update(p, done, Idle)
    BY <1>1, <1>8, <2>0 DEF CommitUpdate, Unleased, Row
  <2> HIDE DEF receipt, why
  <2>2. done.state = "replied" /\ done.text = r.text
    BY <1>1, <2>0 DEF Unleased, Row
  <2>3. r.text # NONE
    <3>1. PICK i \in DOMAIN ledger : ledger[i].d = op[p].d
      BY <1>1, <2>0 DEF Bound, Committed
    <3> QED
      BY <3>1, LedgerEntries, InboxAssumption DEF IInv, Core, LedgerInv
  <2> HIDE DEF done
  <2>4. r.state = "working" \/ (r.state = "failed" /\ r.reason = "uncertain")
    BY <1>1, <2>0 DEF RowInv, Knows
  <2>5. Move(r, done)
    BY <2>2, <2>3, <2>4 DEF Move
  <2> QED
    BY <1>1, <2>0, <2>1, <2>5, UpdateMoves
<1>9. CASE AppendReply(p) \/ AppendRefused(p) \/ FinishReply(p) \/ ConcurrentUpdate(p)
  BY <1>9, StillMoves DEF AppendReply, AppendRefused, FinishReply, ConcurrentUpdate, rowVars
<1> QED
  BY <1>2, <1>3, <1>4, <1>5, <1>6, <1>7, <1>8, <1>9 DEF Continue

\* Every step of the inbox.
LEMMA NextMoves == IInv /\ [Next]_vars => Moves
<1> SUFFICES ASSUME IInv, [Next]_vars PROVE Moves
  OBVIOUS
<1>1. CASE UNCHANGED vars
  BY <1>1, StillMoves DEF vars
<1>2. CASE Sweep
  BY <1>2, SweptMoves DEF Sweep, Replace, Moves
<1>3. CASE ExpireStale
  BY <1>3, ExpireStaleMoves
<1>4. CASE \E d \in Deliveries : Lapse(d) \/ Age(d)
  BY <1>4, StillMoves DEF Lapse, Age
<1>5. CASE \E d \in Deliveries : FailDelivery(d)
  BY <1>5, OfflineMoves DEF FailDelivery
<1>6. CASE \E s \in Seats : WaitLeaseAges(s) \/ SeatCall(s)
  <2>1. \A s \in Seats : WaitLeaseAges(s) \/ SeatCall(s) => UNCHANGED row
    BY DEF WaitLeaseAges, SeatCall, AwaitReply, Fail, Ack, Reply, rowVars
  <2> QED
    BY <1>6, <2>1, StillMoves
<1>7. CASE \E s \in Seats : FailTarget(s)
  BY <1>7, OfflineMoves DEF FailTarget, Pending
<1>8. CASE \E s \in Seats, p \in Procs : Enqueue(p, s)
  BY <1>8, EnqueueMoves
<1>9. CASE \E p \in Owners : OwnerCall(p)
  BY <1>9, StillMoves DEF OwnerCall, Cancel, Retry, rowVars
<1>10. CASE \E p \in Procs : Continue(p)
  BY <1>10, ContinueMoves
<1>11. CASE \E p \in Procs : Crash(p)
  BY <1>11, StillMoves DEF Crash, rowVars
<1>12. CASE \E w \in Loops : BeginWait(w) \/ LoopStep(w)
  <2> SUFFICES ASSUME NEW w \in Loops, BeginWait(w) \/ LoopStep(w) PROVE Moves
    BY <1>12
  <2>1. CASE Claim(w)
    BY <2>1, ClaimMoves
  <2>2. CASE ClaimNothing(w)
    BY <2>2, SweptMoves DEF ClaimNothing, Replace, Moves
  <2>3. CASE BeginWait(w) \/ LeaseLost(w) \/ Refresh(w) \/ StopWait(w) \/ ReturnClaim(w)
    BY <2>3, StillMoves DEF BeginWait, LeaseLost, Refresh, StopWait, ReturnClaim, rowVars
  <2> QED
    BY <2>1, <2>2, <2>3 DEF LoopStep
<1> QED
  BY <1>1, <1>2, <1>3, <1>4, <1>5, <1>6, <1>7, <1>8, <1>9, <1>10, <1>11, <1>12 DEF Next

-----------------------------------------------------------------------------
(* What a step does to the set of answered requests.                       *)

\* The one step that writes the ledger.
Answers(c) ==
    /\ UNCHANGED row
    /\ row[c].text # NONE
    /\ \A d \in Deliveries : Committed(d)' <=> (Committed(d) \/ d = c)

\* An append adds the reply of the row its call has prepared.
LEMMA AppendAnswers ==
    ASSUME IInv, NEW p \in Procs, AppendReply(p)
    PROVE  \E c \in Deliveries : Answers(c)
<1> DEFINE c == op[p].d
           m == [d |-> c, text |-> op[p].text]
<1>1. /\ c \in Deliveries /\ UNCHANGED row /\ op[p].text \in Texts
      /\ row[c].text = op[p].text
      /\ ledger' = IF Committed(c) THEN ledger ELSE Append(ledger, m)
  BY DEF AppendReply, IInv, Core, CoreTyped, OpInv, Bound
<1>2. row[c].text # NONE
  BY <1>1, InboxAssumption
<1>3. CASE Committed(c)
  <2>1. \A d \in Deliveries : Committed(d)' <=> (Committed(d) \/ d = c)
    BY <1>1, <1>3 DEF Committed
  <2> QED
    BY <1>1, <1>2, <2>1 DEF Answers
<1>4. CASE ~ Committed(c)
  <2>1. ledger \in Seq([d: Deliveries, text: Texts]) /\ m \in [d: Deliveries, text: Texts]
    BY <1>1 DEF IInv, Core, CoreTyped
  <2>2. ledger' = Append(ledger, m)
    BY <1>1, <1>4
  <2>3. /\ DOMAIN ledger = 1..Len(ledger) /\ Len(ledger) \in Nat
        /\ DOMAIN ledger' = 1..(Len(ledger) + 1)
        /\ \A i \in DOMAIN ledger : ledger'[i] = ledger[i]
        /\ ledger'[Len(ledger) + 1] = m
    BY <2>1, <2>2, AppendProperties, LenProperties
  <2> DEFINE n == Len(ledger) + 1
  <2>4. DOMAIN ledger' = DOMAIN ledger \cup {n}
    BY <2>3
  <2>5. m.d = c
    OBVIOUS
  <2>6. (\A i \in DOMAIN ledger : ledger'[i] = ledger[i]) /\ ledger'[n] = m
    BY <2>3
  <2> HIDE DEF n, m
  <2>7. \A d \in Deliveries : Committed(d)' <=> (Committed(d) \/ d = c)
    BY <2>4, <2>5, <2>6 DEF Committed
  <2> QED
    BY <1>1, <1>2, <2>7 DEF Answers
<1> QED
  BY <1>3, <1>4

\* Every other step leaves the ledger alone.
LEMMA NextAnswers ==
    IInv /\ [Next]_vars => UNCHANGED ledger \/ \E c \in Deliveries : Answers(c)
<1> SUFFICES ASSUME IInv, [Next]_vars, ~ UNCHANGED ledger
             PROVE  \E c \in Deliveries : Answers(c)
  OBVIOUS
<1>1. \A p \in Procs : Continue(p) => AppendReply(p)
  BY DEF Continue, CancelUpdate, RetryUpdate, AckUpdate, FailUpdate, ConfirmCancelUpdate,
         PrepareUpdate, AppendRefused, FinishReply, CommitUpdate, ConcurrentUpdate, rowVars
<1>2. \A w \in Loops : ~ BeginWait(w) /\ ~ LoopStep(w)
  BY DEF LoopStep, BeginWait, LeaseLost, ClaimNothing, Claim, Refresh, StopWait,
         ReturnClaim, rowVars
<1>3. ~ Sweep /\ ~ ExpireStale
  BY DEF Sweep, ExpireStale
<1>4. \A d \in Deliveries : ~ Lapse(d) /\ ~ Age(d) /\ ~ FailDelivery(d)
  BY DEF Lapse, Age, FailDelivery, SeatOffline
<1>5. ASSUME NEW s \in Seats
      PROVE  /\ ~ WaitLeaseAges(s) /\ ~ FailTarget(s) /\ ~ SeatCall(s)
             /\ \A p \in Procs : ~ Enqueue(p, s)
  <2>1. ~ WaitLeaseAges(s) /\ ~ FailTarget(s)
    BY DEF WaitLeaseAges, FailTarget, SeatOffline, rowVars
  <2>2. ~ SeatCall(s)
    BY DEF SeatCall, AwaitReply, Fail, Ack, Reply, rowVars
  <2>3. \A p \in Procs : ~ Enqueue(p, s)
    BY DEF Enqueue
  <2> QED
    BY <2>1, <2>2, <2>3
<1>6. (\A p \in Owners : ~ OwnerCall(p)) /\ (\A p \in Procs : ~ Crash(p))
  BY DEF OwnerCall, Cancel, Retry, Crash, rowVars
<1>7. Next
  BY DEF vars
<1> QED
  BY <1>1, <1>2, <1>3, <1>4, <1>5, <1>6, <1>7, AppendAnswers DEF Next

\* An answered request has the text its seat prepared.
LEMMA AnsweredHasText ==
    ASSUME IInv, NEW d \in Deliveries, Committed(d)
    PROVE  row[d].text # NONE
<1>1. PICK i \in DOMAIN ledger : ledger[i].d = d
  BY DEF Committed
<1> QED
  BY <1>1, LedgerEntries, InboxAssumption DEF IInv, Core, LedgerInv

-----------------------------------------------------------------------------
(* The theorems.                                                           *)

\* No timer, restart or race takes acknowledged work away from its seat.
THEOREM AcknowledgedStays == Spec => AcknowledgedWorkKept
<1>1. IInv /\ [Next]_vars =>
         [\A d \in Deliveries :
             row[d].state \in {"read", "working"} =>
                 row'[d].state \notin {"queued", "delivered", "expired"}]_vars
  <2> SUFFICES ASSUME IInv, [Next]_vars, NEW d \in Deliveries,
                      row[d].state \in {"read", "working"}
               PROVE  row'[d].state \notin {"queued", "delivered", "expired"}
    OBVIOUS
  <2>1. Move(row[d], row'[d])
    BY NextMoves DEF Moves
  <2> QED
    BY <2>1 DEF Move
<1> QED
  BY <1>1, Invariance, PTL DEF Spec, AcknowledgedWorkKept

\* A verdict only changes by the owner's retry of work nobody answered, or by
\* the discovery of the receipt of an uncertain reply.
THEOREM VerdictsAreFinal == Spec => VerdictsStand
<1>1. IInv /\ [Next]_vars =>
         [\A d \in Deliveries :
             row[d].state \in Terminal /\ row'[d].state # row[d].state =>
                 \/ row[d].state \in {"failed", "cancelled", "expired"}
                      /\ row'[d].state = "queued" /\ ~ Committed(d)
                 \/ row[d].reason = "uncertain" /\ row'[d].state = "replied"]_vars
  <2> SUFFICES ASSUME IInv, [Next]_vars, NEW d \in Deliveries,
                      row[d].state \in Terminal, row'[d].state # row[d].state
               PROVE  \/ /\ row[d].state \in {"failed", "cancelled", "expired"}
                         /\ row'[d].state = "queued" /\ ~ Committed(d)
                      \/ row[d].reason = "uncertain" /\ row'[d].state = "replied"
    OBVIOUS
  <2>1. Move(row[d], row'[d])
    BY NextMoves DEF Moves
  <2>2. \/ /\ row[d].state \in {"failed", "cancelled", "expired"}
           /\ row'[d].state = "queued" /\ row[d].text = NONE
        \/ row[d].reason = "uncertain" /\ row'[d].state = "replied"
    BY <2>1 DEF Move, Terminal, Held, Open
  <2> QED
    BY <2>2, AnsweredHasText
<1> QED
  BY <1>1, Invariance, PTL DEF Spec, VerdictsStand

\* One step of the inbox is, for each request, one step of the exchange.
LEMMA ExchangeStep ==
    ASSUME IInv, [Next]_vars, NEW d \in Deliveries
    PROVE  Exchange!Step(d)
<1> DEFINE r == row[d]
           new == row'[d]
<1>1. Move(r, new) /\ r \in Row /\ RowInv(r) /\ NONE \notin Texts
  BY NextMoves, InboxAssumption DEF Moves, IInv, Core, CoreTyped
<1>2. CASE UNCHANGED ledger /\ Committed(d)
  <2>1. Committed(d)' /\ r.text # NONE
    BY <1>2, AnsweredHasText DEF Committed
  <2>2. new.text = r.text
    BY <1>1, <2>1 DEF Move
  <2>3. PhaseOf(d) = "answered" /\ PhaseOf(d)' = "answered"
    BY <1>2, <2>1 DEF PhaseOf
  <2> QED
    BY <2>2, <2>3 DEF Exchange!Step, Exchange!Rest
<1>3. CASE UNCHANGED ledger /\ ~ Committed(d)
  <2>1. ~ Committed(d)'
    BY <1>3 DEF Committed
  <2> DEFINE Phase(x) ==
        CASE x.text # NONE -> "sealed"
          [] x.text = NONE /\ x.state = "none" -> "unsent"
          [] x.text = NONE /\ x.state = "queued" -> "waiting"
          [] x.text = NONE /\ x.state \in Held -> "taken"
          [] OTHER -> "closed"
  <2>2. PhaseOf(d) = Phase(r) /\ PhaseOf(d)' = Phase(new)
    BY <1>3, <2>1 DEF PhaseOf, Held
  <2>3. \/ Phase(new) = Phase(r) /\ new.text = r.text
        \/ /\ Phase(r) \in {"unsent", "closed"} /\ Phase(new) = "waiting"
           /\ new.text = r.text
        \/ Phase(r) = "waiting" /\ Phase(new) = "taken" /\ new.text = r.text
        \/ Phase(r) = "taken" /\ Phase(new) = "waiting" /\ new.text = r.text
        \/ /\ Phase(r) \in {"waiting", "taken"} /\ Phase(new) = "closed"
           /\ new.text = r.text
        \/ Phase(r) = "taken" /\ Phase(new) = "sealed" /\ new.text \in Texts
    BY <1>1 DEF Move, Held, Open
  <2> HIDE DEF Phase
  <2> QED
    BY <2>2, <2>3 DEF Exchange!Step, Exchange!Rest, Exchange!Ask, Exchange!Take,
       Exchange!HandBack, Exchange!Close, Exchange!Seal, Exchange!Moves
<1>4. ASSUME NEW c \in Deliveries, Answers(c) PROVE Exchange!Step(d)
  <2>1. /\ r = new
        /\ Committed(d)' <=> (Committed(d) \/ d = c)
        /\ d = c => r.text # NONE
    BY <1>4 DEF Answers
  <2>2. CASE d = c /\ ~ Committed(d)
    <3>1. PhaseOf(d) = "sealed" /\ PhaseOf(d)' = "answered"
      BY <2>1, <2>2 DEF PhaseOf
    <3> QED
      BY <2>1, <3>1 DEF Exchange!Step, Exchange!Answer, Exchange!Moves
  <2>3. CASE d # c \/ Committed(d)
    <3>1. PhaseOf(d)' = PhaseOf(d)
      BY <2>1, <2>3 DEF PhaseOf
    <3> QED
      BY <2>1, <3>1 DEF Exchange!Step, Exchange!Rest
  <2> QED
    BY <2>2, <2>3
<1> QED
  BY <1>2, <1>3, <1>4, NextAnswers

\* The inbox implements the exchange: whatever queues, leases, sweeps, races and
\* crashes lie in between, a request is answered at most once, by the answer
\* that was sealed for it, and a sealed request is never asked or closed again.
THEOREM InboxImplementsExchange == Spec => ImplementsExchange
<1>1. Init => Exchange!Init
  <2> SUFFICES ASSUME Init, NEW d \in Deliveries
               PROVE  PhaseOf(d) = "unsent" /\ row[d].text = NONE
    BY DEF Exchange!Init
  <2>1. row[d] = NoRow /\ NoRow.text = NONE /\ NoRow.state = "none" /\ ~ Committed(d)
    BY DEF Init, NoRow, Committed
  <2>2. row[d].text = NONE /\ row[d].state = "none"
    BY <2>1
  <2> QED
    BY <2>1, <2>2 DEF PhaseOf, Held
<1>2. IInv /\ [Next]_vars =>
         [Exchange!Next]_<<[d \in Deliveries |-> PhaseOf(d)],
                           [d \in Deliveries |-> row[d].text]>>
  BY ExchangeStep DEF Exchange!Next
<1> QED
  BY <1>1, <1>2, Invariance, PTL DEF Spec, ImplementsExchange, Exchange!Spec
=============================================================================
