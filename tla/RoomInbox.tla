------------------------------ MODULE RoomInbox ------------------------------
(***************************************************************************)
(* The room inbox of src/src/core/room-inbox.ts: work addressed to a seat  *)
(* is queued, claimed by the seat's wait loop, acknowledged and answered.  *)
(* The rows live in one SQLite file that the owner's processes and one     *)
(* MCP process per seat open at the same time.  A BEGIN IMMEDIATE ..       *)
(* COMMIT is one step here; a method that reads a row, decides, and writes *)
(* it back with #update is two, because another process can commit in      *)
(* between.  The reply spans two databases: prepare (inbox), append        *)
(* (ledger), finish (inbox), and the process can die after any of them.    *)
(*                                                                         *)
(* Time is not counted.  A lease that has run out is a member of "lapsed", *)
(* a request older than the expiry window a member of "aged", and both     *)
(* happen at any moment, so safety holds for every timing.                 *)
(***************************************************************************)
EXTENDS Naturals, Sequences, FiniteSets

CONSTANTS
    Seats,          \* presence ids; each is one MCP process for its whole life
    Owners,         \* processes of the owner (GUI daemon, TUI)
    Loops,          \* room_wait calls, each with a waiter token of its own
    LoopSeat,       \* the seat that opens a loop
    Tokens,         \* lease tokens; a token nobody refers to may be drawn again
    Texts,          \* reply payloads (author and text)
    MaxDeliveries,  \* bound on the number of rows
    PendingLimit,   \* MAX_PENDING_PER_SEAT
    MaxAttempts,    \* DEFAULT_MAX_ATTEMPTS
    NONE            \* SQL NULL

Procs == Seats \cup Owners
Deliveries == 1..MaxDeliveries

ASSUME InboxAssumption ==
    /\ Seats \cap Owners = {}
    /\ LoopSeat \in [Loops -> Seats]
    /\ MaxDeliveries \in Nat
    /\ PendingLimit \in Nat \ {0}
    /\ MaxAttempts \in Nat \ {0, 1}
    /\ NONE \notin Seats \cup Loops \cup Tokens \cup Texts

VARIABLES
    row,      \* room_deliveries, one record per delivery
    sent,     \* how many rows were ever inserted; rowid order is claim order
    lapsed,   \* rows whose lease_expires_at_ms is in the past
    aged,     \* rows whose newest "enqueue"/"owner-retry" event is too old
    ledger,   \* reply messages committed to the room ledger, in order
    op,       \* the synchronous inbox call each process is inside, if any
    wait,     \* room_wait_leases: the loop holding each seat, and its age
    loop,     \* where each room_wait call stands
    opened,   \* history: the last loop the client of a seat opened
    alive     \* seats whose process still runs

rowVars == <<row, sent, lapsed, aged, ledger>>
waitVars == <<wait, loop, opened>>
vars == <<row, sent, lapsed, aged, ledger, op, wait, loop, opened, alive>>

Held == {"delivered", "read", "working"}
Open == Held \cup {"queued"}
Terminal == {"replied", "expired", "failed", "cancelled"}

Row == [state: Open \cup Terminal \cup {"none"},
        target: Seats \cup {NONE}, source: Seats \cup {NONE},
        attempt: 0..MaxAttempts,
        token: Tokens \cup {NONE}, cancel: BOOLEAN,
        text: Texts \cup {NONE}, completion: Tokens \cup {NONE}, seq: Nat,
        reason: {"none", "uncertain", "exhausted", "other"}]

\* A row that was not inserted yet.
NoRow == [state |-> "none", target |-> NONE, source |-> NONE, attempt |-> 0,
          token |-> NONE, cancel |-> FALSE, text |-> NONE, completion |-> NONE,
          seq |-> 0, reason |-> "none"]

\* The steps of a call that end in #update, the compare-and-swap on row_hash.
UpdateSteps == {"cancel", "retry", "read", "working", "fail", "confirm",
                "prepare", "commit", "reconcile"}
Op == [step: UpdateSteps \cup {"idle", "append", "finish"},
       d: Deliveries \cup {0}, tok: Tokens \cup {NONE},
       text: Texts \cup {NONE}, fresh: BOOLEAN]
Idle == [step |-> "idle", d |-> 0, tok |-> NONE, text |-> NONE, fresh |-> FALSE]

WaitLease == [loop: Loops \cup {NONE}, age: {"live", "expired", "ancient"}]
NoWait == [loop |-> NONE, age |-> "ancient"]
Loop == [step: {"idle", "claim", "nap", "return"}, d: Deliveries \cup {0}]
NoLoop == [step |-> "idle", d |-> 0]

TypeOK ==
    /\ row \in [Deliveries -> Row]
    /\ sent \in 0..MaxDeliveries
    /\ lapsed \subseteq Deliveries
    /\ aged \subseteq Deliveries
    /\ ledger \in Seq([d: Deliveries, text: Texts])
    /\ op \in [Procs -> Op]
    /\ wait \in [Seats -> WaitLease]
    /\ loop \in [Loops -> Loop]
    /\ opened \in [Seats -> Loops \cup {NONE}]
    /\ alive \subseteq Seats

Init ==
    /\ row = [d \in Deliveries |-> NoRow]
    /\ sent = 0
    /\ lapsed = {}
    /\ aged = {}
    /\ ledger = <<>>
    /\ op = [p \in Procs |-> Idle]
    /\ wait = [s \in Seats |-> NoWait]
    /\ loop = [w \in Loops |-> NoLoop]
    /\ opened = [s \in Seats |-> NONE]
    /\ alive = Seats

-----------------------------------------------------------------------------
(* Helpers.                                                                *)

\* A process runs one synchronous section at a time: a loop between its claim
\* and its return, or a call between its read and its last write, has the
\* process to itself.
Ready(p) ==
    /\ op[p].step = "idle"
    /\ p \in Seats => /\ p \in alive
                      /\ \A w \in Loops :
                            LoopSeat[w] = p => loop[w].step # "return"

\* getByIdempotencyKey: the reply of delivery d is in the ledger.
Committed(d) == \E i \in DOMAIN ledger : ledger[i].d = d

\* Faults: acknowledged work still on a timer, a prepared reply without one, a
\* claim without one.
EveryLeaseIsDeadline(r) == TRUE
OnlyClaimIsDeadline(r) == r.state = "delivered"
OnlyPreparedIsDeadline(r) == r.text # NONE

\* Whether the row's lease is a deadline and not only a proof of ownership.
LeaseIsDeadline(r) == r.state = "delivered" \/ r.text # NONE

Authorized(d, t) ==
    /\ row[d].token = t
    /\ ~ (LeaseIsDeadline(row[d]) /\ d \in lapsed)

\* A write of rows by another process makes the row_hash a call has read stale.
Replace(new) ==
    /\ row' = new
    /\ op' = [q \in Procs |->
                IF op[q].d # 0 /\ new[op[q].d] # row[op[q].d]
                THEN [op[q] EXCEPT !.fresh = FALSE] ELSE op[q]]

\* Fault: the write does not compare the row with the one that was read.
BlindUpdate(p, r, next) ==
    /\ row' = [row EXCEPT ![op[p].d] = r]
    /\ op' = [op EXCEPT ![p] = next]

\* #update by process p: only if the row is the one p has read.
Update(p, r, next) ==
    /\ op[p].fresh
    /\ row' = [row EXCEPT ![op[p].d] = r]
    /\ op' = [q \in Procs |->
                IF q = p THEN next
                ELSE IF op[q].d = op[p].d
                THEN [op[q] EXCEPT !.fresh = FALSE] ELSE op[q]]

\* Process p has read row d and goes on with step.
Enter(p, step, d, t, x) ==
    op' = [op EXCEPT ![p] = [step |-> step, d |-> d, tok |-> t, text |-> x,
                             fresh |-> step \in UpdateSteps]]

Unleased(r, state) == [r EXCEPT !.state = state, !.token = NONE]

\* #sweepRows: what the sweep makes of a held row whose deadline has passed.  A
\* claim that was never acknowledged gets its attempt back.
Refunded(r) == IF r.state \in {"read", "working"} \/ r.attempt = 0
               THEN r.attempt ELSE r.attempt - 1
Due(d) == row[d].state \in Held /\ d \in lapsed /\ LeaseIsDeadline(row[d])
\* Fault: a lapsed reply is handed back.
ForgettingSweptRow(r) ==
    [Unleased(r, "queued") EXCEPT !.attempt = 0, !.cancel = FALSE,
                                  !.text = NONE, !.completion = NONE]
SweptRow(r) ==
    LET acknowledged == r.state \in {"read", "working"}
        exhausted == r.attempt >= MaxAttempts
    IN  IF r.text # NONE
        THEN [Unleased(r, "failed") EXCEPT !.reason = "uncertain"]
        ELSE IF r.cancel
        THEN [Unleased(r, "cancelled") EXCEPT !.attempt = Refunded(r)]
        ELSE IF exhausted /\ acknowledged
        THEN [Unleased(r, "failed") EXCEPT !.reason = "exhausted"]
        ELSE [Unleased(r, "queued") EXCEPT !.attempt = Refunded(r)]
Swept == [d \in Deliveries |-> IF Due(d) THEN SweptRow(row[d]) ELSE row[d]]
Unswept == {d \in lapsed : ~ Due(d)}

\* The sweep and #beginWait also collect waiter rows gone for WAIT_LEASE_GC_MS.
Collected == [s \in Seats |-> IF wait[s].age = "ancient" THEN NoWait ELSE wait[s]]

Pending(rows, s) == {d \in Deliveries : rows[d].target = s /\ rows[d].state \in Open}
Queued(rows, s) == {d \in Deliveries : rows[d].target = s /\ rows[d].state = "queued"}

-----------------------------------------------------------------------------
(* Time, and the death of a process.                                       *)

Lapse(d) ==
    /\ row[d].token # NONE
    /\ d \notin lapsed
    /\ lapsed' = lapsed \cup {d}
    /\ UNCHANGED <<row, sent, aged, ledger, op, waitVars, alive>>

\* Only a row that can be queued again without a new ask need be told apart.
Age(d) ==
    /\ row[d].state \in {"queued", "delivered"}
    /\ d \notin aged
    /\ aged' = aged \cup {d}
    /\ UNCHANGED <<row, sent, lapsed, ledger, op, waitVars, alive>>

WaitLeaseAges(s) ==
    /\ wait[s].loop # NONE
    /\ wait[s].age # "ancient"
    /\ wait' = [wait EXCEPT ![s].age = IF @ = "live" THEN "expired" ELSE "ancient"]
    /\ UNCHANGED <<rowVars, op, loop, opened, alive>>

\* The process dies where it stands.  A new process of the same agent is a new
\* presence id, so a dead seat never calls again; an owner process restarts.
Crash(p) ==
    /\ p \in Seats => p \in alive
    /\ p \in Owners => op[p] # Idle
    /\ alive' = alive \ {p}
    /\ op' = [op EXCEPT ![p] = Idle]
    /\ loop' = [w \in Loops |-> IF LoopSeat[w] = p THEN NoLoop ELSE loop[w]]
    /\ UNCHANGED <<rowVars, wait, opened>>

-----------------------------------------------------------------------------
(* Queueing, sweeping and retiring work.                                   *)

\* Only a seat is named as the source of a request, and can wait for its reply.
Source(p) == IF p \in Seats THEN p ELSE NONE

\* enqueue of a new message; sending the same message again only sweeps.
Enqueue(p, s) ==
    LET d == sent + 1
    IN  /\ Ready(p)
        /\ d \in Deliveries
        /\ p # s
        /\ Cardinality(Pending(Swept, s)) < PendingLimit
        /\ Replace([Swept EXCEPT ![d] =
                      [NoRow EXCEPT !.state = "queued", !.target = s,
                                    !.source = Source(p)]])
        /\ sent' = d
        /\ lapsed' = Unswept
        /\ wait' = Collected
        /\ UNCHANGED <<aged, ledger, loop, opened, alive>>

\* list, get and waitForReply sweep in a transaction of their own.
Sweep ==
    /\ \/ \E d \in Deliveries : Due(d)
       \/ wait # Collected
    /\ Replace(Swept)
    /\ lapsed' = Unswept
    /\ wait' = Collected
    /\ UNCHANGED <<sent, aged, ledger, loop, opened, alive>>

\* expireStaleQueued, driven by roomView.
ExpireStale ==
    LET stale == {d \in aged : row[d].state = "queued" /\ row[d].text = NONE}
    IN  /\ stale # {}
        /\ Replace([d \in Deliveries |->
                      IF d \in stale
                      THEN [Unleased(row[d], "expired") EXCEPT !.reason = "none"]
                      ELSE row[d]])
        /\ UNCHANGED <<sent, lapsed, aged, ledger, waitVars, alive>>

SeatOffline(D) ==
    /\ Replace([d \in Deliveries |->
                  IF d \in D
                  THEN [Unleased(row[d], "failed") EXCEPT !.reason = "other"]
                  ELSE row[d]])
    /\ lapsed' = lapsed \ D
    /\ UNCHANGED <<sent, aged, ledger, waitVars, alive>>

\* failTarget: a seat is unregistered.
FailTarget(s) ==
    LET D == {d \in Pending(row, s) : row[d].text = NONE}
    IN  D # {} /\ SeatOffline(D)

\* failDeliveryIfTargetUnavailable: the caller found the target gone.
FailDelivery(d) ==
    /\ row[d].state \in Open
    /\ row[d].text = NONE
    /\ SeatOffline({d})

-----------------------------------------------------------------------------
(* room_wait.                                                              *)

LoopReady(w, step) ==
    /\ loop[w].step = step
    /\ Ready(LoopSeat[w])

EndWait(w) ==
    IF wait[LoopSeat[w]].loop = w
    THEN [wait EXCEPT ![LoopSeat[w]] = NoWait] ELSE wait

\* #beginWait: the newest wait of a seat displaces any earlier one.
BeginWait(w) ==
    /\ LoopReady(w, "idle")
    /\ wait' = [Collected EXCEPT ![LoopSeat[w]] = [loop |-> w, age |-> "live"]]
    /\ loop' = [loop EXCEPT ![w].step = "claim"]
    /\ opened' = [opened EXCEPT ![LoopSeat[w]] = w]
    /\ UNCHANGED <<rowVars, op, alive>>

\* Fault: a missing waiter row counts as held.
HoldsSeatUnlessTaken(w) == wait[LoopSeat[w]].loop \in {w, NONE}
HoldsSeat(w) == wait[LoopSeat[w]].loop = w

\* ROOM_WAIT_LEASE_LOST, from #claim or from #refreshWait.
LeaseLost(w) ==
    /\ LoopReady(w, "claim") \/ LoopReady(w, "nap")
    /\ ~ HoldsSeat(w)
    /\ loop' = [loop EXCEPT ![w] = NoLoop]
    /\ UNCHANGED <<rowVars, op, wait, opened, alive>>

ClaimNothing(w) ==
    /\ LoopReady(w, "claim")
    /\ HoldsSeat(w)
    /\ Queued(Swept, LoopSeat[w]) = {}
    /\ Replace(Swept)
    /\ lapsed' = Unswept
    /\ wait' = Collected
    /\ loop' = [loop EXCEPT ![w].step = "nap"]
    /\ UNCHANGED <<sent, aged, ledger, opened, alive>>

\* #claim: sweep, then hand out the oldest queued row under a fresh token.
Claim(w) ==
    /\ LoopReady(w, "claim")
    /\ HoldsSeat(w)
    /\ \E d \in Queued(Swept, LoopSeat[w]), t \in Tokens :
          /\ \A e \in Queued(Swept, LoopSeat[w]) : d <= e
          /\ t # row[d].token
          /\ \A p \in Procs : op[p].d = d => op[p].tok # t
          /\ Replace([Swept EXCEPT ![d].state = "delivered", ![d].token = t,
                                   ![d].attempt = @ + 1])
          /\ lapsed' = Unswept
          /\ loop' = [loop EXCEPT ![w] = [step |-> "return", d |-> d]]
    /\ wait' = Collected
    /\ UNCHANGED <<sent, aged, ledger, opened, alive>>

\* The loop wakes; past the half-life of its lease it renews its own row.
Refresh(w) ==
    /\ LoopReady(w, "nap")
    /\ loop' = [loop EXCEPT ![w].step = "claim"]
    /\ \/ /\ HoldsSeat(w)
          /\ wait' = [wait EXCEPT ![LoopSeat[w]].age = "live"]
       \/ /\ HoldsSeat(w) => wait[LoopSeat[w]].age = "live"
          /\ wait' = wait
    /\ UNCHANGED <<rowVars, op, opened, alive>>

\* Timeout, abort or a revoked standby: leave without a delivery.
StopWait(w) ==
    /\ LoopReady(w, "claim") \/ LoopReady(w, "nap")
    /\ wait' = EndWait(w)
    /\ loop' = [loop EXCEPT ![w] = NoLoop]
    /\ UNCHANGED <<rowVars, op, opened, alive>>

\* The claimed delivery and its token reach the agent.
ReturnClaim(w) ==
    /\ loop[w].step = "return"
    /\ wait' = EndWait(w)
    /\ loop' = [loop EXCEPT ![w] = NoLoop]
    /\ UNCHANGED <<rowVars, op, opened, alive>>

-----------------------------------------------------------------------------
(* Calls of the owner: cancel and retry.                                   *)

Cancel(p, d) ==
    /\ Ready(p)
    /\ row[d].state \in Open
    /\ row[d].text = NONE
    /\ Enter(p, "cancel", d, NONE, NONE)
    /\ UNCHANGED <<rowVars, waitVars, alive>>

\* Work that is under way is asked to stop; anything earlier is cancelled.
CancelUpdate(p) ==
    LET d == op[p].d
    IN  /\ op[p].step = "cancel"
        /\ \/ /\ row[d].state = "working"
              /\ Update(p, [row[d] EXCEPT !.cancel = TRUE], Idle)
              /\ lapsed' = lapsed
           \/ /\ row[d].state # "working"
              /\ Update(p, [Unleased(row[d], "cancelled") EXCEPT !.cancel = TRUE], Idle)
              /\ lapsed' = lapsed \ {d}
        /\ UNCHANGED <<sent, aged, ledger, waitVars, alive>>

Retry(p, d) ==
    /\ Ready(p)
    /\ row[d].state \in {"failed", "cancelled", "expired"}
    /\ row[d].reason # "uncertain"
    /\ Enter(p, "retry", d, NONE, NONE)
    /\ UNCHANGED <<rowVars, waitVars, alive>>

\* The owner-retry event is a new ask: the expiry clock starts again.
RetryUpdate(p) ==
    LET d == op[p].d
    IN  /\ op[p].step = "retry"
        /\ Update(p, [NoRow EXCEPT !.state = "queued", !.target = row[d].target,
                                   !.source = row[d].source], Idle)
        /\ lapsed' = lapsed \ {d}
        /\ aged' = aged \ {d}
        /\ UNCHANGED <<sent, ledger, waitVars, alive>>

-----------------------------------------------------------------------------
(* Calls of the seat that holds the work: ack, fail and reply.             *)

Ack(s, d, t, phase) ==
    /\ Ready(s)
    /\ row[d].target = s
    /\ Authorized(d, t)
    /\ \/ row[d].state = phase
       \/ phase = "read" /\ row[d].state \in {"delivered", "working"}
       \/ phase = "working" /\ row[d].state = "read"
    /\ Enter(s, phase, d, t, NONE)
    /\ UNCHANGED <<rowVars, waitVars, alive>>

\* A replayed ack only renews the lease; "read" never undoes "working".
AckUpdate(s) ==
    LET d == op[s].d
        phase == op[s].step
    IN  /\ phase \in {"read", "working"}
        /\ Update(s, [row[d] EXCEPT !.state = IF @ = "working" THEN @ ELSE phase],
                  Idle)
        /\ lapsed' = lapsed \ {d}
        /\ UNCHANGED <<sent, aged, ledger, waitVars, alive>>

Fail(s, d, t) ==
    /\ Ready(s)
    /\ row[d].target = s
    /\ Authorized(d, t)
    /\ row[d].state \notin Terminal
    /\ row[d].text = NONE
    /\ Enter(s, "fail", d, t, NONE)
    /\ UNCHANGED <<rowVars, waitVars, alive>>

FailUpdate(s) ==
    LET d == op[s].d
    IN  /\ op[s].step = "fail"
        /\ Update(s, [Unleased(row[d], IF row[d].cancel THEN "cancelled" ELSE "failed")
                        EXCEPT !.reason = "other"], Idle)
        /\ lapsed' = lapsed \ {d}
        /\ UNCHANGED <<sent, aged, ledger, waitVars, alive>>

\* reply up to its first write: confirm a cancel, resume a reply already in the
\* ledger, resume a prepared one, or prepare it.
Reply(s, d, t, x) ==
    /\ Ready(s)
    /\ row[d].target = s
    /\ row[d].state # "replied"
    /\ \/ /\ row[d].cancel
          /\ Authorized(d, t)
          /\ Enter(s, "confirm", d, t, x)
       \/ /\ ~ row[d].cancel
          /\ row[d].text = x
          /\ Committed(d)
          /\ Enter(s, "finish", d, t, x)
       \/ /\ ~ row[d].cancel
          /\ ~ (row[d].text # NONE /\ Committed(d))
          /\ Authorized(d, t)
          /\ row[d].state = "working"
          /\ \/ row[d].text = NONE /\ Enter(s, "prepare", d, t, x)
             \/ /\ row[d].text = x
                /\ row[d].completion = t
                /\ Enter(s, "append", d, t, x)
    /\ UNCHANGED <<rowVars, waitVars, alive>>

ConfirmCancelUpdate(s) ==
    /\ op[s].step = "confirm"
    /\ Update(s, Unleased(row[op[s].d], "cancelled"), Idle)
    /\ lapsed' = lapsed \ {op[s].d}
    /\ UNCHANGED <<sent, aged, ledger, waitVars, alive>>

\* The prepared reply is immutable: it decides between reply and cancel.
PrepareUpdate(s) ==
    LET d == op[s].d
    IN  /\ op[s].step = "prepare"
        /\ Update(s, [row[d] EXCEPT !.text = op[s].text, !.completion = op[s].tok],
                  [op[s] EXCEPT !.step = "append", !.fresh = FALSE])
        /\ lapsed' = lapsed \ {d}
        /\ UNCHANGED <<sent, aged, ledger, waitVars, alive>>

\* RoomLedger.appendIdempotent, in the ledger's own database.
AppendReply(s) ==
    LET d == op[s].d
    IN  /\ op[s].step = "append"
        /\ ledger' = IF Committed(d) THEN ledger
                     ELSE Append(ledger, [d |-> d, text |-> op[s].text])
        /\ op' = [op EXCEPT ![s].step = "finish"]
        /\ UNCHANGED <<row, sent, lapsed, aged, waitVars, alive>>

\* Recording is paused or off, or the ledger is full: the call throws.
AppendRefused(s) ==
    /\ op[s].step = "append"
    /\ op' = [op EXCEPT ![s] = Idle]
    /\ UNCHANGED <<rowVars, waitVars, alive>>

\* finishReply up to its write.
FinishReply(s) ==
    LET d == op[s].d
        bound == row[d].text = op[s].text /\ row[d].completion = op[s].tok
        late == bound /\ row[d].reason = "uncertain"
        timely == bound /\ row[d].state = "working" /\ Authorized(d, op[s].tok)
    IN  /\ op[s].step = "finish"
        /\ \/ late /\ Enter(s, "reconcile", d, op[s].tok, op[s].text)
           \/ timely /\ Enter(s, "commit", d, op[s].tok, op[s].text)
           \/ ~ late /\ ~ timely /\ op' = [op EXCEPT ![s] = Idle]
        /\ UNCHANGED <<rowVars, waitVars, alive>>

\* The write of finishReply and of reconcileCommittedReply.
CommitUpdate(p) ==
    LET d == op[p].d
        receipt == CHOOSE i \in DOMAIN ledger : ledger[i].d = d
    IN  /\ op[p].step \in {"commit", "reconcile"}
        /\ Update(p, [Unleased(row[d], "replied") EXCEPT
                        !.seq = receipt, !.cancel = FALSE,
                        !.reason = IF op[p].step = "reconcile" THEN "none" ELSE @],
                  Idle)
        /\ lapsed' = lapsed \ {d}
        /\ UNCHANGED <<sent, aged, ledger, waitVars, alive>>

\* waitForReply: the asking seat finds a receipt the row does not know of.
AwaitReply(s, d) ==
    /\ Ready(s)
    /\ row[d].source = s
    /\ row[d].text # NONE
    /\ Committed(d)
    /\ \/ row[d].state = "working"
       \/ row[d].state = "failed" /\ row[d].reason = "uncertain"
    /\ Enter(s, "reconcile", d, NONE, NONE)
    /\ UNCHANGED <<rowVars, waitVars, alive>>

\* DELIVERY_CONCURRENT_UPDATE: the row changed since this call read it.
ConcurrentUpdate(p) ==
    /\ op[p].step \in UpdateSteps
    /\ ~ op[p].fresh
    /\ op' = [op EXCEPT ![p] = Idle]
    /\ UNCHANGED <<rowVars, waitVars, alive>>

-----------------------------------------------------------------------------
OwnerCall(p) ==
    \E d \in Deliveries : Cancel(p, d) \/ Retry(p, d)

SeatCall(s) ==
    \E d \in Deliveries :
        \/ AwaitReply(s, d)
        \/ \E t \in Tokens :
              \/ Fail(s, d, t)
              \/ \E phase \in {"read", "working"} : Ack(s, d, t, phase)
              \/ \E x \in Texts : Reply(s, d, t, x)

\* The rest of a call that has begun.
Continue(p) ==
    \/ CancelUpdate(p) \/ RetryUpdate(p) \/ AckUpdate(p) \/ FailUpdate(p)
    \/ ConfirmCancelUpdate(p) \/ PrepareUpdate(p)
    \/ AppendReply(p) \/ AppendRefused(p) \/ FinishReply(p)
    \/ CommitUpdate(p) \/ ConcurrentUpdate(p)

LoopStep(w) ==
    \/ LeaseLost(w) \/ ClaimNothing(w) \/ Claim(w)
    \/ Refresh(w) \/ StopWait(w) \/ ReturnClaim(w)

Next ==
    \/ Sweep \/ ExpireStale
    \/ \E d \in Deliveries : Lapse(d) \/ Age(d) \/ FailDelivery(d)
    \/ \E s \in Seats : \/ WaitLeaseAges(s) \/ FailTarget(s) \/ SeatCall(s)
                        \/ \E p \in Procs : Enqueue(p, s)
    \/ \E p \in Owners : OwnerCall(p)
    \/ \E p \in Procs : Continue(p) \/ Crash(p)
    \/ \E w \in Loops : BeginWait(w) \/ LoopStep(w)

Spec == Init /\ [][Next]_vars
=============================================================================
