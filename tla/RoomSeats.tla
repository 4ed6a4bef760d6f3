------------------------------ MODULE RoomSeats ------------------------------
(***************************************************************************)
(* The seats of one room and the messages sent between them: presence rows *)
(* (src/src/core/room-presence.ts), the collaboration service on top of    *)
(* them (src/src/core/collaboration-service.ts) and the tools of the       *)
(* terminals' MCP processes (src/src/mcp/collab-server.ts).                *)
(*                                                                         *)
(* Presence, managed agents, ledger and inbox are four SQLite files.  The  *)
(* code of a call is synchronous, so a process does one call at a time,    *)
(* but every statement or transaction of it is a step of its own here: a   *)
(* process of somebody else commits in between.  What RoomInbox says of a  *)
(* delivery in detail is here only the state the other stores look at.     *)
(***************************************************************************)
EXTENDS Naturals, Sequences, FiniteSets

CONSTANTS
    Seats,      \* presence ids, one MCP process each; an id never comes back
    Owners,     \* owner processes that serve the GUI
    Labels,     \* display names the owner gives, to seats and managed agents
    Requests,   \* clientRequestIds of room_send, and messages of the owner
    From,       \* the seat a request is sent by, NONE for the owner
    To,         \* the seat it is addressed to
    Shared,     \* labels the owner gives to managed agents as well
    Stalls,     \* seats whose heartbeat may come too late
    Mortal,     \* processes that may die
    MaxPending, \* open deliveries a seat may have (MAX_PENDING_PER_SEAT)
    MaxActs,    \* bound on what the owner decides
    NONE

ASSUME SeatsAssumption ==
    /\ Seats \cap Owners = {}
    /\ From \in [Requests -> Seats \cup {NONE}]
    /\ To \in [Requests -> Seats]
    /\ \A r \in Requests : From[r] # To[r]
    /\ Shared \subseteq Labels
    /\ Stalls \subseteq Seats
    /\ Mortal \subseteq Seats \cup Owners
    /\ MaxPending \in Nat /\ MaxActs \in Nat
    /\ NONE \notin Seats \cup Owners \cup Labels \cup Requests

VARIABLES
    seat,       \* agent_presence: one row per seat
    managed,    \* names of the managed agents of the room that are not archived
    ledger,     \* the chat lines of sends, in order
    recording,  \* whether the room takes chat lines: "off" is paused as well
    full,       \* whether the ledger is at its limit; nothing takes lines away
    rows,       \* room_deliveries, in rowid order
    warned,     \* requests the ledger says could not be delivered
    muted,      \* history: requests whose warning a full ledger refused
    call,       \* the call each process is inside
    join,       \* seats whose room_join_request polls for the approval
    wait,       \* where the room_wait of a seat stands
    up,         \* processes that run
    acts,       \* how much the owner has decided
    late,       \* history: claims a seat tried since its standby ended
    granted,    \* history: seats the owner approved for standby in this stay
    cut         \* history: requests whose call ended with its process

gate == <<recording, full>>
said == <<gate, warned, muted>>
stores == <<seat, managed, ledger, rows, said>>
loops == <<join, wait>>
past == <<late, granted, cut>>
vars == <<seat, managed, ledger, recording, full, rows, warned, muted, call, join, wait,
          up, acts, late, granted, cut>>

Callers == Seats \cup Owners
Names == Labels \cup {NONE}
Open == {"queued", "taken", "working"}

Seat == [here: BOOLEAN, asked: BOOLEAN, in: BOOLEAN,
         name: Names, wants: BOOLEAN, standby: BOOLEAN]
Line == [req: Requests, by: Names, to: Labels]
Delivery == [req: Requests, by: Names, to: Labels,
             state: Open \cup {"answered", "closed"}, signed: Names]
Steps == {"idle", "ask", "unask", "want", "unwant", "claim", "reply",
          "target", "append", "source again", "target again", "enqueue",
          "source after", "target after", "cancel", "fail",
          "approve", "managed", "rename", "leave", "create", "offline"}
Call == [step: Steps, s: Seats \cup {NONE}, req: Requests \cup {NONE},
         by: Names, to: Names, pending: SUBSET Nat]
Idle == [step |-> "idle", s |-> NONE, req |-> NONE, by |-> NONE, to |-> NONE,
         pending |-> {}]

Here == [here |-> TRUE, asked |-> FALSE, in |-> FALSE, name |-> NONE,
         wants |-> FALSE, standby |-> FALSE]
Gone == [Here EXCEPT !.here = FALSE]

\* An MCP process registers its seat when it starts.
Init ==
    /\ seat = [s \in Seats |-> Here]
    /\ managed = {}
    /\ ledger = << >>
    /\ recording = "on" /\ full = FALSE
    /\ rows = << >>
    /\ warned = {} /\ muted = {}
    /\ call = [p \in Callers |-> Idle]
    /\ join = {}
    /\ wait = [s \in Seats |-> "no"]
    /\ up = Callers
    /\ acts = 0
    /\ late = [s \in Seats |-> 0]
    /\ granted = {}
    /\ cut = {}

-----------------------------------------------------------------------------
(* Reads.  Every presence read prunes first, so a row whose lease has run   *)
(* out is a row that is gone.                                               *)

Joined(s) == seat[s].here /\ seat[s].in
OnStandby(s) == Joined(s) /\ seat[s].standby

\* The row is still in the room under the name a call read before.
StillNamed(s, n) == Joined(s) /\ seat[s].name = n

Taken(n, s) == \E t \in Seats \ {s} : Joined(t) /\ seat[t].name = n

TargetOf(i) == To[rows[i].req]
RowsOf(s) == {i \in DOMAIN rows : TargetOf(i) = s}
OpenRowsOf(s) == {i \in RowsOf(s) : rows[i].state \in Open}

\* #reconcileUnavailableDeliveries compares the name a row was sent to.
Stranded(i) == rows[i].state \in Open /\ ~ StillNamed(TargetOf(i), rows[i].to)

Free(p) == p \in up /\ call[p].step = "idle"
At(p, step) == p \in up /\ call[p].step = step

Goto(p, step) == call' = [call EXCEPT ![p].step = step]
Ends(p) == call' = [call EXCEPT ![p] = Idle]

\* UPDATE ... WHERE id = ? changes nothing when the row is gone.
Write(s, row) == seat' = IF seat[s].here THEN [seat EXCEPT ![s] = row] ELSE seat

MovesRows(is, from, to) ==
    rows' = [i \in DOMAIN rows |->
        IF i \in is /\ rows[i].state \in from THEN [rows[i] EXCEPT !.state = to] ELSE rows[i]]

\* What #append asks of the room before it looks at anything else; a system
\* line is refused by a full ledger only.
TakesChat == recording = "on" /\ ~ full

-----------------------------------------------------------------------------
(* The terminal's side of joining and of standby.                           *)

\* requestJoin and requestStandby read the row and update it in a second
\* statement; the polling starts when they return.
RequestJoin(s) ==
    /\ Free(s) /\ seat[s].here /\ ~ seat[s].in /\ s \notin join
    /\ Goto(s, "ask")
    /\ UNCHANGED <<acts, stores, loops, up, past>>

WriteJoinRequest(s) ==
    /\ At(s, "ask")
    /\ Write(s, [seat[s] EXCEPT !.asked = TRUE])
    /\ join' = join \cup {s}
    /\ Ends(s)
    /\ UNCHANGED <<acts, managed, ledger, rows, said, wait, up, past>>

\* externalJoinWaitState: gone, joined or no longer requested ends the wait.
JoinAnswered(s) ==
    /\ Free(s) /\ s \in join
    /\ ~ (seat[s].here /\ ~ seat[s].in /\ seat[s].asked)
    /\ join' = join \ {s}
    /\ UNCHANGED <<acts, stores, call, wait, up, past>>

\* The approval timeout withdraws the request, if it is still one.
JoinTimeout(s) ==
    /\ Free(s) /\ s \in join
    /\ seat[s].here /\ ~ seat[s].in /\ seat[s].asked
    /\ join' = join \ {s}
    /\ Goto(s, "unask")
    /\ UNCHANGED <<acts, stores, wait, up, past>>

WriteJoinCancel(s) ==
    /\ At(s, "unask")
    /\ Write(s, [seat[s] EXCEPT !.asked = FALSE])
    /\ Ends(s)
    /\ UNCHANGED <<acts, managed, ledger, rows, said, loops, up, past>>

\* room_wait asks for standby unless it has it or has asked before.
RoomWait(s) ==
    /\ Free(s) /\ wait[s] = "no" /\ Joined(s)
    /\ wait' = [wait EXCEPT ![s] = "asking"]
    /\ IF seat[s].standby \/ seat[s].wants THEN call' = call ELSE Goto(s, "want")
    /\ UNCHANGED <<acts, stores, join, up, past>>

\* The request stands, but the line that tells of it may be refused: room_wait
\* ends with the error.
WriteStandbyRequest(s) ==
    /\ At(s, "want")
    /\ Write(s, [seat[s] EXCEPT !.wants = TRUE])
    /\ wait' = IF full THEN [wait EXCEPT ![s] = "no"] ELSE wait
    /\ Ends(s)
    /\ UNCHANGED <<acts, managed, ledger, rows, said, join, up, past>>

\* Approved: waitExternal checks that the seat has joined and listens.
StandbyAnswered(s) ==
    /\ Free(s) /\ wait[s] = "asking"
    /\ ~ seat[s].here \/ seat[s].standby
    /\ wait' = [wait EXCEPT ![s] = IF OnStandby(s) THEN "listening" ELSE "no"]
    /\ UNCHANGED <<acts, stores, call, join, up, past>>

StandbyTimeout(s) ==
    /\ Free(s) /\ wait[s] = "asking"
    /\ seat[s].here /\ ~ seat[s].standby
    /\ wait' = [wait EXCEPT ![s] = "no"]
    /\ IF seat[s].in /\ seat[s].wants THEN Goto(s, "unwant") ELSE call' = call
    /\ UNCHANGED <<acts, stores, join, up, past>>

WriteStandbyCancel(s) ==
    /\ At(s, "unwant")
    /\ Write(s, [seat[s] EXCEPT !.wants = FALSE])
    /\ Ends(s)
    /\ UNCHANGED <<acts, managed, ledger, rows, said, loops, up, past>>

\* A loop that looked once, when it began.
TurnWithoutLooking(s) ==
    /\ Free(s) /\ wait[s] = "listening"
    /\ Goto(s, "claim") /\ wait' = wait
    /\ UNCHANGED <<acts, stores, join, up, past>>

\* One turn of the wait loop: canContinue, then #claim in another database.
WaitTurn(s) ==
    /\ Free(s) /\ wait[s] = "listening"
    /\ IF OnStandby(s)
          THEN Goto(s, "claim") /\ wait' = wait
          ELSE call' = call /\ wait' = [wait EXCEPT ![s] = "no"]
    /\ UNCHANGED <<acts, stores, join, up, past>>

Oldest(s) ==
    LET queued == {i \in RowsOf(s) : rows[i].state = "queued"}
    IN  {i \in queued : \A j \in queued : i <= j}

Claim(s) ==
    /\ At(s, "claim")
    /\ MovesRows(Oldest(s), {"queued"}, "taken")
    /\ wait' = IF Oldest(s) = {} THEN wait ELSE [wait EXCEPT ![s] = "no"]
    /\ late' = IF OnStandby(s) THEN late
               ELSE [late EXCEPT ![s] = IF @ < 2 THEN @ + 1 ELSE @]
    /\ Ends(s)
    /\ UNCHANGED <<acts, seat, managed, ledger, said, join, up, granted, cut>>

\* The caller's timeout or its cancellation.
WaitTimeout(s) ==
    /\ Free(s) /\ wait[s] = "listening"
    /\ wait' = [wait EXCEPT ![s] = "no"]
    /\ UNCHANGED <<acts, stores, call, join, up, past>>

-----------------------------------------------------------------------------
(* What a terminal does with the work it has.  Rows and tokens are those of *)
(* RoomInbox; a seat finds its rows by presence id, whatever its name is.   *)

Ack(s) ==
    /\ Free(s)
    /\ \E i \in RowsOf(s) : rows[i].state = "taken" /\ MovesRows({i}, {"taken"}, "working")
    /\ UNCHANGED <<acts, seat, managed, ledger, said, call, loops, up, past>>

\* A reply is signed with the name the seat has when the call begins.
Reply(s) ==
    /\ Free(s) /\ Joined(s)
    /\ \E i \in RowsOf(s) :
          /\ rows[i].state = "working"
          /\ call' = [call EXCEPT ![s] = [Idle EXCEPT !.step = "reply", !.by = seat[s].name,
                                                      !.pending = {i}]]
    /\ UNCHANGED <<acts, stores, loops, up, past>>

\* The line of the reply is a chat line: where it is refused the work stays open.
WriteReply(s) ==
    /\ At(s, "reply")
    /\ rows' = [i \in DOMAIN rows |->
          IF TakesChat /\ i \in call[s].pending /\ rows[i].state = "working"
             THEN [rows[i] EXCEPT !.state = "answered", !.signed = call[s].by] ELSE rows[i]]
    /\ Ends(s)
    /\ UNCHANGED <<acts, seat, managed, ledger, said, loops, up, past>>

GiveUp(s) ==
    /\ Free(s)
    /\ \E i \in RowsOf(s) :
          /\ rows[i].state \in {"taken", "working"}
          /\ MovesRows({i}, {"taken", "working"}, "closed")
    /\ UNCHANGED <<acts, seat, managed, ledger, said, call, loops, up, past>>

\* The lease of unacknowledged work lapses and a sweep queues it again.
HandBack ==
    /\ \E i \in DOMAIN rows : rows[i].state = "taken" /\ MovesRows({i}, {"taken"}, "queued")
    /\ UNCHANGED <<acts, seat, managed, ledger, said, call, loops, up, past>>
-----------------------------------------------------------------------------
(* room_send: the line under the client's key, then the delivery, with the  *)
(* two seats looked up before, between and after.                           *)

Has(r) == {i \in DOMAIN ledger : ledger[i].req = r}
RowOf(r) == {i \in DOMAIN rows : rows[i].req = r}

Send(s, r) ==
    /\ Free(s) /\ Joined(s) /\ From[r] = s
    /\ call' = [call EXCEPT ![s] = [Idle EXCEPT !.step = "target", !.req = r,
                                                !.s = To[r], !.by = seat[s].name]]
    /\ UNCHANGED <<acts, stores, loops, up, past>>

SendTarget(s) ==
    /\ At(s, "target")
    /\ IF OnStandby(call[s].s)
          THEN call' = [call EXCEPT ![s].step = "append", ![s].to = seat[call[s].s].name]
          ELSE Ends(s)
    /\ UNCHANGED <<acts, stores, loops, up, past>>

\* The key alone, whatever was written under it.
AppendByKey(s) ==
    LET c == call[s]
        line == [req |-> c.req, by |-> c.by, to |-> c.to]
    IN  /\ At(s, "append")
        /\ ledger' = IF TakesChat /\ Has(c.req) = {} THEN Append(ledger, line) ELSE ledger
        /\ IF TakesChat THEN Goto(s, "source again") ELSE Ends(s)
        /\ UNCHANGED <<acts, seat, managed, rows, said, loops, up, past>>

\* appendIdempotent: a room that takes no chat refuses a repeated line as well.
\* Then the key with the same author and text is the same line, with another
\* one a conflict.  Either error ends the call before its catch block.
AppendLine(s) ==
    LET c == call[s]
        line == [req |-> c.req, by |-> c.by, to |-> c.to]
        found == Has(c.req)
    IN  /\ At(s, "append")
        /\ \/ TakesChat /\ found = {}
              /\ ledger' = Append(ledger, line) /\ Goto(s, "source again")
           \/ TakesChat /\ found # {} /\ ledger' = ledger
              /\ IF \A i \in found : ledger[i] = line THEN Goto(s, "source again") ELSE Ends(s)
           \/ ~ TakesChat /\ ledger' = ledger /\ Ends(s)
        /\ UNCHANGED <<acts, seat, managed, rows, said, loops, up, past>>

Silent == UNCHANGED <<warned, muted>>

\* A catch block that only rethrows.
Rethrows(p) == Silent /\ Ends(p)

\* The catch block appends the warning, swallows its refusal, and rethrows.
Warns(p) ==
    /\ IF full THEN muted' = muted \cup {call[p].req} /\ warned' = warned
               ELSE warned' = warned \cup {call[p].req} /\ muted' = muted
    /\ Ends(p)

SourceStill(s) == StillNamed(s, call[s].by)
TargetStill(s) == StillNamed(call[s].s, call[s].to) /\ OnStandby(call[s].s)

SourceAgain(s) ==
    /\ At(s, "source again")
    /\ IF SourceStill(s) THEN Goto(s, "target again") /\ Silent ELSE Warns(s)
    /\ UNCHANGED <<acts, seat, managed, ledger, gate, rows, loops, up, past>>

TargetAgain(s) ==
    /\ At(s, "target again")
    /\ IF TargetStill(s) THEN Goto(s, "enqueue") /\ Silent ELSE Warns(s)
    /\ UNCHANGED <<acts, seat, managed, ledger, gate, rows, loops, up, past>>

NewRow(p) == [req |-> call[p].req, by |-> call[p].by, to |-> call[p].to,
              state |-> "queued", signed |-> NONE]

\* MAX_PENDING_PER_SEAT is asked of a new row only.
Crowded(s) == Cardinality(OpenRowsOf(s)) >= MaxPending

\* enqueue: the row of the request if there is one, a conflict if it was sent
\* between other names; a new row if the seat has not too many.
Enqueue(s) ==
    LET found == RowOf(call[s].req)
        same == \A i \in found : rows[i].by = call[s].by /\ rows[i].to = call[s].to
        new == found = {} /\ ~ Crowded(call[s].s)
    IN  /\ At(s, "enqueue")
        /\ rows' = IF new THEN rows \o <<NewRow(s)>> ELSE rows
        /\ IF new \/ (found # {} /\ same) THEN Goto(s, "source after") /\ Silent ELSE Warns(s)
        /\ UNCHANGED <<acts, seat, managed, ledger, gate, loops, up, past>>

SourceAfter(s) ==
    /\ At(s, "source after")
    /\ Goto(s, IF SourceStill(s) THEN "target after" ELSE "cancel")
    /\ UNCHANGED <<acts, stores, loops, up, past>>

\* cancel only asks working rows to stop; what it then warns of is the same.
CancelSent(s) ==
    /\ At(s, "cancel")
    /\ MovesRows(RowOf(call[s].req), {"queued", "taken"}, "closed")
    /\ Warns(s)
    /\ UNCHANGED <<acts, seat, managed, ledger, gate, loops, up, past>>

\* The last look at the target: the sender is told that its message is queued,
\* or the row is failed and the sender is told that the seat is offline.
TargetAfter(s) ==
    /\ At(s, "target after")
    /\ IF TargetStill(s)
          THEN Ends(s)
          ELSE call' = [call EXCEPT ![s].step = "fail", ![s].pending = RowOf(call[s].req)]
    /\ UNCHANGED <<acts, stores, loops, up, past>>

\* failDeliveryIfTargetUnavailable, for a send that lost its target, for the
\* rows of a removed seat and for the rows roomView found stranded.
FailRow(p) ==
    /\ At(p, "fail")
    /\ \E i \in call[p].pending :
          /\ MovesRows({i}, Open, "closed")
          /\ \/ call[p].pending # {i} /\ Silent
                /\ call' = [call EXCEPT ![p].pending = @ \ {i}]
             \/ call[p].pending = {i} /\ IF call[p].req = NONE THEN Ends(p) /\ Silent ELSE Warns(p)
    /\ UNCHANGED <<acts, seat, managed, ledger, gate, loops, up, past>>

-----------------------------------------------------------------------------
(* The owner's side.                                                        *)

Decides(o) == Free(o) /\ acts < MaxActs /\ acts' = acts + 1

OwnerAt(o, step, s) == call' = [call EXCEPT ![o] = [Idle EXCEPT !.step = step, !.s = s]]

\* The route looks at the managed agents before presence.join, one transaction,
\* and the service again after it, for the process that created one in between.
ApproveJoin(o, s, n) ==
    /\ Decides(o)
    /\ seat[s].here /\ ~ seat[s].in /\ seat[s].asked
    /\ n \notin managed /\ ~ Taken(n, s)
    /\ seat' = [seat EXCEPT ![s].in = TRUE, ![s].asked = FALSE, ![s].name = n]
    /\ late' = IF seat[s].standby THEN [late EXCEPT ![s] = 0] ELSE late
    /\ OwnerAt(o, "managed", s)
    /\ UNCHANGED <<managed, ledger, rows, said, loops, up, granted, cut>>

Leaves(s) == Write(s, Here)

UndoJoin(o) ==
    LET s == call[o].s
    IN  /\ At(o, "managed")
        /\ IF Joined(s) /\ seat[s].name \in managed
              THEN Leaves(s) /\ granted' = granted \ {s}
              ELSE UNCHANGED <<seat, granted>>
        /\ Ends(o)
        /\ UNCHANGED <<acts, managed, ledger, rows, said, loops, up, late, cut>>

RejectJoin(o, s) ==
    /\ Decides(o)
    /\ seat[s].here /\ ~ seat[s].in /\ seat[s].asked
    /\ seat' = [seat EXCEPT ![s].asked = FALSE]
    /\ UNCHANGED <<managed, ledger, rows, said, call, loops, up, past>>

ApproveStandby(o, s) ==
    /\ Decides(o) /\ Joined(s) /\ seat[s].wants /\ ~ seat[s].standby
    /\ OwnerAt(o, "approve", s)
    /\ granted' = granted \cup {s}
    /\ UNCHANGED <<stores, loops, up, late, cut>>

WriteStandby(o) ==
    LET s == call[o].s
    IN  /\ At(o, "approve")
        /\ Write(s, [seat[s] EXCEPT !.wants = FALSE, !.standby = TRUE])
        /\ late' = IF Joined(s) THEN [late EXCEPT ![s] = 0] ELSE late
        /\ Ends(o)
        /\ UNCHANGED <<acts, managed, ledger, rows, said, loops, up, granted, cut>>

RevokeStandby(o, s) ==
    /\ Decides(o) /\ Joined(s)
    /\ seat' = [seat EXCEPT ![s].wants = FALSE, ![s].standby = FALSE]
    /\ granted' = granted \ {s}
    /\ UNCHANGED <<managed, ledger, rows, said, call, loops, up, late, cut>>

\* renameExternal looks at the managed agents and at the open work of the seat,
\* presence.rename then looks at the other seats and writes; the line it appends
\* is part of its transaction.
Rename(o, s, n) ==
    /\ Decides(o) /\ Joined(s) /\ seat[s].name # n
    /\ n \notin managed
    /\ OpenRowsOf(s) = {}
    /\ call' = [call EXCEPT ![o] = [Idle EXCEPT !.step = "rename", !.s = s, !.to = n]]
    /\ UNCHANGED <<stores, loops, up, past>>

WriteName(o) ==
    LET s == call[o].s
    IN  /\ At(o, "rename")
        /\ seat' = IF Joined(s) /\ ~ Taken(call[o].to, s) /\ ~ full
                      THEN [seat EXCEPT ![s].name = call[o].to] ELSE seat
        /\ Ends(o)
        /\ UNCHANGED <<acts, managed, ledger, rows, said, loops, up, past>>

\* #assertRemovable refuses while the seat has work it has taken on; leave and
\* the failing of its rows follow.
RemoveExternal(o, s) ==
    /\ Decides(o) /\ Joined(s)
    /\ \A i \in RowsOf(s) : rows[i].state \notin {"taken", "working"}
    /\ call' = [call EXCEPT ![o] = [Idle EXCEPT !.step = "leave", !.s = s, !.pending = RowsOf(s)]]
    /\ UNCHANGED <<stores, loops, up, past>>

Leave(o) ==
    LET s == call[o].s
    IN  /\ At(o, "leave")
        /\ IF Joined(s) THEN Leaves(s) /\ granted' = granted \ {s}
                        ELSE UNCHANGED <<seat, granted>>
        /\ IF Joined(s) /\ call[o].pending # {} THEN Goto(o, "fail") ELSE Ends(o)
        /\ UNCHANGED <<acts, managed, ledger, rows, said, loops, up, late, cut>>

\* A poll that looks for seats, not for the name they were written to under.
FindGone(o, i) ==
    /\ Free(o) /\ i \in DOMAIN rows /\ rows[i].state \in Open /\ ~ Joined(TargetOf(i))
    /\ call' = [call EXCEPT ![o] = [Idle EXCEPT !.step = "fail", !.pending = {i}]]
    /\ UNCHANGED <<acts, stores, loops, up, past>>

\* roomView and reconcileExternalPresence, one row at a time.
FindStranded(o, i) ==
    /\ Free(o) /\ i \in DOMAIN rows /\ Stranded(i)
    /\ call' = [call EXCEPT ![o] = [Idle EXCEPT !.step = "fail", !.pending = {i}]]
    /\ UNCHANGED <<acts, stores, loops, up, past>>

CreateManaged(o, n) ==
    /\ Decides(o) /\ n \in Shared \ managed
    /\ \A s \in Seats : ~ StillNamed(s, n)
    /\ call' = [call EXCEPT ![o] = [Idle EXCEPT !.step = "create", !.to = n]]
    /\ UNCHANGED <<stores, loops, up, past>>

WriteManaged(o) ==
    /\ At(o, "create")
    /\ managed' = managed \cup {call[o].to}
    /\ Ends(o)
    /\ UNCHANGED <<acts, seat, ledger, rows, said, loops, up, past>>

ArchiveManaged(o, n) ==
    /\ Decides(o) /\ n \in managed
    /\ managed' = managed \ {n}
    /\ UNCHANGED <<seat, ledger, rows, said, call, loops, up, past>>

\* The owner pauses, closes or resumes the recording of chat.
SetRecording(o) ==
    /\ Decides(o)
    /\ recording' \in {"on", "off"} \ {recording}
    /\ UNCHANGED <<seat, managed, ledger, full, rows, warned, muted, call, loops, up, past>>

\* postToExternal: a line, a row, no second look at the seat.
Post(o, r) ==
    /\ Decides(o) /\ From[r] = NONE /\ OnStandby(To[r])
    /\ Has(r) = {} /\ TakesChat
    /\ ledger' = Append(ledger, [req |-> r, by |-> NONE, to |-> seat[To[r]].name])
    /\ call' = [call EXCEPT ![o] = [Idle EXCEPT !.step = "enqueue", !.s = To[r], !.req = r,
                                                !.to = seat[To[r]].name]]
    /\ UNCHANGED <<seat, managed, rows, said, loops, up, past>>

EnqueuePost(o) ==
    /\ At(o, "enqueue")
    /\ \/ ~ Crowded(call[o].s) /\ rows' = rows \o <<NewRow(o)>> /\ Ends(o) /\ Silent
       \/ Crowded(call[o].s) /\ rows' = rows /\ Warns(o)
    /\ UNCHANGED <<acts, seat, managed, ledger, gate, loops, up, past>>

CancelDelivery(o, i) ==
    /\ Decides(o) /\ i \in DOMAIN rows /\ rows[i].state \in {"queued", "taken"}
    /\ MovesRows({i}, {"queued", "taken"}, "closed")
    /\ UNCHANGED <<seat, managed, ledger, said, call, loops, up, past>>

\* A retry does not ask whether the seat is still there.
RetryDelivery(o, i) ==
    /\ Decides(o) /\ i \in DOMAIN rows /\ rows[i].state = "closed"
    /\ MovesRows({i}, {"closed"}, "queued")
    /\ UNCHANGED <<seat, managed, ledger, said, call, loops, up, past>>

-----------------------------------------------------------------------------
(* Ends of processes and of presence rows.                                  *)

Cut(p) == cut' = IF call[p].req = NONE THEN cut ELSE cut \cup {call[p].req}

\* stdin closed: the waits are aborted, unregister and failTarget follow.
Close(s) ==
    /\ Free(s)
    /\ up' = up
    /\ seat' = [seat EXCEPT ![s] = Gone]
    /\ granted' = granted \ {s}
    /\ join' = join \ {s}
    /\ wait' = [wait EXCEPT ![s] = "no"]
    /\ Goto(s, "offline")
    /\ UNCHANGED <<acts, managed, ledger, rows, said, late, cut>>

FailTarget(s) ==
    /\ At(s, "offline")
    /\ MovesRows(RowsOf(s), Open, "closed")
    /\ up' = up \ {s}
    /\ Ends(s)
    /\ UNCHANGED <<acts, seat, managed, ledger, said, loops, past>>

\* A process can die between any two statements; an owner's is started again.
Die(p) ==
    /\ p \in up \cap Mortal
    /\ Ends(p) /\ Cut(p)
    /\ up' = IF p \in Seats THEN up \ {p} ELSE up
    /\ join' = join \ {p}
    /\ wait' = IF p \in Seats THEN [wait EXCEPT ![p] = "no"] ELSE wait
    /\ UNCHANGED <<acts, stores, late, granted>>

\* No heartbeat in time: the next reader prunes the row.
Lapse(s) ==
    /\ seat[s].here /\ (s \notin up \/ s \in Stalls)
    /\ seat' = [seat EXCEPT ![s] = Gone]
    /\ granted' = granted \ {s}
    /\ UNCHANGED <<acts, managed, ledger, rows, said, call, loops, up, late, cut>>

\* Lines of others, replies, notes and warnings bring the ledger to its limit.
Fills ==
    /\ ~ full /\ full' = TRUE
    /\ UNCHANGED <<acts, seat, managed, ledger, recording, rows, warned, muted, call, loops, up, past>>

-----------------------------------------------------------------------------
CallStep(s) ==
    \/ WriteJoinRequest(s) \/ WriteJoinCancel(s)
    \/ WriteStandbyRequest(s) \/ WriteStandbyCancel(s)
    \/ Claim(s) \/ WriteReply(s)
    \/ SendTarget(s) \/ AppendLine(s) \/ SourceAgain(s) \/ TargetAgain(s) \/ Enqueue(s)
    \/ SourceAfter(s) \/ CancelSent(s) \/ TargetAfter(s) \/ FailRow(s)
    \/ FailTarget(s)

LoopStep(s) == JoinAnswered(s) \/ StandbyAnswered(s) \/ WaitTurn(s)

SeatStep(s) ==
    \/ RequestJoin(s) \/ JoinTimeout(s)
    \/ RoomWait(s) \/ StandbyTimeout(s) \/ WaitTimeout(s)
    \/ Ack(s) \/ Reply(s) \/ GiveUp(s)
    \/ \E r \in Requests : Send(s, r)
    \/ LoopStep(s) \/ CallStep(s)
    \/ Close(s) \/ Lapse(s)

OwnerCallStep(o) ==
    \/ UndoJoin(o) \/ WriteStandby(o) \/ WriteName(o) \/ Leave(o)
    \/ FailRow(o) \/ WriteManaged(o) \/ EnqueuePost(o)

OwnerStep(o) ==
    \/ \E s \in Seats : \/ \E n \in Labels : ApproveJoin(o, s, n) \/ Rename(o, s, n)
                        \/ RejectJoin(o, s) \/ ApproveStandby(o, s) \/ RevokeStandby(o, s)
                        \/ RemoveExternal(o, s)
    \/ \E n \in Labels : CreateManaged(o, n) \/ ArchiveManaged(o, n)
    \/ SetRecording(o)
    \/ \E r \in Requests : Post(o, r)
    \/ \E i \in DOMAIN rows : FindStranded(o, i) \/ CancelDelivery(o, i) \/ RetryDelivery(o, i)
    \/ OwnerCallStep(o)

Next ==
    \/ \E s \in Seats : SeatStep(s)
    \/ \E o \in Owners : OwnerStep(o)
    \/ \E p \in Callers : Die(p)
    \/ HandBack
    \/ Fills

Spec == Init /\ [][Next]_vars
=============================================================================
