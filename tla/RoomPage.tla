------------------------------ MODULE RoomPage ------------------------------
(***************************************************************************)
(* The Room page of the browser (src/public/room.js): the room that is     *)
(* selected, its ledger as it is polled or paged through, its seats, its   *)
(* merge approvals and the bell.                                           *)
(*                                                                         *)
(* JavaScript runs one function at a time, up to its next await.  What is  *)
(* awaited here is an answer of the server: a call is sent, the server     *)
(* reads its stores for it (src/src/ui/web.ts) and the page lands the      *)
(* answer, three steps between which the owner selects another room and    *)
(* other calls are sent and land.                                          *)
(***************************************************************************)
EXTENDS Naturals, SequencesExt, FiniteSets

CONSTANTS
    Rooms,
    Terminals,    \* terminals that ask to join a room
    Approvals,    \* merge approvals that may be requested
    RoomOf,       \* the room a seat or an approval belongs to
    Limit,        \* messages of one answer (MAX_RANGE_MESSAGES)
    MaxCalls,     \* bound on the calls of one kind in flight
    MaxMoves,     \* bound on what the room, the owner and the network do
    NULL

ASSUME PageAssumption ==
    /\ RoomOf \in [Terminals \cup Approvals -> Rooms]
    /\ Terminals \cap Approvals = {} /\ IsFiniteSet(Terminals \cup Approvals)
    /\ Limit \in Nat \ {0} /\ MaxCalls \in Nat \ {0} /\ MaxMoves \in Nat
    /\ NULL \notin Rooms \cup Terminals \cup Approvals

VARIABLES
    \* the stores of the server
    lines,        \* how many lines the ledger of each room has
    stands,       \* where each seat stands with the owner of its room
    approval,     \* where each merge approval stands
    \* the page
    mode,                       \* "live" or "history", from the address
    room, after, settled,       \* state.room, after, roomInitialized
    shown,                      \* the lines in the ledger panel
    earlier, before, older,     \* historyMessages, historyBefore, the button
    hidden, searching,          \* document.hidden, state.searching
    seen, refused,              \* presences, rejectedSeatRequests
    listed, listedFor,          \* mergeApprovals, mergeApprovalsRoom
    bell,                       \* the notifications, oldest first
    \* its calls in flight
    poll, refresh, decision,    \* at most one of each
    lists, loads, finds,        \* in the order they were sent
    moves,
    queries,                    \* history: edits of the search box
    stood                       \* history: approvals that stood when the room was selected

server == <<lines, stands, approval>>
view == <<after, settled, shown, earlier, before, older>>
people == <<seen, refused>>
requests == <<listed, listedFor>>
focus == <<mode, room, hidden, searching>>
single == <<poll, refresh, decision>>
several == <<lists, loads, finds>>
since == <<queries, stood>>
pageVars == <<lines, stands, approval, mode, room, after, settled, shown, earlier,
          before, older, hidden, searching, seen, refused, listed, listedFor,
          bell, poll, refresh, decision, lists, loads, finds, moves, queries, stood>>

Lower(m, n) == IF m <= n THEN m ELSE n
Higher(m, n) == IF m <= n THEN n ELSE m

\* Lines m to n of the ledger of room r.
Lines(r, m, n) ==
    [i \in 1..(IF m <= n THEN n - m + 1 ELSE 0) |-> [room |-> r, seq |-> m + i - 1]]

\* A notification equal to the newest one is not added again.  Of different
\* ones, added one after the other, that can only be the first.
Rung(b, kind, s) ==
    LET new == [i \in DOMAIN s |-> <<kind, s[i]>>]
    IN  b \o (IF b # << >> /\ new # << >> /\ Last(b) = Head(new) THEN Tail(new) ELSE new)
RungAll(b, kind, S) == Rung(b, kind, SetToSeq(S))

\* A call about room r, and what the page keeps of the time it was sent.
Sent(r, x) == [room |-> r, arg |-> x, served |-> FALSE, answer |-> NULL]
Answered(c, x) == [c EXCEPT !.served = TRUE, !.answer = x]
Waits(c) == c # NULL /\ ~ c.served
Ready(c) == c # NULL /\ c.served

\* refreshPresence sends nothing while one of its calls is in flight.
RefreshSent(r, old) == IF refresh = NULL THEN Sent(r, old) ELSE refresh

Moves == moves < MaxMoves /\ moves' = moves + 1

\* bootstrap has drawn the page and selects a first room.
PageInit ==
    /\ lines = [r \in Rooms |-> 1]
    /\ stands = [s \in Terminals |-> "out"]
    /\ approval = [a \in Approvals |-> "none"]
    /\ mode \in {"live", "history"}
    /\ room \in Rooms
    /\ after = 0 /\ settled = FALSE
    /\ shown = << >> /\ earlier = << >>
    /\ before = 0 /\ older = "hidden"
    /\ hidden = FALSE /\ searching = FALSE
    /\ seen = << >> /\ refused = {}
    /\ listed = {} /\ listedFor = NULL
    /\ bell = << >>
    /\ poll = NULL /\ decision = NULL
    /\ refresh = IF mode = "live" THEN Sent(room, << >>) ELSE NULL
    /\ loads = IF mode = "live" THEN << >>
               ELSE << Sent(room, [reset |-> TRUE, before |-> 0]) >>
    /\ lists = << >> /\ finds = << >>
    /\ moves = 0 /\ queries = 0 /\ stood = {}

-----------------------------------------------------------------------------
(* The stores change by what terminals, agents and other pages do.          *)

LineArrives(r) ==
    /\ Moves
    /\ lines' = [lines EXCEPT ![r] = @ + 1]
    /\ UNCHANGED <<stands, approval, view, people, requests, focus, bell, single,
                   several, since>>

\* room_join_request, its two minutes, the end of the terminal.
SeatMoves(s) ==
    /\ Moves
    /\ \/ stands[s] = "out" /\ stands' = [stands EXCEPT ![s] = "asking"]
       \/ stands[s] # "out" /\ stands' = [stands EXCEPT ![s] = "out"]
    /\ UNCHANGED <<lines, approval, view, people, requests, focus, bell, single,
                   several, since>>

\* main_merge_request, and a decision or an expiry elsewhere.
ApprovalMoves(a) ==
    /\ Moves
    /\ \/ approval[a] = "none" /\ approval' = [approval EXCEPT ![a] = "requested"]
       \/ approval[a] = "requested" /\ approval' = [approval EXCEPT ![a] = "decided"]
    /\ UNCHANGED <<lines, stands, view, people, requests, focus, bell, single, several,
                   since>>

\* roomView lists who has joined the room or asks to.
SeatsOf(r) == [s \in {s \in Terminals : RoomOf[s] = r /\ stands[s] # "out"} |-> stands[s]]
RequestedIn(r) == {a \in Approvals : RoomOf[a] = r /\ approval[a] = "requested"}

-----------------------------------------------------------------------------
(* The live ledger.                                                         *)

MayPoll == ~ searching /\ mode = "live" /\ poll = NULL

Poll ==
    /\ MayPoll /\ ~ hidden
    /\ poll' = Sent(room, after)
    /\ UNCHANGED <<server, view, people, requests, focus, bell, refresh, decision,
                   several, moves, since>>

ServePoll ==
    /\ Waits(poll)
    /\ poll' = Answered(poll, [last |-> Lower(lines[poll.room], poll.arg + Limit),
                               total |-> lines[poll.room]])
    /\ UNCHANGED <<server, view, people, requests, focus, bell, refresh, decision,
                   several, moves, since>>

\* Every line stands for one that ingestRoomNotifications rings for.
News(c) == Lines(c.room, c.arg + 1, c.answer.last)

\* A page that draws every answer, for whichever room it is.
LandAnyPoll ==
    /\ Ready(poll)
    /\ after' = poll.answer.last
    /\ shown' = shown \o News(poll)
    /\ bell' = bell
    /\ settled' = (after' >= poll.answer.total)
    /\ poll' = NULL
    /\ UNCHANGED <<server, earlier, before, older, people, requests, focus, refresh,
                   decision, several, moves, since>>

\* A page that takes the first answer for the whole backlog.
LandPollSettled ==
    /\ Ready(poll)
    /\ IF poll.room # room
       THEN UNCHANGED <<after, settled, shown, bell>>
       ELSE /\ after' = IF News(poll) = << >> THEN after ELSE poll.answer.last
            /\ shown' = shown \o News(poll)
            /\ bell' = IF settled /\ poll.arg > 0
                       THEN Rung(bell, "line", News(poll))
                       ELSE bell
            /\ settled' = TRUE
    /\ poll' = NULL
    /\ UNCHANGED <<server, earlier, before, older, people, requests, focus, refresh,
                   decision, several, moves, since>>

\* A page that returns on an answer for another room with its flag still set.
LandPollReturns ==
    /\ Ready(poll)
    /\ poll.room = room
    /\ after' = IF News(poll) = << >> THEN after ELSE poll.answer.last
    /\ shown' = shown \o News(poll)
    /\ UNCHANGED bell
    /\ settled' = (after' >= poll.answer.total)
    /\ poll' = NULL
    /\ UNCHANGED <<server, earlier, before, older, people, requests, focus, refresh,
                   decision, several, moves, since>>

LandPoll ==
    /\ Ready(poll)
    /\ IF poll.room # room
       THEN UNCHANGED <<after, settled, shown, bell>>
       ELSE /\ after' = IF News(poll) = << >> THEN after ELSE poll.answer.last
            /\ shown' = shown \o News(poll)
            /\ bell' = IF settled /\ poll.arg > 0
                       THEN Rung(bell, "line", News(poll))
                       ELSE bell
            /\ settled' = (after' >= poll.answer.total)
    /\ poll' = NULL
    /\ UNCHANGED <<server, earlier, before, older, people, requests, focus, refresh,
                   decision, several, moves, since>>

-----------------------------------------------------------------------------
(* The seats.                                                               *)

Refresh ==
    /\ refresh = NULL
    /\ refresh' = Sent(room, seen)
    /\ UNCHANGED <<server, view, people, requests, focus, bell, poll, decision,
                   several, moves, since>>

ServeRefresh ==
    /\ Waits(refresh)
    /\ refresh' = Answered(refresh, SeatsOf(refresh.room))
    /\ UNCHANGED <<server, view, people, requests, focus, bell, poll, decision,
                   several, moves, since>>

\* Seats of this answer that the page did not know when it asked, and those
\* it knew that are gone.
Newly(c) == {s \in DOMAIN c.answer \ DOMAIN c.arg : c.answer[s] = "asking"}
Missing(c, state) == {s \in DOMAIN c.arg \ DOMAIN c.answer : c.arg[s] = state}

LandRefresh ==
    /\ Ready(refresh)
    /\ IF refresh.room # room
       THEN UNCHANGED <<seen, refused, bell>>
       ELSE /\ seen' = refresh.answer
            /\ refused' = refused \ Newly(refresh)
            /\ bell' = RungAll(RungAll(RungAll(bell,
                          "asks", Newly(refresh)),
                          "lapsed", Missing(refresh, "asking") \ refused'),
                          "offline", Missing(refresh, "joined"))
    /\ refresh' = NULL
    /\ UNCHANGED <<server, view, requests, focus, poll, decision, several, moves, since>>

\* The owner approves, refuses or removes a seat the page lists.
Decide(s, what) ==
    /\ Moves
    /\ decision = NULL
    /\ s \in DOMAIN seen
    /\ seen[s] = IF what = "leave" THEN "joined" ELSE "asking"
    /\ decision' = Sent(room, [seat |-> s, what |-> what])
    /\ UNCHANGED <<server, view, people, requests, focus, bell, poll, refresh, several,
                   since>>

ServeDecision ==
    /\ Waits(decision)
    /\ LET s == decision.arg.seat
           ok == /\ RoomOf[s] = decision.room
                 /\ stands[s] = IF decision.arg.what = "leave" THEN "joined" ELSE "asking"
       IN /\ decision' = Answered(decision, ok)
          /\ stands' =
                IF ok
                THEN [stands EXCEPT ![s] = IF decision.arg.what = "join" THEN "joined" ELSE "out"]
                ELSE stands
    /\ UNCHANGED <<lines, approval, view, people, requests, focus, bell, poll, refresh,
                   several, moves, since>>

WithJoined(f, s) == [t \in DOMAIN f \cup {s} |-> IF t = s THEN "joined" ELSE f[t]]
Without(f, s) == [t \in DOMAIN f \ {s} |-> f[t]]

\* The list is patched for the room that is selected by now, and read again.
LandDecision ==
    /\ Ready(decision)
    /\ LET s == decision.arg.seat
           what == decision.arg.what
       IN IF decision.answer
          THEN /\ seen' = IF what = "join" THEN WithJoined(seen, s) ELSE Without(seen, s)
               /\ refused' = IF what = "reject" THEN refused \cup {s} ELSE refused
               /\ refresh' = RefreshSent(room, seen')
          ELSE UNCHANGED <<seen, refused, refresh>>
    /\ decision' = NULL
    /\ UNCHANGED <<server, view, requests, focus, bell, poll, several, moves, since>>

-----------------------------------------------------------------------------
(* The merge approvals of the badge.                                        *)

ListApprovals ==
    /\ Len(lists) < MaxCalls
    /\ lists' = Append(lists, Sent(room, NULL))
    /\ UNCHANGED <<server, view, people, requests, focus, bell, single, loads, finds,
                   moves, since>>

ServeList(i) ==
    /\ i \in DOMAIN lists /\ Waits(lists[i])
    /\ lists' = [lists EXCEPT ![i] = Answered(@, RequestedIn(@.room))]
    /\ UNCHANGED <<server, view, people, requests, focus, bell, single, loads, finds,
                   moves, since>>

\* refreshMergeApprovals asks which room is selected when the answer is here.
LandList(i) ==
    /\ i \in DOMAIN lists /\ Ready(lists[i])
    /\ listed' = lists[i].answer
    /\ listedFor' = room
    /\ bell' = IF listedFor = room
               THEN RungAll(bell, "approval", lists[i].answer \ listed)
               ELSE bell
    /\ lists' = RemoveAt(lists, i)
    /\ UNCHANGED <<server, view, people, focus, single, loads, finds, moves, since>>

-----------------------------------------------------------------------------
(* The history of a room, from its newest lines backwards.  The button is   *)
(* disabled before loadHistory looks whether it may load.                   *)

Older ==
    /\ Moves
    /\ older = "ready" /\ older' = "busy"
    /\ Len(loads) < MaxCalls
    /\ loads' = IF searching THEN loads
                ELSE Append(loads, Sent(room, [reset |-> FALSE, before |-> before]))
    /\ UNCHANGED <<server, after, settled, shown, earlier, before, people, requests,
                   focus, bell, single, lists, finds, since>>

HistoryEnd(c) == IF c.arg.before = 0 THEN lines[c.room]
                 ELSE Lower(lines[c.room], c.arg.before - 1)
HistoryStart(c) == Higher(1, (HistoryEnd(c) + 1) - Lower(Limit, HistoryEnd(c)))

ServeLoad(i) ==
    /\ i \in DOMAIN loads /\ Waits(loads[i])
    /\ loads' = [loads EXCEPT ![i] =
           Answered(@, Lines(@.room, HistoryStart(@), HistoryEnd(@)))]
    /\ UNCHANGED <<server, view, people, requests, focus, bell, single, lists, finds,
                   moves, since>>

LandLoad(i) ==
    /\ i \in DOMAIN loads /\ Ready(loads[i])
    /\ earlier' = loads[i].answer \o (IF loads[i].arg.reset THEN << >> ELSE earlier)
    /\ shown' = earlier'
    /\ before' = IF earlier' = << >> THEN 0 ELSE earlier'[1].seq
    /\ older' = IF loads[i].answer # << >> /\ loads[i].answer[1].seq > 1
                THEN "ready" ELSE "hidden"
    /\ loads' = RemoveAt(loads, i)
    /\ UNCHANGED <<server, after, settled, people, requests, focus, bell, single,
                   lists, finds, moves, since>>

-----------------------------------------------------------------------------
(* The room that is selected, the search box, the tab.                      *)

SelectRoom(r) ==
    /\ room' = r
    /\ after' = 0 /\ settled' = FALSE
    /\ shown' = << >> /\ earlier' = << >> /\ before' = 0
    /\ older' = older
    /\ seen' = << >>
    /\ listed' = {} /\ listedFor' = NULL
    /\ stood' = RequestedIn(r)
    /\ IF mode = "live"
       THEN /\ refresh' = RefreshSent(r, << >>)
            /\ UNCHANGED loads
       ELSE /\ loads' = IF searching' THEN loads
                        ELSE Append(loads, Sent(r, [reset |-> TRUE, before |-> 0]))
            /\ UNCHANGED refresh

Select(r) ==
    /\ Moves
    /\ Len(loads) < MaxCalls
    /\ UNCHANGED searching
    /\ SelectRoom(r)
    /\ UNCHANGED <<server, refused, mode, hidden, bell, poll, decision, lists, finds,
                   queries>>

Search ==
    /\ Moves
    /\ Len(finds) < MaxCalls
    /\ searching' = TRUE
    /\ queries' = queries + 1
    /\ finds' = Append(finds, Sent(room, NULL))
    /\ UNCHANGED <<server, view, people, requests, mode, room, hidden, bell, single,
                   lists, loads, stood>>

\* What matches is some line; the newest stands for it.
ServeSearch(i) ==
    /\ i \in DOMAIN finds /\ Waits(finds[i])
    /\ finds' = [finds EXCEPT ![i] =
           Answered(@, Lines(@.room, lines[@.room], lines[@.room]))]
    /\ UNCHANGED <<server, view, people, requests, focus, bell, single, lists, loads,
                   moves, since>>

LandSearch(i) ==
    /\ i \in DOMAIN finds /\ Ready(finds[i])
    /\ shown' = finds[i].answer
    /\ finds' = RemoveAt(finds, i)
    /\ UNCHANGED <<server, after, settled, earlier, before, older, people, requests,
                   focus, bell, single, lists, loads, moves, since>>

ClearSearch ==
    /\ Moves
    /\ searching
    /\ Len(loads) < MaxCalls
    /\ searching' = FALSE
    /\ SelectRoom(room)
    /\ UNCHANGED <<server, refused, mode, hidden, bell, poll, decision, lists, finds,
                   queries>>

Hide ==
    /\ Moves
    /\ ~ hidden /\ hidden' = TRUE
    /\ UNCHANGED <<server, view, people, requests, mode, room, searching, bell, single,
                   several, since>>

\* visibilitychange polls and reads the seats at once.
Show ==
    /\ hidden /\ hidden' = FALSE
    /\ poll' = IF MayPoll THEN Sent(room, after) ELSE poll
    /\ refresh' = IF mode = "live" THEN RefreshSent(room, seen) ELSE refresh
    /\ UNCHANGED <<server, view, people, requests, mode, room, searching, bell,
                   decision, several, moves, since>>

\* A call fails on its way, or its answer does: the catch and the finally.
FailSingle ==
    /\ \/ poll # NULL /\ poll' = NULL /\ UNCHANGED <<refresh, decision>>
       \/ refresh # NULL /\ refresh' = NULL /\ UNCHANGED <<poll, decision>>
       \/ decision # NULL /\ decision' = NULL /\ UNCHANGED <<poll, refresh>>
    /\ UNCHANGED <<older, several>>

FailOne(i) ==
    /\ \/ /\ i \in DOMAIN lists /\ lists' = RemoveAt(lists, i)
          /\ UNCHANGED <<loads, finds, older>>
       \/ /\ i \in DOMAIN loads /\ loads' = RemoveAt(loads, i)
          /\ older' = (IF older = "busy" THEN "ready" ELSE older)
          /\ UNCHANGED <<lists, finds>>
       \/ /\ i \in DOMAIN finds /\ finds' = RemoveAt(finds, i)
          /\ UNCHANGED <<lists, loads, older>>
    /\ UNCHANGED single

Fail ==
    /\ Moves
    /\ FailSingle \/ \E i \in 1..MaxCalls : FailOne(i)
    /\ UNCHANGED <<server, after, settled, shown, earlier, before, people, requests,
                   focus, bell, since>>

-----------------------------------------------------------------------------
Lands ==
    \/ ServePoll \/ LandPoll
    \/ ServeRefresh \/ LandRefresh
    \/ ServeDecision \/ LandDecision
    \/ \E i \in 1..MaxCalls : \/ ServeList(i) \/ LandList(i)
                              \/ ServeLoad(i) \/ LandLoad(i)
                              \/ ServeSearch(i) \/ LandSearch(i)

PageNext ==
    \/ \E r \in Rooms : LineArrives(r) \/ Select(r)
    \/ \E s \in Terminals : SeatMoves(s)
    \/ \E s \in Terminals, what \in {"join", "reject", "leave"} : Decide(s, what)
    \/ \E a \in Approvals : ApprovalMoves(a)
    \/ Poll \/ Refresh \/ ListApprovals
    \/ Older \/ Search \/ ClearSearch \/ Hide \/ Show
    \/ Lands
    \/ Fail

PageSpec == PageInit /\ [][PageNext]_pageVars

=============================================================================
