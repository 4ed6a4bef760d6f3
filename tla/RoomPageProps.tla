--------------------------- MODULE RoomPageProps ---------------------------
(***************************************************************************)
(* What the Room page promises its owner.                                  *)
(***************************************************************************)
EXTENDS RoomPage

\* The page's state keeps its shape: the listed seats are seats that ask or
\* have joined, and no more calls of a kind are in flight than the bound says.
PageTypeOK ==
    /\ room \in Rooms /\ mode \in {"live", "history"}
    /\ after \in Nat /\ settled \in BOOLEAN /\ before \in Nat
    /\ older \in {"hidden", "ready", "busy"}
    /\ hidden \in BOOLEAN /\ searching \in BOOLEAN
    /\ DOMAIN seen \subseteq Terminals
    /\ \A s \in DOMAIN seen : seen[s] \in {"asking", "joined"}
    /\ refused \subseteq Terminals
    /\ listed \subseteq Approvals /\ listedFor \in Rooms \cup {NULL}
    /\ Len(lists) <= MaxCalls /\ Len(loads) <= MaxCalls /\ Len(finds) <= MaxCalls

\* As long as nobody searches, a live page shows lines of the room that is
\* selected, each once and in the ledger's order, whatever answers are late
\* (poll: the room it asked for, one poll at a time).
LiveLedger ==
    mode = "live" /\ queries = 0 =>
        \A i \in DOMAIN shown :
            /\ shown[i].room = room
            /\ i > 1 => shown[i - 1].seq < shown[i].seq

\* The bell rings once for a line of the ledger, and not for the lines that
\* were there when the page came to the room (roomInitialized, previousAfter).
NewsOnce ==
    \A i, j \in DOMAIN bell : bell[i] = bell[j] /\ bell[i][1] = "line" => i = j

\* When things come to rest the page shows them as they are: the last line of
\* the ledger, the seats and the approvals of its room.  No answer that comes
\* late or not at all leaves a flag set that stops the polling.
Current ==
    /\ after = lines[room]
    /\ seen = SeatsOf(room)
    /\ listedFor = room /\ listed = RequestedIn(room)
PageSettles ==
    <>[](mode = "live" /\ ~ hidden /\ ~ searching) => <>[]Current

\* The timers: poll every 2 seconds, the control plane every 10, a read of the
\* seats with every poll that finds the last one 5 seconds old.  The server
\* answers what reaches it.
PageFairness ==
    /\ SF_pageVars(Poll) /\ WF_pageVars(Refresh) /\ SF_pageVars(ListApprovals)
    /\ WF_pageVars(ServePoll) /\ WF_pageVars(LandPoll)
    /\ WF_pageVars(ServeRefresh) /\ WF_pageVars(LandRefresh)
    /\ WF_pageVars(ServeDecision) /\ WF_pageVars(LandDecision)
    /\ \A i \in 1..MaxCalls : WF_pageVars(ServeList(i)) /\ WF_pageVars(LandList(i))

PageFairSpec == PageSpec /\ PageFairness

-----------------------------------------------------------------------------
\* What the documents, the comments and the tests say, and the code does not
\* keep: the README lists where, and the instance that shows it.

\* Coming to a room rings for none of the approvals that stood there already:
\* they are all new to the page, and none is news (refreshMergeApprovals).
SwitchIsSilent ==
    [][\A a \in stood : bell' # bell => bell'[Len(bell')] # <<"approval", a>>]_pageVars
=============================================================================
