----------------------------- MODULE RoomExchange -----------------------------
(***************************************************************************)
(* What the room promises the one who asked, whatever the inbox does       *)
(* behind it: a request waits, is taken by one seat, may be handed back or *)
(* closed and asked again; once its answer is sealed it can only be        *)
(* answered, with that answer, once.                                       *)
(***************************************************************************)
CONSTANTS Requests, Texts, NONE

VARIABLES phase, answer

Phases == {"unsent", "waiting", "taken", "closed", "sealed", "answered"}

Init ==
    /\ phase = [r \in Requests |-> "unsent"]
    /\ answer = [r \in Requests |-> NONE]

Moves(r, from, to) == phase[r] \in from /\ phase'[r] = to /\ answer'[r] = answer[r]

Rest(r) == phase'[r] = phase[r] /\ answer'[r] = answer[r]
Ask(r) == Moves(r, {"unsent", "closed"}, "waiting")
\* A request handed back may be taken again in the same step.
Take(r) == Moves(r, {"waiting"}, "taken")
HandBack(r) == Moves(r, {"taken"}, "waiting")
Close(r) == Moves(r, {"waiting", "taken"}, "closed")
Seal(r) ==
    /\ phase[r] = "taken"
    /\ phase'[r] = "sealed"
    /\ answer'[r] \in Texts
Answer(r) == Moves(r, {"sealed"}, "answered")

\* One transaction can move several requests.
Step(r) ==
    \/ Rest(r) \/ Ask(r) \/ Take(r) \/ HandBack(r)
    \/ Close(r) \/ Seal(r) \/ Answer(r)

Next == \A r \in Requests : Step(r)

Spec == Init /\ [][Next]_<<phase, answer>>
=============================================================================
