---------------------------- MODULE MergeDecision ----------------------------
(***************************************************************************)
(* What the owner is promised about main.  A candidate gets into main only *)
(* for a yes that was given once, is spent once and merges once; what the  *)
(* record says of the outcome is what happened, unless the owner had to    *)
(* end the wait for it, or for an earlier merge of the same candidate.     *)
(***************************************************************************)
CONSTANTS
    Question,
    Candidate,
    Nothing      \* not a candidate: what a question nobody asked is about

VARIABLES
    about,    \* the candidate each question is about
    answer,   \* what became of each question
    landed,   \* questions whose candidate this product has merged into main
    verdict,  \* what the record says
    ruled     \* questions whose outcome the owner stopped waiting for

vars == <<about, answer, landed, verdict, ruled>>

Init == /\ about = [q \in Question |-> Nothing]
        /\ answer = [q \in Question |-> "none"]
        /\ landed = {}
        /\ verdict = [q \in Question |-> "open"]
        /\ ruled = {}

Becomes(q, from, to) == answer[q] \in from /\ answer' = [answer EXCEPT ![q] = to]

Ask(q) == /\ Becomes(q, {"none"}, "asked")
          /\ \E c \in Candidate : about' = [about EXCEPT ![q] = c]
          /\ UNCHANGED <<landed, verdict, ruled>>
Yes(q) == /\ Becomes(q, {"asked"}, "granted")
          /\ UNCHANGED <<about, landed, verdict, ruled>>
Close(q) == /\ Becomes(q, {"asked", "granted"}, "closed")
            /\ UNCHANGED <<about, landed, verdict, ruled>>
Spend(q) == /\ Becomes(q, {"granted"}, "spent")
            /\ UNCHANGED <<about, landed, verdict, ruled>>

Land(q) == /\ answer[q] = "spent"
           /\ q \notin landed
           /\ verdict[q] = "open" \/ q \in ruled
           /\ landed' = landed \cup {q}
           /\ UNCHANGED <<about, answer, verdict, ruled>>

\* The merge main shows is the question's own, or that of another question about
\* the same candidate, whose end the owner did not wait for.
Shows(q) == \E r \in landed : r = q \/ (r \in ruled /\ about[r] = about[q])

\* The record says what happened, or after a ruling what it sees.
Conclude(q) == /\ verdict[q] = "open"
               /\ \E v \in {"merged", "not"} :
                     /\ \/ q \in ruled
                        \/ v = "merged" /\ Shows(q)
                        \/ v = "not" /\ q \notin landed
                     /\ verdict' = [verdict EXCEPT ![q] = v]
               /\ UNCHANGED <<about, answer, landed, ruled>>

Rule(Q) == /\ ruled' = ruled \cup Q
           /\ UNCHANGED <<about, answer, landed, verdict>>

Next == \/ \E q \in Question : \/ Ask(q) \/ Yes(q) \/ Close(q) \/ Spend(q)
                               \/ Land(q) \/ Conclude(q)
        \/ \E Q \in SUBSET Question : Rule(Q)

Spec == Init /\ [][Next]_vars
=============================================================================
