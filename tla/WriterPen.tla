------------------------------ MODULE WriterPen ------------------------------
(***************************************************************************)
(* What the writer lease promises the owner of a task: one pen, numbered   *)
(* afresh every time it changes hands, put down before the work is taken   *)
(* over into the project, and never given out again after that.            *)
(***************************************************************************)
EXTENDS Naturals

VARIABLES
    holder,   \* number of the pen in use, 0 when nobody holds one
    drawn,    \* how many pens were ever given out
    stage     \* the work: "open", being taken over, taken over

Init == holder = 0 /\ drawn = 0 /\ stage = "open"

\* A new pen: to a first holder, or taken from one and given to the next.
Give ==
    /\ stage = "open"
    /\ drawn' = drawn + 1
    /\ holder' = drawn + 1
    /\ stage' = stage

PutDown == holder # 0 /\ holder' = 0 /\ UNCHANGED <<drawn, stage>>

TakeOver ==
    /\ holder = 0
    /\ stage = "open"
    /\ stage' = "applying"
    /\ UNCHANGED <<holder, drawn>>

\* The take-over succeeds, or the work is open again.
Settle ==
    /\ stage = "applying"
    /\ stage' \in {"applied", "open"}
    /\ UNCHANGED <<holder, drawn>>

Next == Give \/ PutDown \/ TakeOver \/ Settle

Spec == Init /\ [][Next]_<<holder, drawn, stage>>
=============================================================================
