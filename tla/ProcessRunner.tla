---------------------------- MODULE ProcessRunner ----------------------------
(***************************************************************************)
(* One child of the program: a leader in a process group of its own        *)
(* (detached), and what runProcess waits for before it answers             *)
(* (src/src/core/process-runner.ts).                                       *)
(*                                                                         *)
(* A child is a record.  "closed" is the close event of the leader, which  *)
(* also needs every holder of its pipes gone; "group" says that the group  *)
(* still has a member.  A terminated child gets SIGTERM, a second later    *)
(* SIGKILL, and is waited for until its group is gone or, a second after   *)
(* the SIGKILL, given up.                                                  *)
(***************************************************************************)

Child == [term: BOOLEAN, forced: BOOLEAN, closed: BOOLEAN, group: BOOLEAN]

spawn == [term |-> FALSE, forced |-> FALSE, closed |-> FALSE, group |-> TRUE]

\* What may become of a child in a step, none if the step does not apply.
\* A deadline, the caller's signal or a limit; the first reason stays.
terminate(c) == IF c.term THEN {} ELSE {[c EXCEPT !.term = TRUE]}

\* The timer of terminate: SIGKILL to what is left.
force(c) == IF c.term /\ ~c.forced THEN {[c EXCEPT !.forced = TRUE]} ELSE {}

\* The leader ends, alone or with its group.
closes(c) == IF c.closed THEN {}
             ELSE {[c EXCEPT !.closed = TRUE],
                   [c EXCEPT !.closed = TRUE, !.group = FALSE]}

groupEnds(c) == IF c.closed /\ c.group THEN {[c EXCEPT !.group = FALSE]} ELSE {}

\* Nobody looks at the group of a child that ended by itself.
settlesClosed(c) == c.closed /\ (c.term => ~c.group)
\* PROCESS_TREE_CLEANUP_FAILED.
givesUp(c) == c.closed /\ c.forced /\ c.group

\* What is left of a child that nobody waits for can still do something.
survives(c) == c.group /\ ~c.forced
=============================================================================
