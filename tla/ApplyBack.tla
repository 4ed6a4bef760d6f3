------------------------------ MODULE ApplyBack ------------------------------
(***************************************************************************)
(* The way of an agent's work from its worktree back into the owner's      *)
(* project (src/core/apply-back-broker.ts, dirty-snapshot-broker.ts): the  *)
(* baseline taken when the worktree is made, the preview, the checks       *)
(* before the approval is spent, the files put one by one with a           *)
(* comparison each, and the roll-back over a project the owner may edit.   *)
(*                                                                         *)
(* There are two ways in.  A run of the workflow starts from a clean       *)
(* project or from a snapshot of the owner's uncommitted edits; a Room     *)
(* Writer starts from HEAD whatever the project holds, and its apply is    *)
(* bracketed by the writer lease (beginApply, finishApply, failApply).     *)
(*                                                                         *)
(* A file is its content: absent, as in the first HEAD, edited by the      *)
(* owner before the baseline, edited by the owner after it, or the         *)
(* agent's.  Two assumptions: an owner's edit never brings back earlier    *)
(* bytes, and never lands between a call's last read of a file and its     *)
(* rename over it.  Another call may land there.                           *)
(***************************************************************************)
EXTENDS Naturals, FiniteSets

CONSTANTS
    Path,      \* files, in the order in which git lists them
    Slot,      \* previews
    Call,      \* calls of apply
    Kind,      \* the ways in: "run", "room"
    Pending,   \* MAX_PENDING_APPLY_BACKS
    MaxEdits,  \* bound on what the owner does to the project
    MaxFaults, \* bound on writes and renames the system refuses
    MaxDeaths  \* bound on crashes and starts of other processes

ASSUME ApplyBackAssumption ==
    /\ Path \subseteq Nat \ {0} /\ IsFiniteSet(Path)
    /\ Kind \subseteq {"run", "room"}
    /\ Pending \in Nat \ {0}
    /\ MaxEdits \in Nat /\ MaxFaults \in Nat /\ MaxDeaths \in Nat

VARIABLES
    main,    \* the project: the files of its HEAD and those on disk
    wt,      \* the worktree: the files of its HEAD and those on disk
    task,    \* the run or Writer task: way in, status, baseline, lease, mark
    snap,    \* the snapshot of uncommitted edits, or none
    prev,    \* the previews, in the memory of the server
    call,    \* the calls of apply
    trash,   \* previews whose trash session exists
    seen,    \* history: the owner's edits the worktree was given
    edits, faults, deaths

given == <<wt, task, snap, prev, seen>>
bounds == <<edits, faults, deaths>>
vars == <<main, wt, task, snap, prev, call, trash, seen, edits, faults, deaths>>

Content == {"none", "old", "mine", "late", "new"}
Tree == [Path -> Content]
NoSnap == [head |-> {}]
NoPrev == [at |-> "none"]
Idle == [at |-> "idle"]

Clean(project) == project.tree = project.head
Mine(tree) == {p \in Path : tree[p] = "mine"}

Init ==
    /\ main \in {m \in [head : [Path -> {"none", "old"}], tree : [Path -> {"none", "old", "mine"}]] :
                    \A p \in Path : m.tree[p] \in {m.head[p], "mine", "none"}}
    /\ wt = [head |-> main.head, tree |-> main.head]
    /\ task \in [kind : Kind, status : {"none"}, fp : {main}, lease : {FALSE}, mark : {"open"}]
    /\ snap = NoSnap
    /\ prev = [s \in Slot |-> NoPrev]
    /\ call = [c \in Call |-> Idle]
    /\ trash = {} /\ seen = {}
    /\ edits = 0 /\ faults = 0 /\ deaths = 0

Baselined == task.status \notin {"none", IF task.kind = "room" THEN "added" ELSE "none"}

-----------------------------------------------------------------------------
(* The owner.                                                              *)

Held(p) == \E c \in Call : call[c].at \in {"put", "undo"} /\ call[c].hold = p

OwnerEdits(p) ==
    /\ edits < MaxEdits /\ edits' = edits + 1
    /\ ~Held(p)
    /\ main.tree[p] # IF Baselined THEN "late" ELSE "mine"
    /\ main' = [main EXCEPT !.tree[p] = IF Baselined THEN "late" ELSE "mine"]
    /\ UNCHANGED <<given, call, trash, faults, deaths>>

OwnerCommits ==
    /\ edits < MaxEdits /\ edits' = edits + 1
    /\ ~Clean(main)
    /\ main' = [main EXCEPT !.head = main.tree]
    /\ UNCHANGED <<given, call, trash, faults, deaths>>

-----------------------------------------------------------------------------
(* The way in of a run.                                                    *)

\* The owner asks for a snapshot of what is not committed.
Capture ==
    /\ task.kind = "run" /\ task.status = "none"
    /\ ~Clean(main)
    /\ snap' = main
    /\ UNCHANGED <<main, wt, task, prev, call, trash, seen, bounds>>

\* What the run finds in the project is its baseline.
Inspects ==
    /\ task.kind = "run" /\ task.status = "none"
    /\ Clean(main) <=> snap = NoSnap
    /\ task' = [task EXCEPT !.status = "inspected", !.fp = main]
    /\ UNCHANGED <<main, wt, snap, prev, call, trash, seen, bounds>>

\* The worktree starts from HEAD as it is by now.
AddsWorktree ==
    /\ task.kind = "run" /\ task.status = "inspected"
    /\ wt' = [head |-> main.head, tree |-> main.head]
    /\ task' = [task EXCEPT !.status = IF snap = NoSnap THEN "created" ELSE "added"]
    /\ seen' = Mine(main.head)
    /\ UNCHANGED <<main, snap, prev, call, trash, bounds>>

\* An import into the worktree that takes the snapshot at its word.
ImportUnchecked ==
    /\ task.kind = "run" /\ task.status = "added"
    /\ wt' = [wt EXCEPT !.tree = snap.tree]
    /\ seen' = Mine(snap.tree)
    /\ task' = [task EXCEPT !.status = "created"]
    /\ snap' = NoSnap
    /\ UNCHANGED <<main, prev, call, trash, bounds>>

\* The snapshot goes into the worktree while the project still is what it
\* shows; else the run fails.
ImportsSnapshot ==
    /\ task.kind = "run" /\ task.status = "added"
    /\ IF main = snap /\ wt.head = snap.head
       THEN /\ wt' = [wt EXCEPT !.tree = snap.tree]
            /\ seen' = Mine(snap.tree)
            /\ task' = [task EXCEPT !.status = "created"]
       ELSE /\ task' = [task EXCEPT !.status = "failed"]
            /\ UNCHANGED <<wt, seen>>
    /\ snap' = NoSnap
    /\ UNCHANGED <<main, prev, call, trash, bounds>>

-----------------------------------------------------------------------------
(* The way in of a Room Writer.                                            *)

GrantTree ==
    /\ task.kind = "room" /\ task.status = "none"
    /\ wt' = [head |-> main.head, tree |-> main.head]
    /\ task' = [task EXCEPT !.status = "added"]
    /\ seen' = Mine(main.head)
    /\ UNCHANGED <<main, snap, prev, call, trash, bounds>>

\* The baseline, if HEAD still is the worktree's; else the worktree is
\* cleaned up again and the grant refused.
BeginRetained ==
    /\ task.kind = "room" /\ task.status = "added"
    /\ task' = IF wt.head = main.head
               THEN [task EXCEPT !.status = "created", !.fp = main, !.lease = TRUE]
               ELSE [task EXCEPT !.status = "refused"]
    /\ UNCHANGED <<main, wt, snap, prev, call, trash, seen, bounds>>

\* The same task is granted again, whatever previews of it wait.
Regrants ==
    /\ task.kind = "room" /\ task.status \in {"created", "completed", "failed"}
    /\ ~task.lease /\ task.mark = "open"
    /\ task' = [task EXCEPT !.lease = TRUE]
    /\ UNCHANGED <<main, wt, snap, prev, call, trash, seen, bounds>>

-----------------------------------------------------------------------------
(* The work, and its preview.                                              *)

AgentEdits(p, content) ==
    /\ IF task.kind = "run" THEN task.status = "created" ELSE task.lease
    /\ wt.tree[p] # content
    /\ wt' = [wt EXCEPT !.tree[p] = content]
    /\ UNCHANGED <<main, task, snap, prev, call, trash, seen, bounds>>

\* The lease of a Writer ends first; work whose row says failed is refused then.
Completes ==
    /\ IF task.kind = "run" THEN task.status = "created" ELSE task.lease
    /\ task' = [task EXCEPT !.status = IF @ = "failed" THEN @ ELSE "completed", !.lease = FALSE]
    /\ UNCHANGED <<main, wt, snap, prev, call, trash, seen, bounds>>

ReviewReady == task.kind = "room" => ~task.lease /\ task.mark = "open"
Waiting == {s \in Slot : prev[s].at \in {"reading", "live"}}

\* A preview of a project that is no longer what the baseline says is refused.
PrepareChecks(s) ==
    /\ prev[s].at = "none"
    /\ task.status = "completed" /\ ReviewReady
    /\ Cardinality(Waiting) < Pending
    /\ wt.head = task.fp.head /\ main = task.fp
    /\ prev' = [prev EXCEPT ![s] = [at |-> "reading", tree |-> wt.tree]]
    /\ UNCHANGED <<main, wt, task, snap, call, trash, seen, bounds>>

\* What an apply will expect is read after the check.
PrepareReads(s) ==
    /\ prev[s].at = "reading"
    /\ prev' = [prev EXCEPT ![s] = [at |-> "live", tree |-> prev[s].tree, expect |-> main.tree]]
    /\ UNCHANGED <<main, wt, task, snap, call, trash, seen, bounds>>

Expire(s) ==
    /\ prev[s].at = "live"
    /\ prev' = [prev EXCEPT ![s].at = "gone"]
    /\ UNCHANGED <<main, wt, task, snap, call, trash, seen, bounds>>

-----------------------------------------------------------------------------
(* The checks of an apply.                                                 *)

\* A request that leaves the Writer task open while it runs.
RequestUnbracketed(c, s) ==
    /\ call[c].at = "idle"
    /\ prev[s].at = "live" /\ ReviewReady
    /\ call' = [call EXCEPT ![c] = [at |-> "verify", slot |-> s]]
    /\ UNCHANGED <<main, given, trash, bounds>>

\* The owner has typed the phrase: an approval is issued, and the Writer task
\* is closed to others while the apply runs (beginApply).
Request(c, s) ==
    /\ call[c].at = "idle"
    /\ prev[s].at = "live" /\ ReviewReady
    /\ call' = [call EXCEPT ![c] = [at |-> "verify", slot |-> s]]
    /\ task' = IF task.kind = "room" THEN [task EXCEPT !.mark = "applying"] ELSE task
    /\ UNCHANGED <<main, wt, snap, prev, trash, seen, bounds>>

At(c, step) == call[c].at = step
Of(c) == prev[call[c].slot]

\* An apply that ends without success opens the Writer task again (failApply).
Reopened == IF task.kind = "room" THEN [task EXCEPT !.mark = "open"] ELSE task
Refuse(c) ==
    /\ call' = [call EXCEPT ![c] = [at |-> "refused"]]
    /\ task' = Reopened
    /\ UNCHANGED <<main, wt, snap, prev, trash, seen, bounds>>
Goes(c, step) ==
    /\ call' = [call EXCEPT ![c].at = step]
    /\ UNCHANGED <<main, given, trash, bounds>>

SourceStands == main = task.fp

Verify(c) ==
    /\ At(c, "verify")
    /\ IF SourceStands /\ wt = [head |-> task.fp.head, tree |-> Of(c).tree]
       THEN Goes(c, "recheck") ELSE Refuse(c)

Changes(s) == {p \in Path : prev[s].tree[p] # wt.head[p]}

Recheck(c) ==
    /\ At(c, "recheck")
    /\ IF \A p \in Changes(call[c].slot) : main.tree[p] = Of(c).expect[p]
       THEN Goes(c, "consume") ELSE Refuse(c)

\* The last look at the whole project, the approval, and the end of the
\* preview are one step.  The approval may be too old by now.
Consume(c) ==
    /\ At(c, "consume")
    /\ \/ Refuse(c)
       \/ /\ SourceStands
          /\ call' = [call EXCEPT ![c] = [at |-> "session", slot |-> call[c].slot]]
          /\ prev' = [prev EXCEPT ![call[c].slot].at = "gone"]
          /\ UNCHANGED <<main, wt, task, snap, trash, seen, bounds>>

-----------------------------------------------------------------------------
(* The files.                                                              *)

\* Files to write and files to move to the trash, of those that differ.
Writes(s) == {p \in Changes(s) : prev[s].tree[p] \notin {"none", prev[s].expect[p]}}
Deletes(s) == {p \in Changes(s) : prev[s].tree[p] = "none" /\ prev[s].expect[p] # "none"}

Ended == {"done", "refused", "failed", "partial", "dead"}

\* Deleted files go to a session of the preview, which is made once.
MakesSession(c) ==
    LET s == call[c].slot
        begins(step, session) ==
            call' = [call EXCEPT ![c] = [at |-> step, slot |-> s, done |-> {},
                                         hold |-> 0, session |-> session]]
    IN /\ At(c, "session")
       /\ \/ Deletes(s) = {} /\ begins("put", FALSE) /\ UNCHANGED trash
          \/ /\ Deletes(s) # {} /\ s \notin trash
             /\ begins("put", TRUE) /\ trash' = trash \cup {s}
          \/ Deletes(s) # {} /\ s \in trash /\ begins("undo", FALSE) /\ UNCHANGED trash
       /\ UNCHANGED <<main, given, bounds>>

\* Written files first, each group in the order of its paths; undone in reverse.
ToPut(c) == (Writes(call[c].slot) \cup Deletes(call[c].slot)) \ call[c].done
First(p, S) == p \in S /\ \A q \in S : p <= q
Last(p, S) == p \in S /\ \A q \in S : q <= p
NextPut(c, p) == LET w == ToPut(c) \cap Writes(call[c].slot)
                 IN First(p, IF w # {} THEN w ELSE ToPut(c))
NextUndo(c, p) == LET d == call[c].done \cap Deletes(call[c].slot)
                  IN Last(p, IF d # {} THEN d ELSE call[c].done)

Holds(c, step, p) == At(c, step) /\ call[c].hold = p
Hold(c, p) ==
    /\ call' = [call EXCEPT ![c].hold = p]
    /\ UNCHANGED <<main, given, trash, bounds>>
Undoes(c) ==
    /\ call' = [call EXCEPT ![c].at = "undo", ![c].hold = 0]
    /\ UNCHANGED <<main, given, trash>>

\* The file is read, and is what the preview expects there.
Looks(c) ==
    /\ Holds(c, "put", 0)
    /\ \E p \in Path :
          /\ NextPut(c, p)
          /\ IF main.tree[p] = Of(c).expect[p] THEN Hold(c, p)
             ELSE Undoes(c) /\ UNCHANGED bounds

\* A new file is linked, and a link spares what is there; a rename does not.
\* A file that is gone cannot be moved to the trash.
Puts(c) ==
    \E p \in Path :
        LET s == call[c].slot
            denied == \/ p \in Writes(s) /\ Of(c).expect[p] = "none" /\ main.tree[p] # "none"
                      \/ p \in Deletes(s) /\ main.tree[p] = "none"
        IN /\ Holds(c, "put", p)
           /\ IF denied THEN Undoes(c) /\ UNCHANGED bounds
              ELSE /\ main' = [main EXCEPT !.tree[p] = Of(c).tree[p]]
                   /\ call' = [call EXCEPT ![c].hold = 0, ![c].done = @ \cup {p}]
                   /\ UNCHANGED <<given, trash, bounds>>

Finishes(c) ==
    /\ Holds(c, "put", 0) /\ ToPut(c) = {}
    /\ call' = [call EXCEPT ![c] = [at |-> "done"]]
    /\ task' = IF task.kind = "room" THEN [task EXCEPT !.mark = "applied"] ELSE task
    /\ UNCHANGED <<main, wt, snap, prev, trash, seen, bounds>>

\* The system refuses a write, a link or a rename.
Breaks(c) ==
    /\ faults < MaxFaults /\ faults' = faults + 1
    /\ call[c].at = "put" /\ ToPut(c) # {}
    /\ Undoes(c)
    /\ UNCHANGED <<edits, deaths>>

-----------------------------------------------------------------------------
(* The roll-back.                                                          *)

Ends(c, how) ==
    /\ call' = [call EXCEPT ![c] = [at |-> how]]
    /\ task' = Reopened
    /\ UNCHANGED <<main, wt, snap, prev, seen>>

\* A roll-back that takes the file as its own.
LooksBackBlindly(c) ==
    /\ Holds(c, "undo", 0)
    /\ \E p \in Path : NextUndo(c, p) /\ Hold(c, p)

\* What was deleted must still be absent, what was written still be the agent's;
\* a new file is moved to a session of the trash, made now if there is none.
LooksBack(c) ==
    /\ Holds(c, "undo", 0)
    /\ \E p \in Path :
       LET s == call[c].slot
           needs == p \in Writes(s) /\ Of(c).expect[p] = "none" /\ ~call[c].session
       IN /\ NextUndo(c, p)
          /\ \/ /\ ~needs /\ main.tree[p] = Of(c).tree[p]
                /\ Hold(c, p)
             \/ /\ ~needs /\ main.tree[p] # Of(c).tree[p]
                /\ Ends(c, "partial") /\ UNCHANGED <<trash, bounds>>
             \/ /\ needs /\ s \notin trash
                /\ call' = [call EXCEPT ![c].session = TRUE]
                /\ trash' = trash \cup {s}
                /\ UNCHANGED <<main, given, bounds>>
             \/ /\ needs /\ s \in trash
                /\ Ends(c, "partial") /\ UNCHANGED <<trash, bounds>>

PutsBack(c) ==
    \E p \in Path :
        /\ Holds(c, "undo", p)
        /\ IF p \in Writes(call[c].slot) /\ Of(c).expect[p] = "none" /\ main.tree[p] = "none"
           THEN Ends(c, "partial") /\ UNCHANGED bounds
           ELSE /\ main' = [main EXCEPT !.tree[p] = Of(c).expect[p]]
                /\ call' = [call EXCEPT ![c].hold = 0, ![c].done = @ \ {p}]
                /\ UNCHANGED <<given, bounds>>
        /\ UNCHANGED trash

\* The roll-back is whole if the project is what the baseline says.
Restored(c) ==
    /\ Holds(c, "undo", 0) /\ call[c].done = {}
    /\ Ends(c, IF SourceStands THEN "failed" ELSE "partial")
    /\ UNCHANGED <<trash, bounds>>

BreaksBack(c) ==
    /\ faults < MaxFaults /\ faults' = faults + 1
    /\ call[c].at = "undo" /\ call[c].done # {}
    /\ Ends(c, "partial")
    /\ UNCHANGED <<trash, edits, deaths>>

-----------------------------------------------------------------------------
(* Restarts.                                                               *)

\* Any start of the application takes unfinished rows for leftovers.  Of a run
\* that lives on, the row is written again at its next step (WorkflowRun).
Recovered(status) == IF status = "created" THEN "failed" ELSE status

\* Another process of the application starts on the same store.  It keeps the
\* lease of a Writer with a live run, and revokes one without.
Joins ==
    /\ deaths < MaxDeaths /\ deaths' = deaths + 1
    /\ task.kind = "room"
    /\ \E kept \in BOOLEAN :
          task' = [task EXCEPT !.status = Recovered(@), !.lease = @ /\ kept]
    /\ UNCHANGED <<main, wt, snap, prev, call, trash, seen, edits, faults>>

\* The server dies and starts again: previews, snapshots and calls are gone, and
\* leases revoked.  A Writer task in `applying' stays there.
Crash ==
    /\ deaths < MaxDeaths /\ deaths' = deaths + 1
    /\ prev' = [s \in Slot |-> IF prev[s].at = "none" THEN NoPrev ELSE [prev[s] EXCEPT !.at = "gone"]]
    /\ call' = [c \in Call |-> IF call[c].at \in {"idle"} \cup Ended THEN call[c] ELSE [at |-> "dead"]]
    /\ snap' = NoSnap
    /\ task' = [task EXCEPT !.lease = FALSE,
                            !.status = IF @ \in {"inspected", "added"} THEN "refused" ELSE Recovered(@)]
    /\ UNCHANGED <<main, wt, trash, seen, edits, faults>>

-----------------------------------------------------------------------------
Owner == OwnerCommits \/ \E p \in Path : OwnerEdits(p)
Work == \/ Capture \/ Inspects \/ AddsWorktree \/ ImportsSnapshot
        \/ GrantTree \/ BeginRetained \/ Regrants \/ Completes
        \/ \E p \in Path, content \in {"none", "new"} : AgentEdits(p, content)
Review == \E s \in Slot :
             PrepareChecks(s) \/ PrepareReads(s) \/ Expire(s) \/ \E c \in Call : Request(c, s)
Apply == \E c \in Call :
            \/ Verify(c) \/ Recheck(c) \/ Consume(c) \/ MakesSession(c)
            \/ Looks(c) \/ Puts(c) \/ Finishes(c) \/ Breaks(c)
            \/ LooksBack(c) \/ PutsBack(c) \/ Restored(c) \/ BreaksBack(c)

Next == Owner \/ Work \/ Review \/ Apply \/ Joins \/ Crash
Spec == Init /\ [][Next]_vars

=============================================================================
