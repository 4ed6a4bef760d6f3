--------------------------- MODULE ApplyBackProofs ---------------------------
(***************************************************************************)
(* What an apply-back does to the owner's files, for every number of       *)
(* files, previews, calls, edits, refused writes and restarts.             *)
(*                                                                         *)
(* A call that has passed its checks expects of no file what the owner     *)
(* wrote since the baseline, and the file it is about to replace is none   *)
(* of those.  A Writer task that is being applied has one call, no lease   *)
(* and a finished row, so that its worktree stands still; what that call   *)
(* has put and what it has yet to put make up the project.                 *)
(***************************************************************************)
EXTENDS ApplyBackProps, TLAPS

Project == [head: Tree, tree: Tree]
Status == {"none", "inspected", "added", "created", "completed", "failed", "refused"}
Task == [kind: Kind, status: Status, fp: Project, lease: BOOLEAN,
         mark: {"open", "applying", "applied"}]

\* A preview that waits for its second read, one that was complete, and the
\* kinds of calls.
Read == [at: {"reading", "gone"}, tree: Tree]
Full == [at: {"live", "gone"}, tree: Tree, expect: Tree]
Preview == [at: {"none"}] \cup Read \cup Full
Resting == [at: {"idle"} \cup Ended]
Checking == [at: {"verify", "recheck", "consume", "session"}, slot: Slot]
Moving == [at: {"put", "undo"}, slot: Slot, done: SUBSET Path, hold: Path \cup {0},
           session: BOOLEAN]
ACall == Resting \cup Checking \cup Moving

Acting == {"verify", "recheck", "consume", "session", "put", "undo"}
Verified == Acting \ {"verify"}

Shape ==
    /\ main \in Project /\ wt \in Project /\ task \in Task
    /\ snap = NoSnap \/ snap \in Project
    /\ prev \in [Slot -> Preview]
    /\ call \in [Call -> ACall]
    /\ trash \in SUBSET Slot /\ seen \in SUBSET Path
    /\ edits \in Nat /\ faults \in Nat /\ deaths \in Nat

NoLate(tree) == \A p \in Path : tree[p] # "late"
IsRun == task.kind = "run"
IsRoom == task.kind = "room"

\* The baseline has nothing the owner wrote later, and the worktree nothing the
\* project's HEAD did not have.
Baseline ==
    /\ NoLate(task.fp.head) /\ NoLate(task.fp.tree)
    /\ ~Baselined => NoLate(main.head) /\ NoLate(main.tree)
    /\ \A p \in Path : wt.tree[p] = "late" => wt.head[p] = "late"
    /\ snap # NoSnap => IsRun /\ task.status \in {"none", "inspected", "added"} /\ NoLate(snap.tree)
    /\ IsRoom => task.status # "inspected"
    /\ IsRun => task.mark = "open"

\* The edits the owner had not committed when a run began: until the worktree
\* has its files nothing but later edits replaced them, and from then on the
\* worktree was given those there are.
Given ==
    IsRun =>
        /\ task.status \in {"inspected", "added"} =>
              \A p \in Path : main.tree[p] \in {task.fp.tree[p], "late"}
        /\ task.status = "inspected" /\ snap = NoSnap => task.fp.tree = task.fp.head
        /\ task.status = "added" => snap # NoSnap
        /\ task.status \in {"created", "completed"} /\ wt.head = task.fp.head =>
              \A p \in Path :
                 \/ task.fp.tree[p] = "mine" \/ main.tree[p] = "mine"
                 \/ wt.tree[p] = "mine" /\ wt.head[p] # "mine"
                 => p \in seen

\* What a preview expects is late only where the project is.
Expects(s) == \A p \in Path :
    /\ prev[s].expect[p] = "late" => main.tree[p] = "late"
    /\ IsRun /\ prev[s].expect[p] = "mine" => p \in seen

Previews ==
    \A s \in Slot : prev[s].at # "none" =>
        /\ task.status = "completed" /\ wt.head = task.fp.head
        /\ NoLate(prev[s].tree)
        /\ IsRun => \A p \in Changes(s) : prev[s].tree[p] = "mine" => p \in seen
        /\ prev[s].at = "live" => Expects(s)

\* What a call relies on at each of its steps.
Fits(k) ==
    /\ k.at \in Acting => prev[k.slot] \in Full /\ Expects(k.slot)
    /\ k.at \in Verified => NoLate(prev[k.slot].expect)
    /\ k.at \in {"put", "undo"} /\ k.hold \in Path => main.tree[k.hold] # "late"
    /\ k.at = "put" /\ k.hold \in Path => k.hold \in Changes(k.slot)

\* Of a Writer task: the one call that applies it.
RoomFits(k) ==
    /\ k.at \in Acting => task.mark = "applying"
    /\ k.at \in Verified => wt.tree = prev[k.slot].tree
    /\ k.at = "consume" =>
          \A p \in Changes(k.slot) : main.tree[p] \in {prev[k.slot].expect[p], "late"}
    /\ k.at \in {"session", "put"} =>
          \A p \in Changes(k.slot) : prev[k.slot].expect[p] = task.fp.tree[p]
    /\ k.at = "session" => \A p \in Path : main.tree[p] \in {task.fp.tree[p], "late"}
    /\ k.at = "put" =>
          /\ k.done \subseteq Changes(k.slot)
          /\ \A p \in Path : main.tree[p] \in
                {"late", IF p \in k.done THEN prev[k.slot].tree[p] ELSE task.fp.tree[p]}

Applying ==
    IsRoom =>
        /\ task.mark # "open" => ~task.lease /\ task.status = "completed"
        /\ \A c \in Call : RoomFits(call[c])
        /\ \A c, d \in Call : call[c].at \in Acting /\ call[d].at \in Acting => c = d

Safe == Baseline /\ Given /\ Previews /\ (\A c \in Call : Fits(call[c])) /\ Applying
IInv == Shape /\ Safe /\ AppliedWhole

-----------------------------------------------------------------------------
(* Records and trees.                                                      *)

\* One file of a project is replaced.
LEMMA TreeIs ==
    ASSUME NEW m \in Project, NEW p \in Path, NEW v \in Content
    PROVE  LET n == [m EXCEPT !.tree[p] = v]
           IN n \in Project /\ n.head = m.head /\ n.tree[p] = v
              /\ \A q \in Path : q # p => n.tree[q] = m.tree[q]
  BY DEF Project, Tree

\* A preview that is over keeps what it showed.
LEMMA GoneIs ==
    ASSUME NEW k \in Preview, k.at # "none"
    PROVE  LET g == [k EXCEPT !.at = "gone"]
           IN /\ g \in Preview /\ g.at = "gone" /\ g.tree = k.tree
              /\ k \in Full => g \in Full /\ g.expect = k.expect
<1>1. CASE k \in Read
  BY <1>1 DEF Preview, Read, Full
<1>2. CASE k \in Full
  BY <1>2 DEF Preview, Read, Full
<1> QED  BY <1>1, <1>2 DEF Preview

\* What the steps of a preview say of its record.
LEMMA PreviewIs ==
    ASSUME NEW k \in Preview
    PROVE  /\ k.at \in {"none", "reading", "live", "gone"}
           /\ k.at # "none" => k.tree \in Tree
           /\ k.at = "live" => k \in Full
           /\ k.at = "reading" => k \in Read
  BY DEF Preview, Read, Full

\* What the steps of a call say of its record.
LEMMA CallIs ==
    ASSUME NEW k \in ACall
    PROVE  /\ k.at \in {"idle"} \cup Ended \cup Acting
           /\ k.at \in Acting => k.slot \in Slot
           /\ k.at \in {"put", "undo"} => k \in Moving
           /\ k.at \in {"verify", "recheck", "consume", "session"} => k \in Checking
  BY DEF ACall, Resting, Checking, Moving, Acting, Ended

\* The next record of a call.
LEMMA MovingIs ==
    ASSUME NEW k \in Moving, NEW p \in Path
    PROVE  /\ [k EXCEPT !.hold = p] \in Moving
           /\ [k EXCEPT !.session = TRUE] \in Moving
           /\ [k EXCEPT !.at = "undo", !.hold = 0] \in Moving
           /\ [k EXCEPT !.hold = 0, !.done = @ \cup {p}] \in Moving
           /\ [k EXCEPT !.hold = 0, !.done = @ \ {p}] \in Moving
  BY DEF Moving

-----------------------------------------------------------------------------
(* The steps of a call.                                                    *)

\* What no step of a call but the last changes.
Still == UNCHANGED <<wt, task, snap, seen>> /\ trash' \in SUBSET Slot
         /\ edits' \in Nat /\ faults' \in Nat /\ deaths' \in Nat

\* A call goes to a step whose needs are met.
LEMMA CallGoes ==
    ASSUME IInv, NEW c \in Call, NEW k \in ACall, call' = [call EXCEPT ![c] = k],
           call[c].at \in Acting, k.at \in Acting, k.slot = call[c].slot,
           Still, main' = main, prev' = prev, Fits(k), IsRoom => RoomFits(k)
    PROVE  IInv'
<1>1. /\ call' \in [Call -> ACall] /\ call'[c] = k
      /\ \A d \in Call \ {c} : call'[d] = call[d]
  BY DEF IInv, Shape
<1>2. Shape'
  BY <1>1 DEF IInv, Shape, Still
<1>3. Baseline' /\ Given' /\ Previews'
  BY DEF IInv, Safe, Baseline, Given, Previews, Still, Expects, NoLate, IsRun, IsRoom,
         Baselined, Changes
<1>4. ASSUME NEW d \in Call PROVE Fits(call[d])'
  <2>1. Fits(call'[d])
    BY <1>1 DEF IInv, Safe
  <2> QED  BY <2>1 DEF Fits, Still, Expects, NoLate, IsRun, Changes
<1>5. ASSUME IsRoom, NEW d \in Call PROVE RoomFits(call[d])'
  <2>1. RoomFits(call'[d])
    BY <1>1, <1>5 DEF IInv, Safe, Applying
  <2> QED  BY <2>1 DEF RoomFits, Still, Changes
<1>6. Applying'
  BY <1>1, <1>5 DEF IInv, Safe, Applying, Still, IsRoom
<1>7. AppliedWhole'
  BY DEF IInv, AppliedWhole, Still, Delivered
<1> QED  BY <1>2, <1>3, <1>4, <1>6, <1>7 DEF IInv, Safe

\* A call ends, and the Writer task is open again or applied.
LEMMA CallEnds ==
    ASSUME IInv, NEW c \in Call, NEW k \in ACall, call' = [call EXCEPT ![c] = k],
           call[c].at \in Acting, k.at \in Ended,
           UNCHANGED <<main, wt, snap, prev, seen>>, trash' \in SUBSET Slot,
           edits' \in Nat, faults' \in Nat, deaths' \in Nat,
           task' \in Task, task'.kind = task.kind, task'.status = task.status,
           task'.fp = task.fp, task'.lease = task.lease,
           IsRun => task'.mark = task.mark,
           IsRoom => \/ task'.mark = "open"
                     \/ /\ task'.mark = "applied"
                        /\ \A p \in Path : main.tree[p] \in {"late", Delivered(p)}
    PROVE  IInv'
<1>1. /\ call' \in [Call -> ACall] /\ call'[c] = k
      /\ \A d \in Call \ {c} : call'[d] = call[d]
  BY DEF IInv, Shape
<1>2. Shape'
  BY <1>1 DEF IInv, Shape
<1>3. Baseline' /\ Given' /\ Previews'
  BY DEF IInv, Safe, Baseline, Given, Previews, Expects, NoLate, IsRun, IsRoom,
         Baselined, Changes
<1>4. k.at \notin Acting /\ k.at # "consume"
  BY DEF Acting, Ended
<1>5. ASSUME NEW d \in Call PROVE Fits(call[d])'
  <2>1. CASE d = c
    BY <1>1, <1>4, <2>1 DEF Fits, Acting, Verified
  <2>2. CASE d # c
    <3>1. Fits(call'[d])
      BY <1>1, <2>2 DEF IInv, Safe
    <3> QED  BY <3>1 DEF Fits, Expects, NoLate, IsRun, Changes
  <2> QED  BY <2>1, <2>2
<1>6. ASSUME IsRoom, NEW d \in Call PROVE call'[d].at \notin Acting
  <2>1. \A o \in Call : call[o].at \in Acting => o = c
    BY <1>6 DEF IInv, Safe, Applying
  <2> QED  BY <1>1, <1>4, <2>1
<1>7. Applying'
  <2> SUFFICES ASSUME IsRoom' PROVE Applying'
    BY DEF Applying
  <2>1. IsRoom
    BY DEF IsRoom
  <2>2. \A d \in Call : RoomFits(call[d])'
    BY <1>6, <2>1 DEF RoomFits, Acting, Verified
  <2>3. task'.mark # "open" => ~task'.lease /\ task'.status = "completed"
    <3>1. task.mark = "applying"
      BY <2>1 DEF IInv, Safe, Applying, RoomFits
    <3> QED  BY <2>1, <3>1 DEF IInv, Safe, Applying
  <2> QED  BY <1>6, <2>1, <2>2, <2>3 DEF Applying
<1>8. AppliedWhole'
  <2>1. IsRun \/ IsRoom
    BY ApplyBackAssumption DEF IInv, Shape, Task, IsRun, IsRoom
  <2> QED  BY <2>1 DEF IInv, AppliedWhole, Delivered
<1> QED  BY <1>2, <1>3, <1>5, <1>7, <1>8 DEF IInv, Safe

\* What a Writer's call has put, and what it has not, make up the project.
Placing(k) ==
    /\ k.done \subseteq Changes(k.slot)
    /\ \A q \in Path : main'.tree[q] \in
          {"late", IF q \in k.done THEN prev[k.slot].tree[q] ELSE task.fp.tree[q]}

\* A file of the project is replaced, by none of the owner's later edits and in
\* place of none.
LEMMA FileMoves ==
    ASSUME IInv, NEW c \in Call, NEW k \in ACall, call' = [call EXCEPT ![c] = k],
           call[c].at \in {"put", "undo"}, k.at = call[c].at, k.slot = call[c].slot,
           k.hold = 0, Still, prev' = prev,
           NEW p \in Path, NEW v \in Content, main' = [main EXCEPT !.tree[p] = v],
           v # "late", main.tree[p] # "late", IsRun /\ v = "mine" => p \in seen,
           IsRoom /\ k.at = "put" => Placing(k)
    PROVE  IInv'
<1>1. /\ call' \in [Call -> ACall] /\ call'[c] = k
      /\ \A d \in Call \ {c} : call'[d] = call[d]
  BY DEF IInv, Shape
<1>2. /\ main' \in Project /\ main'.head = main.head /\ main'.tree[p] = v
      /\ \A q \in Path : q # p => main'.tree[q] = main.tree[q]
  BY TreeIs DEF IInv, Shape
<1>3. Shape'
  BY <1>1, <1>2 DEF IInv, Shape, Still
<1>4. call[c].at \in Acting /\ call[c].at \in Verified /\ Fits(call[c])
  BY DEF IInv, Safe, Acting, Verified
<1>5. task.status = "completed" /\ Baselined
  <2>1. prev[call[c].slot].at # "none" /\ call[c].slot \in Slot
    BY <1>4, CallIs DEF Fits, Full, IInv, Shape
  <2> QED  BY <2>1 DEF IInv, Safe, Previews, Baselined
<1>6. Baseline'
  BY <1>5 DEF IInv, Safe, Baseline, Still, Baselined, NoLate, IsRun, IsRoom
<1>7. Given'
  BY <1>2, <1>5 DEF IInv, Safe, Given, Still, IsRun
<1>8. ASSUME NEW s \in Slot, Expects(s) PROVE Expects(s)'
  BY <1>2, <1>8 DEF Expects, IsRun, Still
<1>9. Previews'
  BY <1>8 DEF IInv, Safe, Previews, Still, NoLate, IsRun, Changes
<1>10. ASSUME NEW d \in Call PROVE Fits(call[d])'
  <2>1. CASE d = c
    <3>1. Fits(call[c]) /\ k.slot \in Slot /\ k.hold \notin Path
      BY <1>4, CallIs, ApplyBackAssumption DEF IInv, Shape
    <3>2. prev[k.slot] \in Full /\ Expects(k.slot)' /\ NoLate(prev[k.slot].expect)
      BY <1>4, <1>8, <3>1 DEF Fits
    <3> QED  BY <1>1, <2>1, <3>1, <3>2 DEF Fits, NoLate
  <2>2. CASE d # c
    <3>1. Fits(call[d]) /\ call'[d] = call[d] /\ call[d] \in ACall
      BY <1>1, <2>2 DEF IInv, Safe, Shape
    <3>2. call[d].at \in Acting => call[d].slot \in Slot
      BY <3>1, CallIs
    <3>3. call[d].at \in Acting => prev[call[d].slot] \in Full /\ Expects(call[d].slot)'
      BY <1>8, <3>1, <3>2 DEF Fits
    <3>4. call[d].at \in {"put", "undo"} /\ call[d].hold \in Path => main'.tree[call[d].hold] # "late"
      BY <1>2, <3>1 DEF Fits
    <3> QED  BY <3>1, <3>3, <3>4 DEF Fits, NoLate, Still, Changes
  <2> QED  BY <2>1, <2>2
<1>11. ASSUME IsRoom PROVE /\ task.mark = "applying"
                           /\ \A d \in Call \ {c} : call[d].at \notin Acting
                           /\ wt.tree = prev[k.slot].tree
                           /\ k.at = "put" => \A q \in Changes(k.slot) :
                                 prev[k.slot].expect[q] = task.fp.tree[q]
  BY <1>4, <1>11 DEF IInv, Safe, Applying, RoomFits
<1>12. ASSUME IsRoom, NEW d \in Call PROVE RoomFits(call[d])'
  <2>1. CASE d = c
    <3>1. k.at \in {"put", "undo"}
      OBVIOUS
    <3> QED  BY <1>1, <1>11, <1>12, <2>1, <3>1 DEF RoomFits, Placing, Still, Changes
  <2>2. CASE d # c
    BY <1>1, <1>11, <1>12, <2>2 DEF RoomFits, Acting, Verified
  <2> QED  BY <2>1, <2>2
<1>13. Applying'
  <2>1. IsRoom' => IsRoom
    BY DEF IsRoom, Still
  <2>2. IsRoom => \A d \in Call \ {c} : call'[d].at \notin Acting
    BY <1>1, <1>11
  <2>3. IsRoom => (task'.mark # "open" => ~task'.lease /\ task'.status = "completed")
    BY DEF IInv, Safe, Applying, Still
  <2> QED  BY <1>12, <2>1, <2>2, <2>3 DEF Applying
<1>14. AppliedWhole'
  <2>1. IsRoom => task'.mark = "applying"
    BY <1>11 DEF Still
  <2>2. IsRun => task'.mark = "open"
    BY DEF IInv, Safe, Baseline, Still
  <2>3. IsRun \/ IsRoom
    BY ApplyBackAssumption DEF IInv, Shape, Task, IsRun, IsRoom
  <2> QED  BY <2>1, <2>2, <2>3 DEF AppliedWhole
<1> QED  BY <1>3, <1>6, <1>7, <1>9, <1>10, <1>13, <1>14 DEF IInv, Safe

\* An apply that ends without success.
LEMMA RefuseIs ==
    ASSUME IInv, NEW c \in Call, call[c].at \in Acting, NEW how \in Ended,
           call' = [call EXCEPT ![c] = [at |-> how]], task' = Reopened,
           UNCHANGED <<main, wt, snap, prev, seen>>, trash' \in SUBSET Slot,
           edits' \in Nat, faults' \in Nat, deaths' \in Nat
    PROVE  IInv'
<1> DEFINE k == [at |-> how]
<1>1. k \in ACall /\ k.at \in Ended /\ call' = [call EXCEPT ![c] = k]
  BY DEF ACall, Resting
<1>2. /\ task' \in Task /\ task'.kind = task.kind /\ task'.status = task.status
      /\ task'.fp = task.fp /\ task'.lease = task.lease
      /\ IsRun => task'.mark = task.mark
      /\ IsRoom => task'.mark = "open"
  BY DEF Reopened, IInv, Shape, Task, IsRun, IsRoom
<1> HIDE DEF k
<1> QED  BY <1>1, <1>2, CallEnds

\* Where a preview goes, nothing else about it does.
Goner(t) ==
    /\ prev' \in [Slot -> Preview]
    /\ \A s \in Slot : prev[s].at # "none" =>
          prev'[s].tree = prev[s].tree
          /\ (prev[s] \in Full => prev'[s] \in Full /\ prev'[s].expect = prev[s].expect)
    /\ \A s \in Slot : s # t => prev'[s] = prev[s]
    /\ prev[t].at # "none" /\ prev'[t].at = "gone"

\* A preview is over: the lemma below needs no more of its record.
LEMMA GonerIs ==
    ASSUME Shape, NEW t \in Slot, prev[t].at # "none",
           prev' = [prev EXCEPT ![t].at = "gone"]
    PROVE  Goner(t)
<1> DEFINE g == [prev[t] EXCEPT !.at = "gone"]
<1>1. /\ g \in Preview /\ g.at = "gone" /\ g.tree = prev[t].tree
      /\ prev[t] \in Full => g \in Full /\ g.expect = prev[t].expect
  BY GoneIs DEF Shape
<1>2. prev' = [prev EXCEPT ![t] = g] /\ prev \in [Slot -> Preview]
  BY DEF Shape
<1> HIDE DEF g
<1> QED  BY <1>1, <1>2 DEF Goner

\* The previews stand, and the ends of calls at work keep what they expect.
LEMMA PreviewsGo ==
    ASSUME IInv, NEW t \in Slot, Goner(t), Still, main' = main
    PROVE  /\ Previews'
           /\ \A s \in Slot : prev[s].at # "none" => Changes(s)' = Changes(s)
           /\ \A s \in Slot : prev[s] \in Full => (Expects(s) => Expects(s)')
<1>1. \A s \in Slot : prev[s].at # "none" => Changes(s)' = Changes(s)
  BY DEF Goner, Changes, Still
<1>2. \A s \in Slot : prev[s] \in Full => (Expects(s) => Expects(s)')
  <2> SUFFICES ASSUME NEW s \in Slot, prev[s] \in Full, Expects(s) PROVE Expects(s)'
    OBVIOUS
  <2>1. prev'[s].expect = prev[s].expect
    BY DEF Goner, Full
  <2> QED  BY <2>1 DEF Expects, Still, IsRun
<1>3. ASSUME NEW s \in Slot, prev'[s].at # "none"
      PROVE  /\ task'.status = "completed" /\ wt'.head = task'.fp.head
             /\ NoLate(prev'[s].tree)
             /\ IsRun' => \A p \in Changes(s)' : prev'[s].tree[p] = "mine" => p \in seen'
             /\ prev'[s].at = "live" => Expects(s)'
  <2>1. prev[s].at # "none"
    BY <1>3 DEF Goner
  <2>2. prev'[s].tree = prev[s].tree /\ Changes(s)' = Changes(s)
    BY <1>1, <2>1 DEF Goner
  <2>3. prev'[s].at = "live" => prev[s].at = "live" /\ prev[s] \in Full
    BY PreviewIs DEF Goner, IInv, Shape
  <2> QED  BY <1>2, <2>1, <2>2, <2>3 DEF IInv, Safe, Previews, Still, IsRun
<1> QED  BY <1>1, <1>2, <1>3 DEF Previews, NoLate

\* The approval is spent over a project that is the baseline: what a Writer's
\* call expects of a file is then what the baseline says.
LEMMA ConsumeStep ==
    ASSUME IInv, NEW c \in Call, Consume(c)
    PROVE  IInv'
<1> DEFINE t == call[c].slot
           k == [at |-> "session", slot |-> t]
<1>1. /\ call[c].at = "consume" /\ call[c] \in ACall /\ t \in Slot /\ Fits(call[c])
      /\ Shape
      /\ IsRoom => RoomFits(call[c])
  BY CallIs DEF Consume, At, IInv, Shape, Safe, Applying, Acting
<1>2. CASE Refuse(c)
  <2>1. /\ call' = [call EXCEPT ![c] = [at |-> "refused"]] /\ task' = Reopened
        /\ UNCHANGED <<main, wt, snap, prev, seen>>
        /\ trash' \in SUBSET Slot /\ edits' \in Nat /\ faults' \in Nat /\ deaths' \in Nat
    BY <1>1, <1>2 DEF Refuse, bounds, Shape
  <2> QED  BY <1>1, <2>1, RefuseIs DEF Acting, Ended
<1>3. CASE /\ SourceStands /\ call' = [call EXCEPT ![c] = k]
           /\ prev' = [prev EXCEPT ![t].at = "gone"]
           /\ UNCHANGED <<main, wt, task, snap, trash, seen, bounds>>
  <2>1. k \in ACall /\ k.at = "session" /\ k.slot = t
    BY <1>1 DEF ACall, Checking
  <2> HIDE DEF k
  <2>2. /\ call' \in [Call -> ACall] /\ call'[c] = k
        /\ \A d \in Call \ {c} : call'[d] = call[d]
    BY <1>1, <1>3, <2>1 DEF Shape
  <2>3. /\ prev[t] \in Full /\ prev[t].at # "none" /\ Expects(t) /\ NoLate(prev[t].expect)
    BY <1>1 DEF Fits, Full, Acting, Verified
  <2>4. Goner(t)
    BY <1>1, <1>3, <2>3, GonerIs
  <2>5. Still /\ main' = main
    BY <1>1, <1>3 DEF Still, bounds, Shape
  <2>6. Shape'
    BY <1>1, <1>3, <2>2, <2>4 DEF Shape, Goner, bounds
  <2>7. /\ Previews'
        /\ \A s \in Slot : prev[s].at # "none" => Changes(s)' = Changes(s)
        /\ \A s \in Slot : prev[s] \in Full => (Expects(s) => Expects(s)')
    BY <1>1, <2>4, <2>5, PreviewsGo
  <2>8. Baseline' /\ Given'
    BY <2>5 DEF IInv, Safe, Baseline, Given, Still, NoLate, IsRun, IsRoom, Baselined
  <2>9. ASSUME NEW d \in Call PROVE Fits(call[d])'
    <3>1. CASE d = c
      <4>1. prev'[t] \in Full /\ prev'[t].expect = prev[t].expect
        BY <1>1, <2>3, <2>4 DEF Goner
      <4>2. call'[d].at = "session" /\ call'[d].slot = t
        BY <2>1, <2>2, <3>1
      <4>3. Expects(call[d].slot)'
        BY <1>1, <2>3, <2>7, <4>2
      <4>4. \A p \in Path : prev'[call'[d].slot].expect[p] # "late"
        BY <2>3, <4>1, <4>2 DEF NoLate
      <4> QED  BY <4>1, <4>2, <4>3, <4>4 DEF Fits, NoLate
    <3>2. CASE d # c
      <4>1. Fits(call[d]) /\ call'[d] = call[d] /\ call[d] \in ACall
        BY <2>2, <3>2 DEF IInv, Safe, Shape
      <4>2. call[d].at \in Acting => /\ call[d].slot \in Slot /\ prev[call[d].slot] \in Full
                                     /\ Expects(call[d].slot) /\ prev[call[d].slot].at # "none"
        BY <4>1, CallIs DEF Fits, Full
      <4>3. call[d].at \in Acting => /\ prev'[call[d].slot] \in Full /\ Expects(call[d].slot)'
                                     /\ prev'[call[d].slot].expect = prev[call[d].slot].expect
                                     /\ Changes(call[d].slot)' = Changes(call[d].slot)
        BY <4>1, <4>2, <2>4, <2>7 DEF Goner
      <4> QED  BY <2>5, <4>1, <4>3 DEF Fits, NoLate, Acting, Verified
    <3> QED  BY <3>1, <3>2
  <2>10. ASSUME IsRoom PROVE /\ task.mark = "applying" /\ wt.tree = prev[t].tree
                             /\ \A d \in Call \ {c} : call[d].at \notin Acting
                             /\ \A p \in Changes(t) : prev[t].expect[p] = task.fp.tree[p]
    <3>1. /\ \A p \in Changes(t) : main.tree[p] \in {prev[t].expect[p], "late"}
          /\ main = task.fp /\ NoLate(main.tree)
      BY <1>1, <1>3, <2>10 DEF RoomFits, SourceStands, IInv, Safe, Baseline
    <3>2. \A p \in Changes(t) : prev[t].expect[p] = task.fp.tree[p]
      BY <3>1 DEF NoLate, Changes
    <3> QED  BY <1>1, <2>10, <3>2 DEF RoomFits, IInv, Safe, Applying, Acting, Verified
  <2>11. ASSUME IsRoom, NEW d \in Call PROVE RoomFits(call[d])'
    <3>1. CASE d = c
      <4>1. prev'[t].tree = prev[t].tree /\ prev'[t].expect = prev[t].expect
            /\ Changes(t)' = Changes(t)
        BY <1>1, <2>1, <2>2, <2>3, <2>4, <2>7 DEF Goner
      <4>2. \A p \in Path : main'.tree[p] = task'.fp.tree[p]
        BY <1>3 DEF SourceStands
      <4> QED  BY <2>1, <2>2, <2>5, <2>10, <2>11, <3>1, <4>1, <4>2 DEF RoomFits, Still
    <3>2. CASE d # c
      BY <2>2, <2>10, <2>11, <3>2 DEF RoomFits, Acting, Verified
    <3> QED  BY <3>1, <3>2
  <2>12. Applying'
    <3>1. IsRoom' => IsRoom
      BY <2>5 DEF IsRoom, Still
    <3>2. IsRoom => \A d \in Call \ {c} : call'[d].at \notin Acting
      BY <2>2, <2>10
    <3>3. IsRoom => (task'.mark # "open" => ~task'.lease /\ task'.status = "completed")
      BY <2>5 DEF IInv, Safe, Applying, Still
    <3> QED  BY <2>11, <3>1, <3>2, <3>3 DEF Applying
  <2>13. AppliedWhole'
    BY <2>5 DEF IInv, AppliedWhole, Delivered, Still
  <2> QED  BY <2>6, <2>7, <2>8, <2>9, <2>12, <2>13 DEF IInv, Safe
<1> QED  BY <1>2, <1>3 DEF Consume

\* What a call at work has by the invariant.
LEMMA AtWork ==
    ASSUME IInv, NEW c \in Call, call[c].at \in Acting
    PROVE  /\ Shape /\ call[c] \in ACall /\ call[c].slot \in Slot
           /\ Fits(call[c]) /\ Expects(call[c].slot)
           /\ prev[call[c].slot] \in Full /\ prev[call[c].slot].tree \in Tree
           /\ prev[call[c].slot].expect \in Tree
           /\ NoLate(prev[call[c].slot].tree) /\ NoLate(task.fp.tree)
           /\ task.status = "completed" /\ wt.head = task.fp.head
           /\ IsRun => \A p \in Changes(call[c].slot) :
                          prev[call[c].slot].tree[p] = "mine" => p \in seen
           /\ IsRoom => RoomFits(call[c])
<1>1. /\ Shape /\ call[c] \in ACall /\ call[c].slot \in Slot /\ Fits(call[c])
      /\ IsRoom => RoomFits(call[c])
  BY CallIs DEF IInv, Shape, Safe, Applying
<1>2. prev[call[c].slot] \in Full /\ Expects(call[c].slot)
  BY <1>1 DEF Fits
<1>3. /\ prev[call[c].slot].at # "none" /\ prev[call[c].slot].tree \in Tree
      /\ prev[call[c].slot].expect \in Tree
  BY <1>2 DEF Full
<1> QED  BY <1>1, <1>2, <1>3 DEF IInv, Safe, Previews, Baseline

\* The checks: what is expected is not late, since the project is the baseline.
LEMMA CheckSteps ==
    ASSUME IInv, NEW c \in Call, Verify(c) \/ Recheck(c)
    PROVE  IInv'
<1> DEFINE t == call[c].slot
<1>1. call[c].at \in {"verify", "recheck"} /\ call[c].at \in Acting
  BY DEF Verify, Recheck, At, Acting
<1>2. /\ Shape /\ call[c] \in Checking /\ t \in Slot /\ Fits(call[c]) /\ Expects(t)
      /\ prev[t] \in Full /\ NoLate(task.fp.tree)
      /\ IsRoom => RoomFits(call[c])
  BY <1>1, AtWork, CallIs
<1>3. CASE Refuse(c)
  BY <1>1, <1>2, <1>3, RefuseIs DEF Refuse, bounds, Shape, Ended
<1>4. ASSUME NEW step \in {"recheck", "consume"}, Goes(c, step),
             NoLate(prev[t].expect), IsRoom => wt.tree = prev[t].tree,
             step = "consume" => \A p \in Changes(t) : main.tree[p] = prev[t].expect[p]
      PROVE  IInv'
  <2> DEFINE k == [call[c] EXCEPT !.at = step]
  <2>1. k \in ACall /\ k.at = step /\ k.slot = t
    BY <1>2, <1>4 DEF Checking, ACall
  <2>2. call' = [call EXCEPT ![c] = k]
    BY <1>2, <1>4 DEF Goes, Shape
  <2>3. Still /\ main' = main /\ prev' = prev
    BY <1>2, <1>4 DEF Goes, given, bounds, Still, Shape
  <2> HIDE DEF k
  <2>4. Fits(k)
    BY <1>2, <1>4, <2>1 DEF Fits
  <2>5. IsRoom => RoomFits(k)
    BY <1>1, <1>2, <1>4, <2>1 DEF RoomFits, Acting
  <2>6. k.at \in Acting
    BY <2>1 DEF Acting
  <2> QED  BY <1>1, <2>1, <2>2, <2>3, <2>4, <2>5, <2>6, CallGoes
<1>5. CASE Verify(c)
  <2>1. ASSUME SourceStands, wt = [head |-> task.fp.head, tree |-> Of(c).tree], Goes(c, "recheck")
        PROVE  IInv'
    <3>1. main = task.fp /\ wt.tree = prev[t].tree
      BY <2>1 DEF SourceStands, Of
    <3>2. NoLate(prev[t].expect)
      BY <1>2, <3>1 DEF Expects, NoLate
    <3> QED  BY <1>4, <2>1, <3>1, <3>2
  <2> QED  BY <1>3, <1>5, <2>1 DEF Verify
<1>6. CASE Recheck(c)
  <2>1. ASSUME \A p \in Changes(t) : main.tree[p] = Of(c).expect[p], Goes(c, "consume")
        PROVE  IInv'
    <3>1. call[c].at = "recheck"
      BY <1>6 DEF Recheck, At
    <3>2. NoLate(prev[t].expect) /\ (IsRoom => wt.tree = prev[t].tree)
      BY <1>2, <3>1 DEF Fits, RoomFits, Verified, Acting
    <3> QED  BY <1>4, <2>1, <3>2 DEF Of
  <2> QED  BY <1>3, <1>6, <2>1 DEF Recheck
<1> QED  BY <1>5, <1>6

\* The files begin, none of them put yet.
LEMMA SessionStep ==
    ASSUME IInv, NEW c \in Call, MakesSession(c)
    PROVE  IInv'
<1> DEFINE t == call[c].slot
<1>1. call[c].at = "session" /\ call[c].at \in Acting
  BY DEF MakesSession, At, Acting
<1>2. /\ Shape /\ t \in Slot /\ Fits(call[c]) /\ Expects(t) /\ prev[t] \in Full
      /\ NoLate(prev[t].expect)
      /\ IsRoom => RoomFits(call[c])
  BY <1>1, AtWork DEF Fits, Verified, Acting
<1>3. Still /\ main' = main /\ prev' = prev
  BY <1>2 DEF MakesSession, given, bounds, Still, Shape
<1>4. ASSUME NEW step \in {"put", "undo"}, NEW b \in BOOLEAN,
             call' = [call EXCEPT ![c] = [at |-> step, slot |-> t, done |-> {}, hold |-> 0, session |-> b]]
      PROVE  IInv'
  <2> DEFINE k == [at |-> step, slot |-> t, done |-> {}, hold |-> 0, session |-> b]
  <2>1. k \in ACall /\ k.at = step /\ k.slot = t /\ k.done = {} /\ k.hold = 0
    BY <1>2, <1>4 DEF ACall, Moving
  <2>2. call' = [call EXCEPT ![c] = k]
    BY <1>4
  <2> HIDE DEF k
  <2>3. Fits(k)
    BY <1>2, <2>1, ApplyBackAssumption DEF Fits
  <2>4. IsRoom => RoomFits(k)
    BY <1>1, <1>2, <2>1 DEF RoomFits, Acting, Verified
  <2>5. k.at \in Acting
    BY <2>1 DEF Acting
  <2> QED  BY <1>1, <1>3, <2>1, <2>2, <2>3, <2>4, <2>5, CallGoes
<1> QED  BY <1>4 DEF MakesSession

\* A call that puts its files back; a Writer's other needs end.
LEMMA UndoStep ==
    ASSUME IInv, NEW c \in Call, call[c].at = "put", Undoes(c), edits' \in Nat,
           faults' \in Nat, deaths' \in Nat
    PROVE  IInv'
<1> DEFINE t == call[c].slot
           k == [call[c] EXCEPT !.at = "undo", !.hold = 0]
<1>1. call[c].at \in Acting /\ call[c].at \in {"put", "undo"}
  BY DEF Acting
<1>2. /\ Shape /\ t \in Slot /\ Fits(call[c]) /\ Expects(t) /\ prev[t] \in Full
      /\ NoLate(prev[t].expect) /\ call[c] \in Moving
      /\ IsRoom => RoomFits(call[c])
  BY <1>1, AtWork, CallIs DEF Fits, Verified, Acting
<1>3. Still /\ main' = main /\ prev' = prev
  BY <1>2 DEF Undoes, given, Still, Shape
<1>4. k \in ACall /\ k.at = "undo" /\ k.slot = t /\ k.hold = 0
  BY <1>2 DEF ACall, Moving
<1>5. call' = [call EXCEPT ![c] = k]
  BY <1>2 DEF Undoes, Shape
<1> HIDE DEF k
<1>6. Fits(k)
  BY <1>2, <1>4, ApplyBackAssumption DEF Fits
<1>7. IsRoom => RoomFits(k)
  BY <1>1, <1>2, <1>4 DEF RoomFits, Acting, Verified
<1>8. k.at \in Acting
  BY <1>4 DEF Acting
<1> QED  BY <1>1, <1>3, <1>4, <1>5, <1>6, <1>7, <1>8, CallGoes

\* A file is held only as it was expected, and so not as the owner wrote it since.
LEMMA LookSteps ==
    ASSUME IInv, NEW c \in Call, Looks(c) \/ Breaks(c)
    PROVE  IInv'
<1> DEFINE t == call[c].slot
<1>1. call[c].at = "put" /\ call[c].at \in Acting
  BY DEF Looks, Breaks, Holds, At, Acting
<1>2. /\ Shape /\ t \in Slot /\ Fits(call[c]) /\ Expects(t) /\ prev[t] \in Full
      /\ NoLate(prev[t].expect) /\ call[c] \in Moving
      /\ IsRoom => RoomFits(call[c])
  BY <1>1, AtWork, CallIs DEF Fits, Verified, Acting
<1>3. CASE Undoes(c) /\ edits' \in Nat /\ faults' \in Nat /\ deaths' \in Nat
  BY <1>1, <1>3, UndoStep
<1>4. ASSUME NEW p \in Path, NextPut(c, p), main.tree[p] = Of(c).expect[p], Hold(c, p)
      PROVE  IInv'
  <2> DEFINE k == [call[c] EXCEPT !.hold = p]
  <2>1. k \in ACall /\ k.at = "put" /\ k.slot = t /\ k.hold = p /\ k.done = call[c].done
    BY <1>1, <1>2 DEF ACall, Moving
  <2>2. call' = [call EXCEPT ![c] = k]
    BY <1>2, <1>4 DEF Hold, Shape
  <2>3. Still /\ main' = main /\ prev' = prev
    BY <1>2, <1>4 DEF Hold, given, bounds, Still, Shape
  <2> HIDE DEF k
  <2>4. p \in Changes(t)
    BY <1>4 DEF NextPut, First, ToPut, Writes, Deletes
  <2>5. main.tree[p] # "late"
    BY <1>2, <1>4 DEF NoLate, Of
  <2>6. Fits(k)
    BY <1>2, <2>1, <2>4, <2>5 DEF Fits
  <2>7. IsRoom => RoomFits(k)
    BY <1>1, <1>2, <2>1 DEF RoomFits
  <2>8. k.at \in Acting
    BY <2>1 DEF Acting
  <2> QED  BY <1>1, <2>1, <2>2, <2>3, <2>6, <2>7, <2>8, CallGoes
<1>5. CASE Looks(c)
  <2>1. PICK p \in Path : NextPut(c, p) /\ IF main.tree[p] = Of(c).expect[p] THEN Hold(c, p)
                                           ELSE Undoes(c) /\ UNCHANGED bounds
    BY <1>5 DEF Looks
  <2> QED  BY <1>2, <1>3, <1>4, <2>1 DEF bounds, Shape
<1>6. CASE Breaks(c)
  BY <1>2, <1>3, <1>6 DEF Breaks, Shape
<1> QED  BY <1>5, <1>6

\* A file is put where it was held: not over a later edit, and, in a run, not in
\* place of an edit the work was not built on.
PutOver(p) ==
    /\ main.tree[p] # "late" /\ main'.tree[p] # "late"
    /\ \A q \in Path : q # p => main'.tree[q] = main.tree[q]
    /\ IsRun /\ main.tree[p] = "mine" => p \in seen

\* A file is put over one that is none of the owner's later edits.
LEMMA PutStep ==
    ASSUME IInv, NEW c \in Call, Puts(c)
    PROVE  IInv' /\ (main' = main \/ \E p \in Path : PutOver(p))
<1> DEFINE t == call[c].slot
<1>0. PICK p \in Path :
         LET s == call[c].slot
             denied == \/ p \in Writes(s) /\ Of(c).expect[p] = "none" /\ main.tree[p] # "none"
                       \/ p \in Deletes(s) /\ main.tree[p] = "none"
         IN /\ Holds(c, "put", p)
            /\ IF denied THEN Undoes(c) /\ UNCHANGED bounds
               ELSE /\ main' = [main EXCEPT !.tree[p] = Of(c).tree[p]]
                    /\ call' = [call EXCEPT ![c].hold = 0, ![c].done = @ \cup {p}]
                    /\ UNCHANGED <<given, trash, bounds>>
  BY DEF Puts
<1>1. call[c].at = "put" /\ call[c].hold = p /\ call[c].at \in Acting
  BY <1>0 DEF Holds, At, Acting
<1>2. /\ Shape /\ t \in Slot /\ Fits(call[c]) /\ Expects(t) /\ prev[t] \in Full
      /\ prev[t].tree \in Tree /\ NoLate(prev[t].tree) /\ call[c] \in Moving
      /\ task.status = "completed" /\ wt.head = task.fp.head
      /\ IsRun => \A q \in Changes(t) : prev[t].tree[q] = "mine" => q \in seen
      /\ IsRoom => RoomFits(call[c])
  BY <1>1, AtWork, CallIs
<1>3. p \in Changes(t) /\ main.tree[p] # "late"
  BY <1>1, <1>2 DEF Fits
<1>4. CASE Undoes(c) /\ UNCHANGED bounds
  BY <1>1, <1>2, <1>4, UndoStep DEF bounds, Shape, Undoes
<1>5. CASE /\ main' = [main EXCEPT !.tree[p] = Of(c).tree[p]]
           /\ call' = [call EXCEPT ![c].hold = 0, ![c].done = @ \cup {p}]
           /\ UNCHANGED <<given, trash, bounds>>
  <2> DEFINE k == [call[c] EXCEPT !.hold = 0, !.done = @ \cup {p}]
             v == prev[t].tree[p]
  <2>1. /\ k \in ACall /\ k.at = "put" /\ k.slot = t /\ k.hold = 0
        /\ k.done = call[c].done \cup {p}
    BY <1>1, <1>2, MovingIs DEF ACall, Moving
  <2>2. call' = [call EXCEPT ![c] = k]
    BY <1>2, <1>5 DEF Shape
  <2>3. Still /\ prev' = prev
    BY <1>2, <1>5 DEF given, bounds, Still, Shape
  <2>4. v \in Content /\ v # "late" /\ main' = [main EXCEPT !.tree[p] = v]
    BY <1>2, <1>5 DEF NoLate, Tree, Of
  <2> HIDE DEF k
  <2>5. main'.tree[p] = v /\ \A q \in Path : q # p => main'.tree[q] = main.tree[q]
    BY <1>2, <2>4, TreeIs DEF Shape
  <2>6. IsRun /\ v = "mine" => p \in seen
    BY <1>2, <1>3
  <2>7. IsRoom => Placing(k)
    BY <1>1, <1>2, <1>3, <2>1, <2>5 DEF RoomFits, Placing
  <2> HIDE DEF v
  <2>8. IInv'
    BY <1>1, <1>3, <2>1, <2>2, <2>3, <2>4, <2>6, <2>7, FileMoves
  <2>9. IsRun /\ main.tree[p] = "mine" => p \in seen
    BY <1>2 DEF IInv, Safe, Given
  <2> QED  BY <1>3, <2>4, <2>5, <2>8, <2>9 DEF PutOver
<1> QED  BY <1>0, <1>4, <1>5

\* And put back.
LEMMA PutBackStep ==
    ASSUME IInv, NEW c \in Call, PutsBack(c)
    PROVE  IInv' /\ (main' = main \/ \E p \in Path : PutOver(p))
<1> DEFINE t == call[c].slot
<1>0. PICK p \in Path :
         /\ Holds(c, "undo", p)
         /\ \/ Ends(c, "partial") /\ UNCHANGED bounds
            \/ /\ main' = [main EXCEPT !.tree[p] = Of(c).expect[p]]
               /\ call' = [call EXCEPT ![c].hold = 0, ![c].done = @ \ {p}]
               /\ UNCHANGED <<given, bounds>>
         /\ UNCHANGED trash
  BY DEF PutsBack
<1>1. call[c].at = "undo" /\ call[c].hold = p /\ call[c].at \in Acting
  BY <1>0 DEF Holds, At, Acting
<1>2. /\ Shape /\ t \in Slot /\ Fits(call[c]) /\ Expects(t) /\ prev[t] \in Full
      /\ prev[t].expect \in Tree /\ call[c] \in Moving
      /\ task.status = "completed" /\ wt.head = task.fp.head
  BY <1>1, AtWork, CallIs
<1>3. NoLate(prev[t].expect) /\ main.tree[p] # "late"
  BY <1>1, <1>2 DEF Fits, Verified, Acting
<1>4. CASE Ends(c, "partial") /\ UNCHANGED bounds
  BY <1>0, <1>1, <1>2, <1>4, RefuseIs DEF bounds, Shape, Ends, Ended
<1>5. CASE /\ main' = [main EXCEPT !.tree[p] = Of(c).expect[p]]
           /\ call' = [call EXCEPT ![c].hold = 0, ![c].done = @ \ {p}]
           /\ UNCHANGED <<given, bounds>>
  <2> DEFINE k == [call[c] EXCEPT !.hold = 0, !.done = @ \ {p}]
             v == prev[t].expect[p]
  <2>1. k \in ACall /\ k.at = "undo" /\ k.slot = t /\ k.hold = 0
    BY <1>1, <1>2, MovingIs DEF ACall, Moving
  <2>2. call' = [call EXCEPT ![c] = k]
    BY <1>2, <1>5 DEF Shape
  <2>3. Still /\ prev' = prev
    BY <1>0, <1>2, <1>5 DEF given, bounds, Still, Shape
  <2>4. v \in Content /\ v # "late" /\ main' = [main EXCEPT !.tree[p] = v]
    BY <1>2, <1>3, <1>5 DEF NoLate, Tree, Of
  <2> HIDE DEF k
  <2>5. main'.tree[p] = v /\ \A q \in Path : q # p => main'.tree[q] = main.tree[q]
    BY <1>2, <2>4, TreeIs DEF Shape
  <2>6. IsRun /\ v = "mine" => p \in seen
    BY <1>2 DEF Expects
  <2> HIDE DEF v
  <2>7. IInv'
    BY <1>1, <1>3, <2>1, <2>2, <2>3, <2>4, <2>6, FileMoves
  <2>8. IsRun /\ main.tree[p] = "mine" => p \in seen
    BY <1>2 DEF IInv, Safe, Given
  <2> QED  BY <1>3, <2>4, <2>5, <2>7, <2>8 DEF PutOver
<1> QED  BY <1>0, <1>4, <1>5

\* The roll-back holds only what it finds as its call left it.
LEMMA BackSteps ==
    ASSUME IInv, NEW c \in Call, LooksBack(c) \/ Restored(c) \/ BreaksBack(c)
    PROVE  IInv'
<1> DEFINE t == call[c].slot
<1>1. call[c].at = "undo" /\ call[c].at \in Acting
  BY DEF LooksBack, Restored, BreaksBack, Holds, At, Acting
<1>2. /\ Shape /\ t \in Slot /\ Fits(call[c]) /\ Expects(t) /\ prev[t] \in Full
      /\ NoLate(prev[t].tree) /\ NoLate(prev[t].expect) /\ call[c] \in Moving
      /\ IsRoom => RoomFits(call[c])
  BY <1>1, AtWork, CallIs DEF Fits, Verified, Acting
<1>3. ASSUME NEW how \in {"partial", "failed"}, Ends(c, how), trash' \in SUBSET Slot,
             edits' \in Nat, faults' \in Nat, deaths' \in Nat
      PROVE  IInv'
  <2>1. how \in Ended
    BY DEF Ended
  <2> QED  BY <1>1, <1>3, <2>1, RefuseIs DEF Ends
<1>4. ASSUME NEW k \in Moving, k.at = "undo", k.slot = t, call' = [call EXCEPT ![c] = k],
             k.hold \in Path => main.tree[k.hold] # "late",
             main' = main, UNCHANGED <<given, bounds>>, trash' \in SUBSET Slot
      PROVE  IInv'
  <2>1. Still /\ prev' = prev
    BY <1>2, <1>4 DEF given, bounds, Still, Shape
  <2>2. k \in ACall /\ k.at \in Acting
    BY <1>4 DEF ACall, Acting
  <2>3. Fits(k)
    BY <1>2, <1>4 DEF Fits
  <2>4. IsRoom => RoomFits(k)
    BY <1>1, <1>2, <1>4 DEF RoomFits, Acting, Verified
  <2> QED  BY <1>1, <1>4, <2>1, <2>2, <2>3, <2>4, CallGoes
<1>5. CASE LooksBack(c)
  <2>1. PICK p \in Path :
          \/ main.tree[p] = Of(c).tree[p] /\ Hold(c, p)
          \/ Ends(c, "partial") /\ UNCHANGED <<trash, bounds>>
          \/ /\ call[c].hold = 0
             /\ call' = [call EXCEPT ![c].session = TRUE]
             /\ trash' = trash \cup {t}
             /\ UNCHANGED <<main, given, bounds>>
    BY <1>5 DEF LooksBack, Holds
  <2>2. CASE main.tree[p] = Of(c).tree[p] /\ Hold(c, p)
    <3> DEFINE k == [call[c] EXCEPT !.hold = p]
    <3>1. k \in Moving /\ k.at = "undo" /\ k.slot = t /\ k.hold = p
      BY <1>1, <1>2 DEF Moving
    <3>2. call' = [call EXCEPT ![c] = k]
      BY <1>2, <2>2 DEF Hold, Shape
    <3>3. /\ main' = main /\ UNCHANGED <<given, bounds>> /\ trash' \in SUBSET Slot
          /\ main.tree[p] # "late"
      BY <1>2, <2>2 DEF Hold, Shape, Of, NoLate
    <3> HIDE DEF k
    <3> QED  BY <1>4, <3>1, <3>2, <3>3
  <2>3. CASE Ends(c, "partial") /\ UNCHANGED <<trash, bounds>>
    BY <1>2, <1>3, <2>3 DEF Shape, bounds
  <2>4. CASE /\ call[c].hold = 0
             /\ call' = [call EXCEPT ![c].session = TRUE]
             /\ trash' = trash \cup {t}
             /\ UNCHANGED <<main, given, bounds>>
    <3> DEFINE k == [call[c] EXCEPT !.session = TRUE]
    <3>1. k \in Moving /\ k.at = "undo" /\ k.slot = t /\ k.hold = 0
      BY <1>1, <1>2, <2>4 DEF Moving
    <3>2. call' = [call EXCEPT ![c] = k]
      BY <1>2, <2>4 DEF Shape
    <3>3. trash' \in SUBSET Slot /\ 0 \notin Path
      BY <1>2, <2>4, ApplyBackAssumption DEF Shape
    <3> HIDE DEF k
    <3> QED  BY <1>4, <2>4, <3>1, <3>2, <3>3
  <2> QED  BY <2>1, <2>2, <2>3, <2>4
<1>6. CASE Restored(c)
  BY <1>2, <1>3, <1>6 DEF Restored, Shape, bounds
<1>7. CASE BreaksBack(c)
  BY <1>2, <1>3, <1>7 DEF BreaksBack, Shape
<1> QED  BY <1>5, <1>6, <1>7

\* The last file of a Writer's work is in the project, with those before it.
LEMMA FinishStep ==
    ASSUME IInv, NEW c \in Call, Finishes(c)
    PROVE  IInv'
<1> DEFINE t == call[c].slot
           k == [at |-> "done"]
<1>1. call[c].at = "put" /\ call[c].at \in Acting /\ ToPut(c) = {}
  BY DEF Finishes, Holds, At, Acting
<1>2. /\ Shape /\ t \in Slot /\ Fits(call[c]) /\ prev[t] \in Full
      /\ wt.head = task.fp.head
      /\ IsRoom => RoomFits(call[c])
  BY <1>1, AtWork
<1>3. k \in ACall /\ k.at \in Ended /\ call' = [call EXCEPT ![c] = k]
  BY DEF ACall, Resting, Ended, Finishes
<1>4. /\ task' \in Task /\ task'.kind = task.kind /\ task'.status = task.status
      /\ task'.fp = task.fp /\ task'.lease = task.lease
      /\ IsRun => task'.mark = task.mark
      /\ IsRoom => task'.mark = "applied"
  BY DEF Finishes, IInv, Shape, Task, IsRun, IsRoom
<1>5. /\ UNCHANGED <<main, wt, snap, prev, seen>> /\ trash' \in SUBSET Slot
      /\ edits' \in Nat /\ faults' \in Nat /\ deaths' \in Nat
  BY DEF Finishes, bounds, IInv, Shape
<1>6. ASSUME IsRoom, NEW p \in Path PROVE main.tree[p] \in {"late", Delivered(p)}
  <2>1. /\ wt.tree = prev[t].tree /\ call[c].done \subseteq Changes(t)
        /\ \A q \in Changes(t) : prev[t].expect[q] = task.fp.tree[q]
        /\ main.tree[p] \in {"late", IF p \in call[c].done THEN prev[t].tree[p] ELSE task.fp.tree[p]}
    <3>1. RoomFits(call[c])
      BY <1>6, AtWork, <1>1
    <3> QED  BY <1>1, <3>1 DEF RoomFits, Acting, Verified
  <2>2. CASE p \in call[c].done
    BY <2>1, <2>2 DEF Changes, Delivered
  <2>3. CASE p \notin call[c].done
    <3>1. p \notin Writes(t) /\ p \notin Deletes(t)
      BY <1>1, <2>3 DEF ToPut
    <3>2. p \in Changes(t) => prev[t].tree[p] = prev[t].expect[p]
      BY <3>1 DEF Writes, Deletes
    <3> QED  BY <2>1, <2>3, <3>2 DEF Changes, Delivered
  <2> QED  BY <2>2, <2>3
<1> HIDE DEF k
<1> QED  BY <1>1, <1>3, <1>4, <1>5, <1>6, CallEnds

-----------------------------------------------------------------------------
(* The owner.                                                              *)

\* The owner edits or commits: an edit is late once there is a baseline.
LEMMA OwnerStep ==
    ASSUME IInv, Owner
    PROVE  /\ IInv'
           /\ \A p \in Path : main.tree[p] = "late" => main'.tree[p] = "late"
           /\ \A p \in Path : main'.tree[p] \in {main.tree[p], "mine", "late"}
<1>1. Shape
  BY DEF IInv
<1>2. UNCHANGED <<given, call, trash, faults, deaths>> /\ edits' \in Nat
  BY <1>1 DEF Owner, OwnerEdits, OwnerCommits, Shape
<1>3. UNCHANGED <<wt, task, snap, prev, seen, call, trash, faults, deaths>>
  BY <1>2 DEF given
<1>4. ASSUME main' \in Project, ~Baselined => NoLate(main'.head),
             NEW P \in SUBSET Path, \A q \in Path \ P : main'.tree[q] = main.tree[q],
             \A q \in P : /\ main'.tree[q] = IF Baselined THEN "late" ELSE "mine"
                          /\ ~Held(q)
      PROVE  /\ IInv'
             /\ \A p \in Path : main.tree[p] = "late" => main'.tree[p] = "late"
             /\ \A p \in Path : main'.tree[p] \in {main.tree[p], "mine", "late"}
  <2>1. Shape'
    BY <1>1, <1>2, <1>3, <1>4 DEF Shape
  <2>2. \A q \in Path : IF Baselined THEN main'.tree[q] \in {main.tree[q], "late"}
                                     ELSE main'.tree[q] \in {main.tree[q], "mine"}
    BY <1>4
  <2>3. ~Baselined => NoLate(main.tree) /\ NoLate(main'.tree)
    BY <2>2 DEF IInv, Safe, Baseline, NoLate
  <2>4. Baseline'
    BY <1>3, <1>4, <2>3 DEF IInv, Safe, Baseline, Baselined, NoLate, IsRun, IsRoom
  <2>5. \A p \in Path : main.tree[p] = "late" => main'.tree[p] = "late"
    BY <2>2, <2>3 DEF NoLate
  <2>6. Given'
    <3>1. IsRun /\ task.status \in {"inspected", "added", "created", "completed"} => Baselined
      BY DEF IsRun, Baselined
    <3> QED  BY <1>3, <2>2, <3>1 DEF IInv, Safe, Given, IsRun
  <2>7. ASSUME NEW s \in Slot, Expects(s) PROVE Expects(s)'
    BY <1>3, <2>5, <2>7 DEF Expects, IsRun
  <2>8. Previews'
    BY <1>3, <2>7 DEF IInv, Safe, Previews, NoLate, IsRun, Changes
  <2>9. ASSUME NEW d \in Call PROVE Fits(call[d])'
    <3>1. Fits(call[d]) /\ call'[d] = call[d] /\ call[d] \in ACall
      BY <1>1, <1>3 DEF IInv, Safe, Shape
    <3>2. call[d].at \in Acting => /\ call[d].slot \in Slot /\ prev[call[d].slot] \in Full
                                   /\ Expects(call[d].slot)
      BY <3>1, CallIs DEF Fits
    <3>3. call[d].at \in Acting => Expects(call[d].slot)'
      BY <2>7, <3>1, <3>2
    <3>4. call[d].at \in {"put", "undo"} /\ call[d].hold \in Path => main'.tree[call[d].hold] # "late"
      <4>1. call[d].at \in {"put", "undo"} => call[d].hold \notin P
        BY <1>4 DEF Held
      <4> QED  BY <1>4, <3>1, <4>1 DEF Fits
    <3> QED  BY <1>3, <3>1, <3>2, <3>3, <3>4 DEF Fits, NoLate, Changes
  <2>10. ASSUME IsRoom, NEW d \in Call PROVE RoomFits(call[d])'
    <3>1. RoomFits(call[d])
      BY <2>10 DEF IInv, Safe, Applying
    <3>2. call[d].at \in Acting => Baselined
      BY <1>1, AtWork DEF Baselined
    <3>3. call[d].at \in Acting => \A q \in Path : main'.tree[q] \in {main.tree[q], "late"}
      BY <2>2, <3>2
    <3> QED  BY <1>3, <3>1, <3>3 DEF RoomFits, Changes, Acting, Verified
  <2>11. Applying'
    BY <1>3, <2>10 DEF IInv, Safe, Applying, IsRoom
  <2>12. AppliedWhole'
    <3>1. task.mark = "applied" => IsRoom
      BY ApplyBackAssumption DEF IInv, Safe, Baseline, Shape, Task, IsRun, IsRoom
    <3>2. task.mark = "applied" => Baselined
      BY <3>1 DEF IInv, Safe, Applying, Baselined
    <3> QED  BY <1>3, <2>2, <3>2 DEF IInv, AppliedWhole, Delivered
  <2> QED  BY <2>1, <2>2, <2>4, <2>5, <2>6, <2>8, <2>9, <2>11, <2>12 DEF IInv, Safe
<1>5. ASSUME NEW p \in Path, OwnerEdits(p)
      PROVE  /\ IInv'
             /\ \A q \in Path : main.tree[q] = "late" => main'.tree[q] = "late"
             /\ \A q \in Path : main'.tree[q] \in {main.tree[q], "mine", "late"}
  <2> DEFINE v == IF Baselined THEN "late" ELSE "mine"
  <2>1. v \in Content /\ main' = [main EXCEPT !.tree[p] = v] /\ ~Held(p)
    BY <1>5 DEF OwnerEdits, Content
  <2>2. /\ main' \in Project /\ main'.head = main.head /\ main'.tree[p] = v
        /\ \A q \in Path : q # p => main'.tree[q] = main.tree[q]
    <3> HIDE DEF v
    <3> QED  BY <1>1, <2>1, TreeIs DEF Shape
  <2>3. ~Baselined => NoLate(main'.head)
    BY <2>2 DEF IInv, Safe, Baseline, NoLate
  <2>4. /\ {p} \in SUBSET Path /\ \A q \in Path \ {p} : main'.tree[q] = main.tree[q]
        /\ \A q \in {p} : main'.tree[q] = (IF Baselined THEN "late" ELSE "mine") /\ ~Held(q)
    BY <2>1, <2>2
  <2> QED  BY <1>4, <2>2, <2>3, <2>4
<1>6. ASSUME OwnerCommits
      PROVE  /\ IInv'
             /\ \A q \in Path : main.tree[q] = "late" => main'.tree[q] = "late"
             /\ \A q \in Path : main'.tree[q] \in {main.tree[q], "mine", "late"}
  <2>1. main' \in Project /\ main'.head = main.tree /\ main'.tree = main.tree
    BY <1>1, <1>6 DEF OwnerCommits, Shape, Project
  <2>2. ~Baselined => NoLate(main'.head)
    BY <2>1 DEF IInv, Safe, Baseline, NoLate
  <2>3. {} \in SUBSET Path
    OBVIOUS
  <2> QED  BY <1>4, <2>1, <2>2, <2>3
<1> QED  BY <1>5, <1>6 DEF Owner

-----------------------------------------------------------------------------
(* The work, its preview and the restarts.                                 *)

\* Nobody applies what is not finished, leased, or open.
LEMMA NoneAtWork ==
    ASSUME IInv,
           \/ task.status # "completed" \/ (IsRoom /\ task.lease)
           \/ (IsRoom /\ task.mark # "applying")
    PROVE  \A c \in Call : call[c].at \notin Acting
<1> SUFFICES ASSUME NEW c \in Call, call[c].at \in Acting PROVE FALSE
  OBVIOUS
<1>1. task.status = "completed" /\ (IsRoom => task.mark = "applying")
  BY AtWork DEF RoomFits
<1> QED  BY <1>1 DEF IInv, Safe, Applying

\* The task moves on while nobody applies it.
LEMMA WorkMoves ==
    ASSUME IInv, Shape', Baseline', Given', \A c \in Call : call[c].at \notin Acting,
           UNCHANGED <<prev, call>>, task'.kind = task.kind, task'.mark = task.mark,
           task'.mark # "open" =>
              /\ UNCHANGED <<main, wt>> /\ task'.fp = task.fp
              /\ ~task'.lease /\ task'.status = task.status,
           \/ \A s \in Slot : prev[s].at = "none"
           \/ /\ main' = main /\ seen' = seen /\ wt'.head = wt.head
              /\ task'.fp = task.fp /\ task'.status = task.status
    PROVE  IInv'
<1>1. Previews'
  BY DEF IInv, Safe, Previews, NoLate, IsRun, Changes, Expects
<1>2. \A c \in Call : Fits(call[c])'
  BY DEF Fits, Acting, Verified
<1>3. Applying'
  BY DEF IInv, Safe, Applying, IsRoom, RoomFits, Acting, Verified
<1>4. AppliedWhole'
  BY DEF IInv, AppliedWhole, Delivered
<1> QED  BY <1>1, <1>2, <1>3, <1>4 DEF IInv, Safe

\* The way in, the agent's edits and their end: the project stands still.
LEMMA WorkStep ==
    ASSUME IInv, Work
    PROVE  IInv' /\ main' = main
<1>1. Shape /\ Baseline /\ Given
  BY DEF IInv, Safe
<1>2. /\ task.kind \in {"run", "room"} /\ task.status \in Status /\ task.fp \in Project
      /\ task \in Task /\ main \in Project /\ wt \in Project
  BY <1>1, ApplyBackAssumption DEF Shape, Task
<1>3. /\ main' = main /\ UNCHANGED <<prev, call, trash, bounds>>
      /\ UNCHANGED <<edits, faults, deaths>>
  BY DEF Work, Capture, Inspects, AddsWorktree, ImportsSnapshot, GrantTree, BeginRetained,
         Regrants, Completes, AgentEdits, bounds
<1>4. task.status # "completed" => \A s \in Slot : prev[s].at = "none"
  BY DEF IInv, Safe, Previews
<1>5. IsRoom => (task.mark # "open" => ~task.lease /\ task.status = "completed")
  BY DEF IInv, Safe, Applying
<1>6. CASE Capture
  <2>1. snap' = main /\ UNCHANGED <<wt, task, seen>> /\ IsRun /\ task.status = "none"
    BY <1>6 DEF Capture, IsRun
  <2>2. Shape'
    BY <1>1, <1>3, <2>1 DEF Shape
  <2>3. Baseline'
    BY <1>1, <1>3, <2>1 DEF Baseline, Baselined, NoLate, IsRun, IsRoom
  <2>4. Given'
    BY <1>1, <1>3, <2>1 DEF Given, IsRun
  <2>5. \A c \in Call : call[c].at \notin Acting
    BY <2>1, NoneAtWork
  <2>6. task.mark = "open"
    BY <1>1, <2>1 DEF Baseline
  <2> QED  BY <1>3, <1>4, <2>1, <2>2, <2>3, <2>4, <2>5, <2>6, WorkMoves
<1>7. CASE Inspects
  <2>1. /\ task' = [task EXCEPT !.status = "inspected", !.fp = main]
        /\ UNCHANGED <<wt, snap, seen>> /\ IsRun /\ task.status = "none"
        /\ Clean(main) <=> snap = NoSnap
    BY <1>7 DEF Inspects, IsRun
  <2>2. /\ task' \in Task /\ task'.status = "inspected" /\ task'.fp = main
        /\ task'.kind = task.kind /\ task'.mark = task.mark /\ task'.lease = task.lease
    BY <1>2, <2>1 DEF Task, Status
  <2>3. Shape'
    BY <1>1, <1>3, <2>1, <2>2 DEF Shape
  <2>4. Baseline'
    BY <1>1, <1>3, <2>1, <2>2 DEF Baseline, Baselined, NoLate, IsRun, IsRoom
  <2>5. Given'
    BY <1>1, <1>3, <2>1, <2>2 DEF Given, IsRun, Clean
  <2>6. \A c \in Call : call[c].at \notin Acting
    BY <2>1, NoneAtWork
  <2>7. task.mark = "open"
    BY <1>1, <2>1 DEF Baseline
  <2> QED  BY <1>3, <1>4, <2>1, <2>2, <2>3, <2>4, <2>5, <2>6, <2>7, WorkMoves
<1>8. CASE AddsWorktree
  <2> DEFINE st == IF snap = NoSnap THEN "created" ELSE "added"
             w == [head |-> main.head, tree |-> main.head]
  <2>1. /\ task' = [task EXCEPT !.status = st] /\ wt' = w
        /\ seen' = Mine(main.head) /\ snap' = snap /\ IsRun /\ task.status = "inspected"
    BY <1>8 DEF AddsWorktree, IsRun
  <2>2. /\ task' \in Task /\ task'.status = st /\ task'.fp = task.fp
        /\ task'.kind = task.kind /\ task'.mark = task.mark /\ task'.lease = task.lease
    BY <1>2, <2>1 DEF Task, Status
  <2>3. /\ w \in Project /\ w.head = main.head /\ w.tree = main.head
        /\ Mine(main.head) \in SUBSET Path
    BY <1>2 DEF Project, Mine
  <2> HIDE DEF w
  <2>4. Shape'
    BY <1>1, <1>3, <2>1, <2>2, <2>3 DEF Shape
  <2>5. Baseline'
    BY <1>1, <1>3, <2>1, <2>2, <2>3 DEF Baseline, Baselined, NoLate, IsRun, IsRoom
  <2>6. Given'
    <3>1. CASE snap = NoSnap
      BY <1>1, <1>3, <2>1, <2>2, <2>3, <3>1 DEF Given, IsRun, Mine
    <3>2. CASE snap # NoSnap
      BY <1>1, <1>3, <2>1, <2>2, <2>3, <3>2 DEF Given, IsRun
    <3> QED  BY <3>1, <3>2
  <2>7. \A c \in Call : call[c].at \notin Acting
    BY <2>1, NoneAtWork
  <2>8. task.mark = "open"
    BY <1>1, <2>1 DEF Baseline
  <2> QED  BY <1>3, <1>4, <2>1, <2>2, <2>4, <2>5, <2>6, <2>7, <2>8, WorkMoves
<1>9. CASE ImportsSnapshot
  <2>1. snap' = NoSnap /\ IsRun /\ task.status = "added"
    BY <1>9 DEF ImportsSnapshot, IsRun
  <2>2. \A c \in Call : call[c].at \notin Acting
    BY <2>1, NoneAtWork
  <2>3. task.mark = "open" /\ snap \in Project /\ NoLate(snap.tree)
        /\ \A p \in Path : main.tree[p] \in {task.fp.tree[p], "late"}
    BY <1>1, <2>1 DEF Baseline, Given, Shape
  <2>4. CASE /\ main = snap /\ wt.head = snap.head
             /\ wt' = [wt EXCEPT !.tree = snap.tree]
             /\ seen' = Mine(snap.tree)
             /\ task' = [task EXCEPT !.status = "created"]
    <3>1. /\ task' \in Task /\ task'.status = "created" /\ task'.fp = task.fp
          /\ task'.kind = task.kind /\ task'.mark = task.mark /\ task'.lease = task.lease
      BY <1>2, <2>4 DEF Task, Status
    <3>2. /\ wt' \in Project /\ wt'.head = wt.head /\ wt'.tree = snap.tree
          /\ seen' \in SUBSET Path
      BY <1>2, <2>3, <2>4 DEF Project, Mine
    <3>3. Shape'
      BY <1>1, <1>3, <2>1, <3>1, <3>2 DEF Shape
    <3>4. Baseline'
      BY <1>1, <1>3, <2>1, <2>3, <3>1, <3>2 DEF Baseline, Baselined, NoLate, IsRun, IsRoom
    <3>5. Given'
      <4>1. \A p \in Path : main.tree[p] = task.fp.tree[p] /\ main.tree[p] = snap.tree[p]
        BY <2>3, <2>4 DEF NoLate
      <4> QED  BY <1>3, <2>4, <3>1, <3>2, <4>1 DEF Given, IsRun, Mine
    <3> QED  BY <1>3, <1>4, <2>1, <2>2, <2>3, <3>1, <3>3, <3>4, <3>5, WorkMoves
  <2>5. CASE task' = [task EXCEPT !.status = "failed"] /\ UNCHANGED <<wt, seen>>
    <3>1. /\ task' \in Task /\ task'.status = "failed" /\ task'.fp = task.fp
          /\ task'.kind = task.kind /\ task'.mark = task.mark /\ task'.lease = task.lease
      BY <1>2, <2>5 DEF Task, Status
    <3>2. Shape'
      BY <1>1, <1>3, <2>1, <2>5, <3>1 DEF Shape
    <3>3. Baseline'
      BY <1>1, <1>3, <2>1, <2>5, <3>1 DEF Baseline, Baselined, NoLate, IsRun, IsRoom
    <3>4. Given'
      BY <3>1 DEF Given, IsRun
    <3> QED  BY <1>3, <1>4, <2>1, <2>2, <2>3, <2>5, <3>1, <3>2, <3>3, <3>4, WorkMoves
  <2> QED  BY <1>9, <2>4, <2>5 DEF ImportsSnapshot
<1>10. CASE GrantTree
  <2> DEFINE w == [head |-> main.head, tree |-> main.head]
  <2>1. /\ task' = [task EXCEPT !.status = "added"] /\ wt' = w
        /\ seen' = Mine(main.head) /\ snap' = snap /\ IsRoom /\ task.status = "none"
    BY <1>10 DEF GrantTree, IsRoom
  <2>2. /\ task' \in Task /\ task'.status = "added" /\ task'.fp = task.fp
        /\ task'.kind = task.kind /\ task'.mark = task.mark /\ task'.lease = task.lease
    BY <1>2, <2>1 DEF Task, Status
  <2>3. /\ w \in Project /\ w.head = main.head /\ w.tree = main.head
        /\ Mine(main.head) \in SUBSET Path
    BY <1>2 DEF Project, Mine
  <2> HIDE DEF w
  <2>4. Shape'
    BY <1>1, <1>3, <2>1, <2>2, <2>3 DEF Shape
  <2>5. Baseline'
    BY <1>1, <1>3, <2>1, <2>2, <2>3 DEF Baseline, Baselined, NoLate, IsRun, IsRoom
  <2>6. Given'
    BY <2>1, <2>2 DEF Given, IsRun, IsRoom
  <2>7. \A c \in Call : call[c].at \notin Acting
    BY <2>1, NoneAtWork
  <2>8. task.mark = "open"
    BY <1>5, <2>1
  <2> QED  BY <1>3, <1>4, <2>1, <2>2, <2>4, <2>5, <2>6, <2>7, <2>8, WorkMoves
<1>11. CASE BeginRetained
  <2>1. /\ IsRoom /\ task.status = "added" /\ UNCHANGED <<wt, snap, seen>>
        /\ \/ task' = [task EXCEPT !.status = "created", !.fp = main, !.lease = TRUE]
           \/ task' = [task EXCEPT !.status = "refused"]
    BY <1>11 DEF BeginRetained, IsRoom
  <2>2. /\ task' \in Task /\ task'.status \in {"created", "refused"} /\ task'.fp \in {task.fp, main}
        /\ task'.kind = task.kind /\ task'.mark = task.mark
    BY <1>2, <2>1 DEF Task, Status
  <2>3. Shape'
    BY <1>1, <1>3, <2>1, <2>2 DEF Shape
  <2>4. NoLate(main.head) /\ NoLate(main.tree)
    BY <1>1, <2>1 DEF Baseline, Baselined, IsRoom
  <2>5. Baseline'
    BY <1>1, <1>3, <2>1, <2>2, <2>4 DEF Baseline, Baselined, NoLate, IsRun, IsRoom
  <2>6. Given'
    BY <2>1, <2>2 DEF Given, IsRun, IsRoom
  <2>7. \A c \in Call : call[c].at \notin Acting
    BY <2>1, NoneAtWork
  <2>8. task.mark = "open"
    BY <1>5, <2>1
  <2> QED  BY <1>3, <1>4, <2>1, <2>2, <2>3, <2>5, <2>6, <2>7, <2>8, WorkMoves
<1>12. CASE Regrants
  <2>1. /\ task' = [task EXCEPT !.lease = TRUE] /\ UNCHANGED <<wt, snap, seen>>
        /\ IsRoom /\ task.mark = "open"
    BY <1>12 DEF Regrants, IsRoom
  <2>2. /\ task' \in Task /\ task'.status = task.status /\ task'.fp = task.fp
        /\ task'.kind = task.kind /\ task'.mark = task.mark
    BY <1>2, <2>1 DEF Task
  <2>3. Shape'
    BY <1>1, <1>3, <2>1, <2>2 DEF Shape
  <2>4. Baseline' /\ Given'
    BY <1>1, <1>3, <2>1, <2>2 DEF Baseline, Given, Baselined, NoLate, IsRun, IsRoom
  <2>5. \A c \in Call : call[c].at \notin Acting
    BY <2>1, NoneAtWork
  <2> QED  BY <1>3, <2>1, <2>2, <2>3, <2>4, <2>5, WorkMoves
<1>13. CASE Completes
  <2> DEFINE st == IF task.status = "failed" THEN "failed" ELSE "completed"
  <2>1. /\ task' = [task EXCEPT !.status = st, !.lease = FALSE] /\ UNCHANGED <<wt, snap, seen>>
        /\ IsRun => task.status = "created"
        /\ IsRoom => task.lease
    BY <1>13 DEF Completes, IsRun, IsRoom
  <2>2. st \in Status
    BY DEF Status
  <2>3. st = task.status \/ (st = "completed" /\ task.status # "completed")
    OBVIOUS
  <2>4. st \in {"failed", "completed"}
    OBVIOUS
  <2> HIDE DEF st
  <2>5. /\ task' \in Task /\ task'.status = st /\ task'.fp = task.fp
        /\ task'.kind = task.kind /\ task'.mark = task.mark
    BY <1>2, <2>1, <2>2 DEF Task
  <2>6. Shape'
    BY <1>1, <1>3, <2>1, <2>5 DEF Shape
  <2>7. task.mark = "open"
    BY <1>1, <1>2, <1>5, <2>1 DEF Baseline, IsRun, IsRoom
  <2>9. Baseline'
    BY <1>1, <1>3, <2>1, <2>4, <2>5 DEF Baseline, Baselined, NoLate, IsRun, IsRoom
  <2>10. Given'
    BY <1>1, <1>3, <2>1, <2>4, <2>5 DEF Given, IsRun
  <2>11. \A c \in Call : call[c].at \notin Acting
    BY <1>2, <2>1, NoneAtWork DEF IsRun, IsRoom
  <2> QED  BY <1>3, <1>4, <2>1, <2>3, <2>5, <2>6, <2>7, <2>9, <2>10, <2>11, WorkMoves
<1>14. ASSUME NEW p \in Path, NEW content \in {"none", "new"}, AgentEdits(p, content)
       PROVE  IInv'
  <2>1. /\ wt' = [wt EXCEPT !.tree[p] = content] /\ UNCHANGED <<task, snap, seen>>
        /\ IsRun => task.status = "created"
        /\ IsRoom => task.lease
    BY <1>14 DEF AgentEdits, IsRun, IsRoom
  <2>2. content \in Content /\ content \notin {"late", "mine"}
    BY DEF Content
  <2>3. /\ wt' \in Project /\ wt'.head = wt.head /\ wt'.tree[p] = content
        /\ \A q \in Path : q # p => wt'.tree[q] = wt.tree[q]
    BY <1>2, <2>1, <2>2, TreeIs
  <2>4. Shape'
    BY <1>1, <1>3, <2>1, <2>3 DEF Shape
  <2>5. task.mark = "open"
    BY <1>1, <1>2, <1>5, <2>1 DEF Baseline, IsRun, IsRoom
  <2>6. Baseline'
    BY <1>1, <1>3, <2>1, <2>2, <2>3 DEF Baseline, Baselined, NoLate, IsRun, IsRoom
  <2>7. Given'
    BY <1>1, <1>3, <2>1, <2>2, <2>3 DEF Given, IsRun
  <2>8. \A c \in Call : call[c].at \notin Acting
    BY <1>2, <2>1, NoneAtWork DEF IsRun, IsRoom
  <2> QED  BY <1>3, <2>1, <2>3, <2>4, <2>5, <2>6, <2>7, <2>8, WorkMoves
<1> QED  BY <1>3, <1>6, <1>7, <1>8, <1>9, <1>10, <1>11, <1>12, <1>13, <1>14 DEF Work


\* A preview is made or read while everything else stands still.
LEMMA PrevMoves ==
    ASSUME IInv, Still, main' = main, call' = call, prev' \in [Slot -> Preview], Previews',
           \A s \in Slot : prev[s] \in Full =>
              /\ prev'[s] \in Full
              /\ prev'[s].tree = prev[s].tree /\ prev'[s].expect = prev[s].expect
    PROVE  IInv'
<1>1. Shape'
  BY DEF IInv, Shape, Still
<1>2. Baseline' /\ Given'
  BY DEF IInv, Safe, Baseline, Given, Still, NoLate, IsRun, IsRoom, Baselined
<1>3. ASSUME NEW s \in Slot, prev[s] \in Full
      PROVE  Changes(s)' = Changes(s) /\ (Expects(s) => Expects(s)')
  BY <1>3 DEF Changes, Expects, Still, IsRun
<1>4. ASSUME NEW c \in Call PROVE Fits(call[c])'
  <2>1. Fits(call[c]) /\ (call[c].at \in Acting => call[c].slot \in Slot)
    BY CallIs DEF IInv, Safe, Shape
  <2>2. CASE call[c].at \in Acting
    <3>1. prev[call[c].slot] \in Full /\ Expects(call[c].slot) /\ call[c].slot \in Slot
      BY <2>1, <2>2 DEF Fits
    <3> QED  BY <1>3, <2>1, <3>1 DEF Fits, NoLate
  <2>3. CASE call[c].at \notin Acting
    BY <2>3 DEF Fits, Acting, Verified
  <2> QED  BY <2>2, <2>3
<1>5. ASSUME IsRoom, NEW c \in Call PROVE RoomFits(call[c])'
  <2>1. RoomFits(call[c]) /\ Fits(call[c]) /\ (call[c].at \in Acting => call[c].slot \in Slot)
    BY <1>5, CallIs DEF IInv, Safe, Shape, Applying
  <2>2. CASE call[c].at \in Acting
    <3>1. prev[call[c].slot] \in Full /\ call[c].slot \in Slot
      BY <2>1, <2>2 DEF Fits
    <3> QED  BY <1>3, <2>1, <3>1 DEF RoomFits, Still
  <2>3. CASE call[c].at \notin Acting
    BY <2>3 DEF RoomFits, Acting, Verified
  <2> QED  BY <2>2, <2>3
<1>6. Applying'
  BY <1>5 DEF IInv, Safe, Applying, Still, IsRoom
<1>7. AppliedWhole'
  BY DEF IInv, AppliedWhole, Still, Delivered
<1> QED  BY <1>1, <1>2, <1>4, <1>6, <1>7 DEF IInv, Safe

\* A preview is checked against the baseline, then read for what it will expect.
LEMMA PrepareStep ==
    ASSUME IInv, NEW t \in Slot, PrepareChecks(t) \/ PrepareReads(t)
    PROVE  IInv' /\ main' = main
<1>1. Shape /\ Baseline /\ Given /\ Previews
  BY DEF IInv, Safe
<1>2. /\ UNCHANGED <<main, wt, task, snap, call, trash, seen, bounds>>
      /\ Still /\ main' = main /\ call' = call
  BY <1>1 DEF PrepareChecks, PrepareReads, Still, bounds, Shape
<1>3. main.tree \in Tree /\ wt.tree \in Tree
  BY <1>1 DEF Shape, Project
<1>4. CASE PrepareChecks(t)
  <2> DEFINE k == [at |-> "reading", tree |-> wt.tree]
  <2>1. /\ prev[t].at = "none" /\ prev' = [prev EXCEPT ![t] = k]
        /\ task.status = "completed" /\ wt.head = task.fp.head /\ main = task.fp
    BY <1>4 DEF PrepareChecks
  <2>2. k \in Preview /\ k.at = "reading" /\ k.tree = wt.tree
    BY <1>3 DEF Preview, Read
  <2> HIDE DEF k
  <2>3. /\ prev' \in [Slot -> Preview] /\ prev'[t] = k
        /\ \A s \in Slot : s # t => prev'[s] = prev[s]
    BY <1>1, <2>1, <2>2 DEF Shape
  <2>4. NoLate(wt.tree)
    BY <1>1, <2>1 DEF Baseline, NoLate
  <2>5. IsRun => \A p \in Path : wt.tree[p] # wt.head[p] /\ wt.tree[p] = "mine" => p \in seen
    BY <1>1, <2>1 DEF Given
  <2>6. ASSUME NEW s \in Slot, prev'[s].at # "none"
        PROVE  /\ task.status = "completed" /\ wt.head = task.fp.head
               /\ NoLate(prev'[s].tree)
               /\ IsRun => \A p \in Path : prev'[s].tree[p] # wt.head[p] /\ prev'[s].tree[p] = "mine" => p \in seen
               /\ prev'[s].at = "live" => Expects(s)'
    <3>1. CASE s = t
      BY <2>1, <2>2, <2>3, <2>4, <2>5, <3>1
    <3>2. CASE s # t
      BY <1>1, <1>2, <2>3, <2>6, <3>2 DEF Previews, Changes, Expects, IsRun
    <3> QED  BY <3>1, <3>2
  <2>7. Previews'
    BY <1>2, <2>6 DEF Previews, Changes, NoLate, IsRun
  <2>8. prev[t] \notin Full
    BY <2>1 DEF Full
  <2> QED  BY <1>2, <2>3, <2>7, <2>8, PrevMoves
<1>5. CASE PrepareReads(t)
  <2> DEFINE k == [at |-> "live", tree |-> prev[t].tree, expect |-> main.tree]
  <2>1. prev[t].at = "reading" /\ prev' = [prev EXCEPT ![t] = k]
    BY <1>5 DEF PrepareReads
  <2>2. prev[t].tree \in Tree
    BY <1>1, <2>1, PreviewIs DEF Shape
  <2>3. k \in Preview /\ k.at = "live" /\ k.tree = prev[t].tree /\ k.expect = main.tree
    BY <1>3, <2>2 DEF Preview, Full
  <2> HIDE DEF k
  <2>4. /\ prev' \in [Slot -> Preview] /\ prev'[t] = k
        /\ \A s \in Slot : s # t => prev'[s] = prev[s]
    BY <1>1, <2>1, <2>3 DEF Shape
  <2>5. /\ task.status = "completed" /\ wt.head = task.fp.head
        /\ NoLate(prev[t].tree)
        /\ IsRun => \A p \in Changes(t) : prev[t].tree[p] = "mine" => p \in seen
    BY <1>1, <2>1 DEF Previews
  <2>6. IsRun => \A p \in Path : main.tree[p] = "mine" => p \in seen
    BY <1>1, <2>5 DEF Given
  <2>7. Expects(t)'
    BY <1>2, <2>3, <2>4, <2>6 DEF Expects, IsRun
  <2>8. ASSUME NEW s \in Slot, prev'[s].at # "none"
        PROVE  /\ task.status = "completed" /\ wt.head = task.fp.head
               /\ NoLate(prev'[s].tree)
               /\ IsRun => \A p \in Path : prev'[s].tree[p] # wt.head[p] /\ prev'[s].tree[p] = "mine" => p \in seen
               /\ prev'[s].at = "live" => Expects(s)'
    <3>1. CASE s = t
      BY <2>3, <2>4, <2>5, <2>7, <3>1 DEF Changes
    <3>2. CASE s # t
      BY <1>1, <1>2, <2>4, <2>8, <3>2 DEF Previews, Changes, Expects, IsRun
    <3> QED  BY <3>1, <3>2
  <2>9. Previews'
    BY <1>2, <2>8 DEF Previews, Changes, NoLate, IsRun
  <2>10. prev[t] \notin Full
    BY <2>1 DEF Full
  <2> QED  BY <1>2, <2>4, <2>9, <2>10, PrevMoves
<1> QED  BY <1>2, <1>4, <1>5

\* A preview that expires keeps what the calls of it rely on.
LEMMA ExpireStep ==
    ASSUME IInv, NEW t \in Slot, Expire(t)
    PROVE  IInv' /\ main' = main
<1>1. Shape
  BY DEF IInv
<1>2. /\ prev[t].at = "live" /\ prev' = [prev EXCEPT ![t].at = "gone"]
      /\ main' = main /\ call' = call /\ Still
  BY <1>1 DEF Expire, Still, bounds, Shape
<1>3. Goner(t)
  BY <1>1, <1>2, GonerIs
<1>4. Previews' /\ prev' \in [Slot -> Preview]
  BY <1>2, <1>3, PreviewsGo DEF Goner
<1>5. \A s \in Slot : prev[s] \in Full =>
         /\ prev'[s] \in Full
         /\ prev'[s].tree = prev[s].tree /\ prev'[s].expect = prev[s].expect
  BY <1>3 DEF Goner, Full
<1> QED  BY <1>2, <1>4, <1>5, PrevMoves

\* The task's mark, row or lease changes under the calls, and nothing they rely on.
LEMMA TaskMoves ==
    ASSUME IInv, UNCHANGED <<main, wt, snap, prev, trash, seen>>,
           edits' \in Nat, faults' \in Nat, deaths' \in Nat,
           task' \in Task, task'.kind = task.kind, task'.fp = task.fp,
           task'.status = task.status
              \/ (snap = NoSnap /\ task'.status \in {"refused", "failed"} /\ task.status # "completed"),
           IsRoom /\ task'.mark # "open" => ~task'.lease /\ task'.status = "completed",
           IsRun \/ task'.mark # "applied" \/ task.mark = "applied",
           IsRun => task'.mark = "open",
           call' \in [Call -> ACall],
           \A c \in Call : Fits(call'[c]) /\ (IsRoom => RoomFits(call[c])'),
           IsRoom => \A c, d \in Call : call'[c].at \in Acting /\ call'[d].at \in Acting => c = d
    PROVE  IInv'
<1>1. Shape'
  BY DEF IInv, Shape
<1>2. Baseline' /\ Given'
  BY DEF IInv, Safe, Baseline, Given, NoLate, IsRun, IsRoom, Baselined
<1>3. Previews'
  BY DEF IInv, Safe, Previews, NoLate, IsRun, Changes, Expects
<1>4. \A c \in Call : Fits(call[c])'
  BY DEF Fits, Expects, NoLate, IsRun, Changes
<1>5. Applying'
  BY DEF Applying, IsRoom
<1>6. AppliedWhole'
  BY DEF IInv, AppliedWhole, Delivered, Safe, Baseline
<1> QED  BY <1>1, <1>2, <1>3, <1>4, <1>5, <1>6 DEF IInv, Safe

\* The phrase is typed: one more call, and the Writer task closed to others.
LEMMA RequestStep ==
    ASSUME IInv, NEW c \in Call, NEW s \in Slot, Request(c, s)
    PROVE  IInv' /\ main' = main
<1> DEFINE k == [at |-> "verify", slot |-> s]
<1>1. Shape /\ Previews /\ Applying /\ (\A d \in Call : Fits(call[d]))
  BY DEF IInv, Safe
<1>2. /\ call[c].at = "idle" /\ prev[s].at = "live" /\ ReviewReady
      /\ call' = [call EXCEPT ![c] = k]
      /\ UNCHANGED <<main, wt, snap, prev, trash, seen, bounds>>
      /\ task' = IF task.kind = "room" THEN [task EXCEPT !.mark = "applying"] ELSE task
  BY DEF Request
<1>3. k \in ACall /\ k.at = "verify" /\ k.slot = s
  BY DEF ACall, Checking
<1> HIDE DEF k
<1>4. /\ call' \in [Call -> ACall] /\ call'[c] = k
      /\ \A d \in Call \ {c} : call'[d] = call[d]
  BY <1>1, <1>2, <1>3 DEF Shape
<1>5. task.status = "completed" /\ Expects(s) /\ prev[s] \in Full
  BY <1>1, <1>2, PreviewIs DEF Previews, Shape
<1>6. Fits(k)
  BY <1>3, <1>5 DEF Fits, Verified
<1>7. task \in Task /\ task.kind \in {"run", "room"}
  BY <1>1, ApplyBackAssumption DEF Shape, Task
<1>8. /\ task' \in Task /\ task'.kind = task.kind /\ task'.fp = task.fp
      /\ task'.status = task.status /\ task'.lease = task.lease
      /\ IsRun => task'.mark = task.mark
      /\ IsRoom => task'.mark = "applying"
  BY <1>2, <1>7 DEF Task, IsRun, IsRoom
<1>9. IsRoom => ~task.lease /\ task.mark = "open"
  BY <1>2 DEF ReviewReady, IsRoom
<1>10. ASSUME IsRoom, NEW d \in Call, d # c PROVE call'[d].at \notin Acting
  BY <1>4, <1>9, <1>10, NoneAtWork
<1>11. ASSUME IsRoom, NEW d \in Call PROVE RoomFits(call[d])'
  <2>1. CASE d = c
    BY <1>3, <1>4, <1>8, <1>11, <2>1 DEF RoomFits, Verified
  <2>2. CASE d # c
    BY <1>10, <1>11, <2>2 DEF RoomFits, Acting, Verified
  <2> QED  BY <2>1, <2>2
<1>12. \A d \in Call : Fits(call'[d])
  BY <1>1, <1>4, <1>6
<1>13. IsRun => task'.mark = "open"
  BY <1>8 DEF IInv, Safe, Baseline
<1>14. /\ UNCHANGED <<main, wt, snap, prev, trash, seen>>
       /\ edits' \in Nat /\ faults' \in Nat /\ deaths' \in Nat
  BY <1>1, <1>2 DEF Shape, bounds
<1>15. IsRun \/ IsRoom
  BY <1>7 DEF IsRun, IsRoom
<1> QED  BY <1>4, <1>5, <1>8, <1>9, <1>10, <1>11, <1>12, <1>13, <1>14, <1>15, TaskMoves

\* Another start on the same store takes the unfinished row for a leftover; what
\* is being applied is finished.
LEMMA JoinsStep ==
    ASSUME IInv, Joins
    PROVE  IInv' /\ main' = main
<1>1. Shape /\ Applying /\ (\A d \in Call : Fits(call[d])) /\ Baseline
  BY DEF IInv, Safe
<1>2. PICK kept \in BOOLEAN :
         task' = [task EXCEPT !.status = Recovered(@), !.lease = @ /\ kept]
  BY DEF Joins
<1>3. /\ IsRoom /\ UNCHANGED <<main, wt, snap, prev, call, trash, seen, edits, faults>>
      /\ deaths' = deaths + 1
  BY DEF Joins, IsRoom
<1>4. task \in Task
  BY <1>1 DEF Shape
<1>5. /\ Recovered(task.status) \in Status
      /\ Recovered(task.status) = task.status
            \/ (task.status = "created" /\ Recovered(task.status) = "failed")
  BY <1>4 DEF Recovered, Task, Status
<1> DEFINE st == Recovered(task.status)
           le == task.lease /\ kept
<1>6. le \in BOOLEAN /\ (le => task.lease)
  BY <1>2
<1>7. task' = [task EXCEPT !.status = st, !.lease = le]
  BY <1>2
<1> HIDE DEF st, le
<1>8. /\ task' \in Task /\ task'.kind = task.kind /\ task'.fp = task.fp
      /\ task'.status = st /\ task'.lease = le /\ task'.mark = task.mark
  BY <1>4, <1>5, <1>6, <1>7 DEF Task, st
<1>9. task'.status = task.status \/ (task'.status = "failed" /\ task.status = "created")
  BY <1>5, <1>8 DEF st
<1>10. snap = NoSnap
  BY <1>1, <1>3 DEF Baseline, IsRun, IsRoom
<1>11. task.mark # "open" => ~task'.lease /\ task'.status = "completed"
  BY <1>1, <1>3, <1>6, <1>8, <1>9 DEF Applying
<1>12. \A c \in Call : RoomFits(call[c])'
  BY <1>1, <1>3, <1>8 DEF Applying, RoomFits, Changes
<1>13. call' \in [Call -> ACall] /\ edits' \in Nat /\ faults' \in Nat /\ deaths' \in Nat
  BY <1>1, <1>3 DEF Shape
<1>14. IsRoom => \A c, d \in Call : call'[c].at \in Acting /\ call'[d].at \in Acting => c = d
  BY <1>1, <1>3 DEF Applying
<1>15. ~IsRun
  BY <1>3 DEF IsRun, IsRoom
<1>16. \A c \in Call : Fits(call'[c])
  BY <1>1, <1>3
<1> QED  BY <1>3, <1>8, <1>9, <1>10, <1>11, <1>12, <1>13, <1>14, <1>15, <1>16, TaskMoves

\* After a crash no call acts; no preview is left to apply.
LEMMA CrashStep ==
    ASSUME IInv, Crash
    PROVE  IInv' /\ main' = main
<1>1. Shape /\ Baseline /\ Given /\ Previews
  BY DEF IInv, Safe
<1> DEFINE st == IF task.status \in {"inspected", "added"} THEN "refused"
                 ELSE Recovered(task.status)
<1>2. /\ UNCHANGED <<main, wt, trash, seen, edits, faults>> /\ deaths' = deaths + 1
      /\ snap' = NoSnap
      /\ task' = [task EXCEPT !.lease = FALSE, !.status = st]
  BY DEF Crash
<1>3. task \in Task /\ task.kind \in {"run", "room"}
  BY <1>1, ApplyBackAssumption DEF Shape, Task
<1>4. /\ st \in Status
      /\ \/ st = task.status /\ st \notin {"inspected", "added", "created"}
         \/ st \in {"refused", "failed"} /\ task.status \in {"inspected", "added", "created"}
  BY <1>3 DEF Recovered, Task, Status
<1> HIDE DEF st
<1>5. /\ task' \in Task /\ task'.kind = task.kind /\ task'.fp = task.fp
      /\ task'.status = st /\ task'.lease = FALSE /\ task'.mark = task.mark
  BY <1>2, <1>3, <1>4 DEF Task
<1>6. ASSUME NEW c \in Call PROVE call'[c] \in ACall /\ call'[c].at \notin Acting
  <2>1. call[c] \in ACall /\ call'[c] = IF call[c].at \in {"idle"} \cup Ended THEN call[c] ELSE [at |-> "dead"]
    BY <1>1 DEF Crash, Shape
  <2>2. [at |-> "dead"] \in ACall /\ [at |-> "dead"].at \notin Acting
    BY DEF ACall, Resting, Ended, Acting
  <2>3. call[c].at \in {"idle"} \cup Ended => call[c].at \notin Acting
    BY DEF Ended, Acting
  <2> QED  BY <2>1, <2>2, <2>3
<1>7. call' \in [Call -> ACall]
  <2>1. call' = [c \in Call |-> IF call[c].at \in {"idle"} \cup Ended THEN call[c] ELSE [at |-> "dead"]]
    BY DEF Crash
  <2> QED  BY <1>6, <2>1
<1>8. ASSUME NEW s \in Slot
      PROVE  /\ prev'[s] \in Preview
             /\ prev'[s].at # "none" => prev'[s].at = "gone" /\ prev[s].at # "none"
                                        /\ prev'[s].tree = prev[s].tree
  <2> DEFINE g == [prev[s] EXCEPT !.at = "gone"]
  <2>1. prev'[s] = IF prev[s].at = "none" THEN NoPrev ELSE g
    BY DEF Crash
  <2>2. NoPrev \in Preview /\ NoPrev.at = "none"
    BY DEF NoPrev, Preview
  <2>3. prev[s].at # "none" => g \in Preview /\ g.at = "gone" /\ g.tree = prev[s].tree
    BY <1>1, GoneIs DEF Shape
  <2> HIDE DEF g
  <2> QED  BY <2>1, <2>2, <2>3
<1>9. prev' \in [Slot -> Preview]
  <2>1. prev' = [s \in Slot |-> IF prev[s].at = "none" THEN NoPrev ELSE [prev[s] EXCEPT !.at = "gone"]]
    BY DEF Crash
  <2> QED  BY <1>8, <2>1
<1>10. Shape'
  BY <1>1, <1>2, <1>5, <1>7, <1>9 DEF Shape
<1>11. Baseline'
  BY <1>1, <1>2, <1>4, <1>5 DEF Baseline, NoLate, IsRun, IsRoom, Baselined
<1>12. Given'
  BY <1>1, <1>2, <1>4, <1>5 DEF Given, IsRun
<1>13. ASSUME NEW s \in Slot, prev'[s].at # "none"
       PROVE  /\ task'.status = "completed" /\ wt'.head = task'.fp.head
              /\ NoLate(prev'[s].tree)
              /\ IsRun' => \A p \in Changes(s)' : prev'[s].tree[p] = "mine" => p \in seen'
              /\ prev'[s].at # "live"
  <2>1. prev'[s].at = "gone" /\ prev[s].at # "none" /\ prev'[s].tree = prev[s].tree
    BY <1>8, <1>13
  <2>2. Changes(s)' = Changes(s)
    BY <1>2, <2>1 DEF Changes
  <2> QED  BY <1>1, <1>2, <1>4, <1>5, <2>1, <2>2 DEF Previews, IsRun
<1>14. Previews'
  BY <1>13 DEF Previews, NoLate
<1>15. \A c \in Call : Fits(call[c])' /\ RoomFits(call[c])'
  BY <1>6 DEF Fits, RoomFits, Acting, Verified
<1>16. Applying'
  <2>1. IsRoom => (task.mark # "open" => task.status = "completed")
    BY DEF IInv, Safe, Applying
  <2> QED  BY <1>4, <1>5, <1>6, <1>15, <2>1 DEF Applying, IsRoom
<1>17. AppliedWhole'
  BY <1>2, <1>5 DEF IInv, AppliedWhole, Delivered
<1> QED  BY <1>2, <1>10, <1>11, <1>12, <1>14, <1>15, <1>16, <1>17 DEF IInv, Safe

-----------------------------------------------------------------------------
(* What holds of every step, and what follows.                             *)

\* At the start nothing is under way.
LEMMA InitIs ==
    ASSUME Init
    PROVE  IInv
<1>1. /\ main \in [head : [Path -> {"none", "old"}], tree : [Path -> {"none", "old", "mine"}]]
      /\ \A p \in Path : main.tree[p] \in {main.head[p], "mine", "none"}
      /\ wt = [head |-> main.head, tree |-> main.head]
      /\ task \in [kind : Kind, status : {"none"}, fp : {main}, lease : {FALSE}, mark : {"open"}]
      /\ snap = NoSnap /\ prev = [s \in Slot |-> NoPrev] /\ call = [c \in Call |-> Idle]
      /\ trash = {} /\ seen = {} /\ edits = 0 /\ faults = 0 /\ deaths = 0
  BY DEF Init
<1>2. /\ main \in Project /\ NoLate(main.head) /\ NoLate(main.tree)
      /\ wt \in Project /\ wt.head = main.head /\ wt.tree = main.head
  BY <1>1 DEF Project, Tree, Content, NoLate
<1>3. task \in Task /\ task.fp = main /\ task.status = "none" /\ task.mark = "open"
  BY <1>1, <1>2 DEF Task, Status
<1>4. NoPrev \in Preview /\ Idle \in ACall /\ NoPrev.at = "none" /\ Idle.at \notin Acting
  BY DEF NoPrev, Preview, Idle, ACall, Resting, Acting
<1>5. /\ prev \in [Slot -> Preview] /\ call \in [Call -> ACall]
      /\ \A s \in Slot : prev[s].at = "none"
      /\ \A c \in Call : call[c].at \notin Acting
  BY <1>1, <1>4
<1>6. Shape
  BY <1>1, <1>2, <1>3, <1>5 DEF Shape
<1>7. Baseline /\ Given
  BY <1>1, <1>2, <1>3 DEF Baseline, Given, NoLate, Baselined, IsRun, IsRoom
<1>8. Previews
  BY <1>5 DEF Previews
<1>9. \A c \in Call : Fits(call[c]) /\ RoomFits(call[c])
  BY <1>5 DEF Fits, RoomFits, Acting, Verified
<1>10. Applying
  BY <1>3, <1>5, <1>9 DEF Applying
<1>11. AppliedWhole
  BY <1>3 DEF AppliedWhole
<1> QED  BY <1>6, <1>7, <1>8, <1>9, <1>10, <1>11 DEF IInv, Safe

\* A step leaves the project alone, is the owner's, or puts one file over
\* another that is none of the owner's late ones.
StepOnMain ==
    \/ main' = main
    \/ /\ \A p \in Path : main.tree[p] = "late" => main'.tree[p] = "late"
       /\ \A p \in Path : main'.tree[p] \in {main.tree[p], "mine", "late"}
    \/ \E p \in Path : PutOver(p)

\* Every step keeps the invariant and touches the project in one of three ways.
LEMMA Step ==
    ASSUME IInv, [Next]_vars
    PROVE  IInv' /\ StepOnMain
<1>1. CASE Owner
  BY <1>1, OwnerStep DEF StepOnMain
<1>2. CASE Work
  BY <1>2, WorkStep DEF StepOnMain
<1>3. CASE Review
  BY <1>3, PrepareStep, ExpireStep, RequestStep DEF Review, StepOnMain
<1>4. CASE Apply
  <2> SUFFICES ASSUME NEW c \in Call,
                      \/ Verify(c) \/ Recheck(c) \/ Consume(c) \/ MakesSession(c)
                      \/ Looks(c) \/ Puts(c) \/ Finishes(c) \/ Breaks(c)
                      \/ LooksBack(c) \/ PutsBack(c) \/ Restored(c) \/ BreaksBack(c)
               PROVE  IInv' /\ StepOnMain
    BY <1>4 DEF Apply
  <2>1. CASE Verify(c) \/ Recheck(c)
    BY <2>1, CheckSteps DEF StepOnMain, Verify, Recheck, Goes, Refuse
  <2>2. CASE Consume(c)
    BY <2>2, ConsumeStep DEF StepOnMain, Consume, Refuse
  <2>3. CASE MakesSession(c)
    BY <2>3, SessionStep DEF StepOnMain, MakesSession
  <2>4. CASE Looks(c) \/ Breaks(c)
    BY <2>4, LookSteps DEF StepOnMain, Looks, Breaks, Hold, Undoes
  <2>5. CASE Puts(c)
    BY <2>5, PutStep DEF StepOnMain
  <2>6. CASE Finishes(c)
    BY <2>6, FinishStep DEF StepOnMain, Finishes
  <2>7. CASE LooksBack(c) \/ Restored(c) \/ BreaksBack(c)
    BY <2>7, BackSteps DEF StepOnMain, LooksBack, Restored, BreaksBack, Hold, Ends
  <2>8. CASE PutsBack(c)
    BY <2>8, PutBackStep DEF StepOnMain
  <2> QED  BY <2>1, <2>2, <2>3, <2>4, <2>5, <2>6, <2>7, <2>8
<1>5. CASE Joins
  BY <1>5, JoinsStep DEF StepOnMain
<1>6. CASE Crash
  BY <1>6, CrashStep DEF StepOnMain
<1>7. CASE UNCHANGED vars
  BY <1>7 DEF StepOnMain, vars, IInv, Safe, Shape, AppliedWhole, Delivered, Baseline, Given,
       Previews, Applying, Fits, RoomFits, Expects, Changes, Baselined, NoLate, IsRun, IsRoom
<1> QED  BY <1>1, <1>2, <1>3, <1>4, <1>5, <1>6, <1>7 DEF Next

\* In every reachable state the baseline, the previews and the calls fit
\* together, for every number of files, previews and calls.
THEOREM Invariant == Spec => []IInv
<1>1. Init => IInv
  BY InitIs
<1>2. IInv /\ [Next]_vars => IInv'
  BY Step
<1> QED  BY <1>1, <1>2, PTL DEF Spec

\* A Writer task counts as applied only over a project that holds its work whole,
\* but for what the owner wrote later (beginApply, finishApply).
THEOREM AppliedWholeHolds == Spec => []AppliedWhole
<1>1. IInv => AppliedWhole
  BY DEF IInv
<1> QED  BY <1>1, Invariant, PTL

\* What the owner has written since the baseline is never overwritten, moved or
\* restored away, by an apply or by its roll-back.
THEOREM SparesLateEditsHolds == Spec => SparesLateEdits
<1>1. IInv /\ [Next]_vars =>
         [\A p \in Path : main.tree[p] = "late" => main'.tree[p] = "late"]_vars
  <2> SUFFICES ASSUME IInv, [Next]_vars, NEW p \in Path, main.tree[p] = "late"
               PROVE  main'.tree[p] = "late"
    OBVIOUS
  <2> QED  BY Step DEF StepOnMain, PutOver
<1> QED  BY <1>1, Invariant, PTL DEF Spec, SparesLateEdits

\* An edit the owner had not committed when a run began is replaced only by work
\* that was built on it.
THEOREM BuiltOnMineHolds == Spec => BuiltOnMine
<1>1. IInv /\ [Next]_vars =>
         [\A p \in Path :
             task.kind = "run" /\ main.tree[p] = "mine" /\ main'.tree[p] \notin {"mine", "late"}
                => p \in seen]_vars
  <2> SUFFICES ASSUME IInv, [Next]_vars, NEW p \in Path, task.kind = "run",
                      main.tree[p] = "mine", main'.tree[p] \notin {"mine", "late"}
               PROVE  p \in seen
    OBVIOUS
  <2> QED  BY Step DEF StepOnMain, PutOver, IsRun
<1> QED  BY <1>1, Invariant, PTL DEF Spec, BuiltOnMine
=============================================================================
