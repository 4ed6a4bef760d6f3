-------------------------- MODULE WorkflowRunProofs --------------------------
(***************************************************************************)
(* One executor and one record per run, verdicts that stay, and runs that  *)
(* are completed on what their reviewers saw, for every number of          *)
(* processes, runs, reviewers, rounds and calls.                           *)
(*                                                                         *)
(* What a process keeps of a run, its calls and its workspace satisfies    *)
(* PairOK whatever the others do.  Rows relates it to the store: an opening *)
(* marks the row of a run that another process executes, and a run that is *)
(* restored on such a mark has two executors from then on (shared).        *)
(***************************************************************************)
EXTENDS WorkflowRunProps, TLAPS

USE DEF history

\* The types without the bounds of the counters.
Counts == [rounds: Nat, calls: Nat, subs: Nat, errs: Nat]
Record == [status: {"none"} \cup Live \cup Terminal,
           code: {"none", "interrupted", "other"}, counters: Counts]
Engine == [phase: Phase, stop: {"none", "cancelled", "timeout"}, due: BOOLEAN,
           paused: BOOLEAN, epoch: Nat, rec: Record, restored: Nat, skip: BOOLEAN,
           seen: Nat, last: Nat, stalled: Nat, context: Nat]
ACall == [step: {"idle", "gate", "priced", "up", "done", "failed"}, epoch: Nat,
          child: Child, out: {"none", "pass", "changes", "exited", "denied"}]

Points == [round: Nat, work: Nat, counters: Counts]
Governor == [calls: Nat, epoch: Nat]

Shape ==
    /\ row \in [Run -> Record]
    /\ point \in [Run -> Points]
    /\ work \in [Run -> Nat]
    /\ eng \in [Proc -> [Run -> Engine]]
    /\ call \in [Proc -> [Run -> [Agent -> ACall]]]
    /\ stray \in [Run -> BOOLEAN]
    /\ gov \in Governor
    /\ up \in [Proc -> BOOLEAN]
    /\ deaths \in Nat

\* A process is away from a run it has not registered, and works on one that
\* has not ended.
Away(e) == e.phase \in {"idle", "admitted"}
Works(e) == e.phase \notin {"idle", "admitted", "ended"}

\* What a process keeps of a run, with the calls of the run and the version of
\* its workspace: only a registered run has calls; the status follows the
\* phase; and a review looks at what the round left or at something newer.
PairOK(e, c, w) ==
    /\ Away(e) => /\ e.rec.status = "none"
                  /\ \A a \in Agent : c[a].step \in {"idle", "done", "failed"}
    /\ Works(e) => e.rec.status \in {"running", "paused"} /\ e.rec.code = "none"
    /\ e.phase = "ended" => e.rec.status \in Terminal /\ e.rec.code # "interrupted"
    /\ e.phase \in {"test", "context"} => e.seen <= w
    /\ e.phase = "review" => e.seen <= e.context /\ e.context <= w
    /\ e.rec.status = "completed" =>
          /\ e.context = e.seen
          /\ \A a \in Reviewer : c[a].step = "done" /\ c[a].out = "pass"

Pairs == \A p \in Proc, r \in Run : PairOK(eng[p][r], call[p][r], work[r])

\* Of a run that is not shared one process at most is not away, and the row is
\* its record or the mark over it; an unfinished row is the record of one that
\* works on the run, or was left by a death and waits for an opening.
Rows ==
    \A r \in Run :
        /\ r \notin shared => \A p \in Proc : ~Away(eng[p][r]) =>
              /\ row[r] \in {eng[p][r].rec, Marked(eng[p][r].rec)}
              /\ \A q \in Proc \ {p} : Away(eng[q][r])
        /\ row[r].status \in Live =>
              \/ \E p \in Proc : Works(eng[p][r]) /\ row[r] = eng[p][r].rec
              \/ r \in unswept

PairInv == Shape /\ Pairs
IInv == PairInv /\ Rows

-----------------------------------------------------------------------------
(* Records.                                                                *)

\* A record that differs in its counters only.
Same(e, f) ==
    /\ f.phase = e.phase /\ f.seen = e.seen /\ f.context = e.context
    /\ f.rec.status = e.rec.status /\ f.rec.code = e.rec.code

\* Counters count in whole numbers.
LEMMA Adding ==
    ASSUME NEW n \in Counts, NEW x \in Nat, NEW y \in Nat, NEW z \in Nat
    PROVE  /\ [n EXCEPT !.rounds = x] \in Counts /\ [n EXCEPT !.subs = x] \in Counts
           /\ [n EXCEPT !.calls = x] \in Counts /\ [n EXCEPT !.errs = x] \in Counts
           /\ [n EXCEPT !.calls = x, !.subs = y] \in Counts
           /\ [n EXCEPT !.calls = x, !.errs = y] \in Counts
           /\ [n EXCEPT !.calls = x, !.subs = y, !.errs = z] \in Counts
  BY DEF Counts

\* A record with other counters is the same in everything else.
LEMMA Counting ==
    ASSUME NEW e \in Engine, NEW n \in Counts
    PROVE  Counted(e, n) \in Engine /\ Same(e, Counted(e, n))
  BY DEF Counted, Engine, Record, Same

\* The first values have their types.
LEMMA Firsts ==
    /\ Zero \in Counts /\ NoRow \in Record /\ NoPoint \in Points
    /\ NoRun \in Engine /\ NoRun.phase = "idle" /\ NoRun.rec = NoRow
    /\ NoCall \in ACall /\ NoCall.step = "idle" /\ NoCall.out = "none"
    /\ AtGate \in ACall /\ AtGate.step = "gate"
<1>1. Zero \in Counts
  BY DEF Zero, Counts
<1>2. NoRow \in Record
  BY <1>1 DEF NoRow, Record
<1>3. NoPoint \in Points
  BY <1>1 DEF NoPoint, Points
<1>4. NoRun \in Engine /\ NoRun.phase = "idle" /\ NoRun.rec = NoRow
  BY <1>2 DEF NoRun, Engine, Phase
<1>5. NoCall \in ACall /\ NoCall.step = "idle" /\ NoCall.out = "none"
  BY DEF NoCall, ACall, spawn, Child
<1>6. AtGate \in ACall /\ AtGate.step = "gate"
  BY <1>5 DEF AtGate, ACall
<1> QED  BY <1>1, <1>2, <1>3, <1>4, <1>5, <1>6

-----------------------------------------------------------------------------
(* Steps of one process at one run.                                        *)

\* Of the histories only this run may become a shared one.
Noted(r) ==
    unswept' = unswept /\ shared \subseteq shared' /\ shared' \subseteq shared \cup {r}

\* Nothing of another run, nor of the same run in another process, changes;
\* workspaces only grow.
Alone(p, r) ==
    /\ \A q \in Proc, s \in Run : q # p \/ s # r =>
          eng'[q][s] = eng[q][s] /\ call'[q][s] = call[q][s]
    /\ \A s \in Run : s # r => row'[s] = row[s]
    /\ \A s \in Run : work[s] <= work'[s]
    /\ Noted(r)

\* What becomes of the row: it is left, written by the one who has registered
\* the run, or begun.
Left(p, r) ==
    /\ row'[r] = row[r]
    /\ ~Away(eng'[p][r]) => ~Away(eng[p][r]) /\ eng'[p][r].rec = eng[p][r].rec
    /\ Works(eng[p][r]) => Works(eng'[p][r])
Saved(p, r) ==
    /\ row'[r] = eng'[p][r].rec
    /\ ~Away(eng[p][r]) /\ ~Away(eng'[p][r])
    /\ eng[p][r].phase = "ended" =>
          /\ eng'[p][r].phase = "ended"
          /\ eng'[p][r].rec.status = eng[p][r].rec.status
          /\ eng'[p][r].rec.code = eng[p][r].rec.code
Begun(p, r) ==
    /\ row'[r] = eng'[p][r].rec
    /\ Away(eng[p][r]) /\ Works(eng'[p][r])
    /\ row[r].status = "none" \/ (row[r].status = "failed" /\ row[r].code = "interrupted")
    /\ r \notin shared' => \A q \in Proc \ {p} : ~Works(eng[q][r])

Effect(p, r) ==
    /\ Shape'
    /\ Alone(p, r)
    /\ PairOK(eng'[p][r], call'[p][r], work'[r])
    /\ Left(p, r) \/ Saved(p, r) \/ Begun(p, r)

\* A workspace that has grown suits what was seen of it before.
LEMMA PairGrows ==
    ASSUME NEW e \in Engine, NEW c, NEW v \in Nat, NEW w \in Nat, v <= w, PairOK(e, c, v)
    PROVE  PairOK(e, c, w)
<1>1. e.seen \in Nat /\ e.context \in Nat
  BY DEF Engine
<1> QED  BY <1>1 DEF PairOK

\* A step at one run leaves what every process keeps of every run fitting.
LEMMA PairsStep ==
    ASSUME PairInv, NEW p \in Proc, NEW r \in Run, Effect(p, r)
    PROVE  PairInv'
<1>1. ASSUME NEW q \in Proc, NEW s \in Run
      PROVE  PairOK(eng'[q][s], call'[q][s], work'[s])
  <2>1. CASE q = p /\ s = r
    BY <2>1 DEF Effect
  <2>2. CASE q # p \/ s # r
    <3>1. eng'[q][s] = eng[q][s] /\ call'[q][s] = call[q][s] /\ work[s] <= work'[s]
      BY <2>2 DEF Effect, Alone
    <3>2. eng[q][s] \in Engine /\ work[s] \in Nat /\ work'[s] \in Nat
      BY DEF PairInv, Shape, Effect
    <3>3. PairOK(eng[q][s], call[q][s], work[s])
      BY DEF PairInv, Pairs
    <3>4. PairOK(eng[q][s], call[q][s], work'[s])
      BY <3>1, <3>2, <3>3, PairGrows
    <3> QED  BY <3>1, <3>4
  <2> QED  BY <2>1, <2>2
<1>2. Shape'
  BY DEF Effect
<1> QED  BY <1>1, <1>2 DEF PairInv, Pairs

\* Where one process has the run in hand, and its row is the record, a step of
\* any process keeps it so.
LEMMA RowsStep ==
    ASSUME IInv, NEW p \in Proc, NEW r \in Run, Effect(p, r)
    PROVE  Rows'
<1>0. /\ Alone(p, r) /\ Noted(r) /\ PairOK(eng'[p][r], call'[p][r], work'[r])
  BY DEF Effect, Alone
<1>1. \A q \in Proc, s \in Run : PairOK(eng[q][s], call[q][s], work[s])
  BY DEF IInv, PairInv, Pairs
<1>2. \A q \in Proc \ {p} : eng'[q][r] = eng[q][r]
  BY <1>0 DEF Alone
<1>3. ASSUME NEW s \in Run, s # r
      PROVE  /\ row'[s] = row[s] /\ \A q \in Proc : eng'[q][s] = eng[q][s]
             /\ s \in shared' <=> s \in shared
             /\ unswept' = unswept
  BY <1>0, <1>3 DEF Alone, Noted
<1>4. ASSUME NEW s \in Run, s \notin shared', NEW q \in Proc, ~Away(eng'[q][s])
      PROVE  /\ row'[s] \in {eng'[q][s].rec, Marked(eng'[q][s].rec)}
             /\ \A o \in Proc \ {q} : Away(eng'[o][s])
  <2>0. s \notin shared
    BY <1>0, <1>4 DEF Noted
  <2>1. \A o \in Proc : ~Away(eng[o][s]) =>
            /\ row[s] \in {eng[o][s].rec, Marked(eng[o][s].rec)}
            /\ \A x \in Proc \ {o} : Away(eng[x][s])
    BY <2>0 DEF IInv, Rows
  <2>2. CASE s # r
    BY <1>3, <1>4, <2>1, <2>2
  <2>3. CASE s = r /\ Left(p, r)
    <3>1. row'[r] = row[r] /\ \A o \in Proc : ~Away(eng'[o][r]) =>
              ~Away(eng[o][r]) /\ eng'[o][r].rec = eng[o][r].rec
      BY <1>2, <2>3 DEF Left
    <3> QED  BY <1>4, <2>1, <2>3, <3>1
  <2>4. CASE s = r /\ Saved(p, r)
    <3>1. ~Away(eng[p][r]) /\ row'[r] = eng'[p][r].rec
      BY <2>4 DEF Saved
    <3>2. \A o \in Proc \ {p} : Away(eng'[o][r])
      BY <1>2, <2>1, <2>4, <3>1
    <3> QED  BY <1>4, <2>4, <3>1, <3>2
  <2>5. CASE s = r /\ Begun(p, r)
    <3>1. ASSUME NEW o \in Proc \ {p} PROVE Away(eng[o][r])
      <4>1. ~Works(eng[o][r]) /\ PairOK(eng[o][r], call[o][r], work[r])
        BY <1>1, <1>4, <2>5 DEF Begun
      <4>2. ASSUME eng[o][r].phase = "ended" PROVE FALSE
        <5>1. /\ eng[o][r].rec.status \in Terminal /\ eng[o][r].rec.code # "interrupted"
              /\ ~Away(eng[o][r])
          BY <4>1, <4>2 DEF PairOK, Away
        <5>2. row[r] = eng[o][r].rec
          BY <2>1, <2>5, <5>1 DEF Marked, Terminal, Live
        <5> QED  BY <2>5, <5>1, <5>2 DEF Begun, Terminal
      <4> QED  BY <4>1, <4>2 DEF Works, Away
    <3>2. row'[r] = eng'[p][r].rec /\ \A o \in Proc \ {p} : Away(eng'[o][r])
      BY <1>2, <2>5, <3>1 DEF Begun
    <3> QED  BY <1>4, <2>5, <3>2
  <2> QED  BY <2>2, <2>3, <2>4, <2>5 DEF Effect
<1>5. ASSUME NEW s \in Run, row'[s].status \in Live
      PROVE  \/ \E q \in Proc : Works(eng'[q][s]) /\ row'[s] = eng'[q][s].rec
             \/ s \in unswept'
  <2>1. row[s].status \in Live =>
            \/ \E q \in Proc : Works(eng[q][s]) /\ row[s] = eng[q][s].rec
            \/ s \in unswept
    BY DEF IInv, Rows
  <2>2. CASE s # r
    BY <1>3, <1>5, <2>1, <2>2
  <2>3. CASE s = r /\ Left(p, r)
    <3>1. row'[r] = row[r] /\ unswept' = unswept
      BY <1>0, <2>3 DEF Left, Noted
    <3>2. \A q \in Proc : Works(eng[q][r]) =>
              Works(eng'[q][r]) /\ eng'[q][r].rec = eng[q][r].rec
      BY <1>2, <2>3 DEF Left, Works, Away
    <3> QED  BY <1>5, <2>1, <2>3, <3>1, <3>2
  <2>4. CASE s = r /\ (Saved(p, r) \/ Begun(p, r))
    <3>1. row'[r] = eng'[p][r].rec /\ ~Away(eng'[p][r])
      BY <2>4 DEF Saved, Begun, Works, Away
    <3>2. eng'[p][r].phase # "ended"
      BY <1>0, <1>5, <2>4, <3>1 DEF PairOK, Live, Terminal
    <3> QED  BY <2>4, <3>1, <3>2 DEF Works, Away
  <2> QED  BY <2>2, <2>3, <2>4 DEF Effect
<1> QED  BY <1>4, <1>5 DEF Rows

\* A verdict stays over such a step, unless two processes execute the run.
LEMMA VerdictStep ==
    ASSUME IInv, NEW p \in Proc, NEW r \in Run, Effect(p, r), NEW s \in Run \ shared,
           row[s].status \in Terminal, row[s].code # "interrupted"
    PROVE  row'[s].status = row[s].status /\ row'[s].code = row[s].code
<1>0. PairOK(eng[p][r], call[p][r], work[r])
  BY DEF IInv, PairInv, Pairs
<1>1. CASE s # r
  BY <1>1 DEF Effect, Alone
<1>2. CASE s = r /\ Left(p, r)
  BY <1>2 DEF Left
<1>3. CASE s = r /\ Saved(p, r)
  <2>1. row[r] \in {eng[p][r].rec, Marked(eng[p][r].rec)}
    BY <1>3 DEF IInv, Rows, Saved
  <2>2. row[r] = eng[p][r].rec
    <3>1. row[r].status \notin Live
      BY <1>3 DEF Terminal, Live
    <3>2. CASE eng[p][r].rec.status \notin Live
      BY <2>1, <3>2 DEF Marked
    <3>3. CASE eng[p][r].rec.status \in Live
      <4>1. eng[p][r].rec \in Record
        BY DEF IInv, PairInv, Shape, Engine
      <4>2. Marked(eng[p][r].rec).code = "interrupted"
        BY <3>3, <4>1 DEF Marked, Record
      <4> QED  BY <1>3, <2>1, <3>1, <3>3, <4>2
    <3> QED  BY <3>2, <3>3
  <2>3. eng[p][r].phase = "ended"
    BY <1>0, <1>3, <2>2 DEF Saved, PairOK, Works, Away, Terminal
  <2> QED  BY <1>3, <2>2, <2>3 DEF Saved
<1>4. CASE s = r /\ Begun(p, r)
  BY <1>4 DEF Begun, Terminal
<1> QED  BY <1>1, <1>2, <1>3, <1>4 DEF Effect

-----------------------------------------------------------------------------
(* What the helpers of the actions change.                                 *)

\* The parts of what a process keeps of a run have their types.
LEMMA Typed ==
    ASSUME Shape, NEW p \in Proc, NEW r \in Run
    PROVE  /\ eng[p][r] \in Engine /\ eng[p][r].rec \in Record
           /\ eng[p][r].rec.counters \in Counts
           /\ row[r] \in Record /\ point[r] \in Points /\ work[r] \in Nat
           /\ call[p][r] \in [Agent -> ACall]
<1>1. eng[p][r] \in Engine /\ call[p][r] \in [Agent -> ACall]
  BY DEF Shape
<1>2. eng[p][r].rec \in Record
  BY <1>1 DEF Engine
<1>3. eng[p][r].rec.counters \in Counts
  BY <1>2 DEF Record
<1> QED  BY <1>1, <1>2, <1>3 DEF Shape

\* Another engine, and no other.
LEMMA PutIs ==
    ASSUME Shape, NEW p \in Proc, NEW r \in Run, NEW e \in Engine, Put(p, r, e)
    PROVE  /\ eng' \in [Proc -> [Run -> Engine]] /\ eng'[p][r] = e
           /\ \A q \in Proc, s \in Run : q # p \/ s # r => eng'[q][s] = eng[q][s]
<1>1. eng \in [Proc -> [Run -> Engine]] /\ eng' = [eng EXCEPT ![p][r] = e]
  BY DEF Shape, Put
<1> QED  BY <1>1

\* The row follows.
LEMMA SaveIs ==
    ASSUME Shape, NEW p \in Proc, NEW r \in Run, NEW e \in Engine, Save(p, r, e)
    PROVE  /\ eng' \in [Proc -> [Run -> Engine]] /\ eng'[p][r] = e
           /\ \A q \in Proc, s \in Run : q # p \/ s # r => eng'[q][s] = eng[q][s]
           /\ row' \in [Run -> Record] /\ row'[r] = e.rec
           /\ \A s \in Run : s # r => row'[s] = row[s]
<1>1. row \in [Run -> Record] /\ row' = [row EXCEPT ![r] = e.rec] /\ e.rec \in Record
  BY DEF Shape, Save, Engine
<1>2. Put(p, r, e)
  BY DEF Save
<1> QED  BY <1>1, <1>2, PutIs

\* One call of one run.
LEMMA CallsIs ==
    ASSUME Shape, NEW p \in Proc, NEW r \in Run, NEW a \in Agent, NEW c \in ACall,
           Calls(p, r, a, c)
    PROVE  /\ call' \in [Proc -> [Run -> [Agent -> ACall]]]
           /\ \A b \in Agent : call'[p][r][b] = IF b = a THEN c ELSE call[p][r][b]
           /\ \A q \in Proc, s \in Run : q # p \/ s # r => call'[q][s] = call[q][s]
<1>1. /\ call \in [Proc -> [Run -> [Agent -> ACall]]]
      /\ call' = [call EXCEPT ![p][r][a] = c]
  BY DEF Shape, Calls
<1> QED  BY <1>1

\* The calls of a run begin anew.
LEMMA StartIs ==
    ASSUME Shape, NEW p \in Proc, NEW r \in Run, NEW agents, Start(p, r, agents)
    PROVE  /\ call' \in [Proc -> [Run -> [Agent -> ACall]]]
           /\ \A b \in Agent : call'[p][r][b] = IF b \in agents THEN AtGate ELSE NoCall
           /\ \A q \in Proc, s \in Run : q # p \/ s # r => call'[q][s] = call[q][s]
<1> DEFINE f == [b \in Agent |-> IF b \in agents THEN AtGate ELSE NoCall]
<1>1. /\ call \in [Proc -> [Run -> [Agent -> ACall]]]
      /\ call' = [call EXCEPT ![p][r] = f]
  BY DEF Shape, Start
<1>2. f \in [Agent -> ACall] /\ \A b \in Agent : f[b] = IF b \in agents THEN AtGate ELSE NoCall
  BY Firsts
<1> HIDE DEF f
<1> QED  BY <1>1, <1>2

\* The catch of a run.
LEMMA LostIs ==
    ASSUME NEW e \in Engine
    PROVE  /\ Lost(e) \in Engine /\ Lost(e).phase = "ended"
           /\ Lost(e).rec.status \in {"failed", "cancelled"} /\ Lost(e).rec.code = "other"
  BY DEF Lost, Engine, Record, Phase, Terminal

\* The types of the next state, one by one.
LEMMA ShapeNext ==
    ASSUME row' \in [Run -> Record], point' \in [Run -> Points], work' \in [Run -> Nat],
           eng' \in [Proc -> [Run -> Engine]],
           call' \in [Proc -> [Run -> [Agent -> ACall]]],
           stray' \in [Run -> BOOLEAN], gov' \in Governor, up' \in [Proc -> BOOLEAN],
           deaths' \in Nat
    PROVE  Shape'
  BY DEF Shape, Record, Points, Engine, ACall, Governor, Counts, Phase, Child, Live, Terminal

-----------------------------------------------------------------------------
(* The calls.                                                              *)

\* A call that is under way belongs to a run that is registered, and is not
\* one of those that passed a completed one.
LEMMA CallPair ==
    ASSUME NEW e \in Engine, NEW f \in Engine, Same(e, f), NEW c, NEW d, NEW w,
           PairOK(e, c, w), NEW a \in Agent, c[a].step \in {"gate", "priced", "up"},
           \A b \in Agent : b # a => d[b] = c[b]
    PROVE  ~Away(e) /\ PairOK(f, d, w)
<1>1. ~Away(e)
  BY DEF PairOK
<1>2. f.rec.status = "completed" => a \notin Reviewer
  BY DEF PairOK, Same
<1>3. Reviewer \subseteq Agent
  BY DEF Agent
<1> QED  BY <1>1, <1>2, <1>3 DEF PairOK, Same, Away, Works

\* What a step of a call does to its run.
CallMoves(p, r, a) ==
    /\ call[p][r][a].step \in {"gate", "priced", "up"}
    /\ \E c \in ACall : Calls(p, r, a, c)
    /\ \/ UNCHANGED <<row, eng>>
       \/ Save(p, r, eng[p][r])
       \/ \E n \in Counts : Save(p, r, Counted(eng[p][r], n))
    /\ gov' \in Governor /\ stray' \in [Run -> BOOLEAN]
    /\ UNCHANGED <<point, work, up, deaths, history>>

\* A step of one call of a run is a step at that run.
LEMMA CallEffect ==
    ASSUME PairInv, NEW p \in Proc, NEW r \in Run, NEW a \in Agent, CallMoves(p, r, a)
    PROVE  Effect(p, r)
<1> DEFINE e == eng[p][r]
<1>1. /\ Shape /\ e \in Engine /\ PairOK(e, call[p][r], work[r])
      /\ call[p][r][a].step \in {"gate", "priced", "up"}
  BY Typed DEF PairInv, Pairs, CallMoves
<1>2. PICK c \in ACall : Calls(p, r, a, c)
  BY DEF CallMoves
<1>3. /\ call' \in [Proc -> [Run -> [Agent -> ACall]]]
      /\ \A b \in Agent : call'[p][r][b] = IF b = a THEN c ELSE call[p][r][b]
      /\ \A q \in Proc, s \in Run : q # p \/ s # r => call'[q][s] = call[q][s]
  BY <1>1, <1>2, CallsIs
<1>4. /\ point' = point /\ work' = work /\ up' = up /\ deaths' = deaths /\ Noted(r)
      /\ gov' \in Governor /\ stray' \in [Run -> BOOLEAN]
  BY DEF CallMoves, Noted
<1>5. ASSUME NEW f \in Engine, Same(e, f), row' \in [Run -> Record],
             eng' \in [Proc -> [Run -> Engine]], eng'[p][r] = f,
             \A q \in Proc, s \in Run : q # p \/ s # r => eng'[q][s] = eng[q][s],
             \A s \in Run : s # r => row'[s] = row[s],
             row'[r] = f.rec \/ (row'[r] = row[r] /\ f.rec = e.rec)
      PROVE  Effect(p, r)
  <2>1. ~Away(e) /\ PairOK(f, call'[p][r], work[r])
    <3> DEFINE c0 == call[p][r]
               c1 == call'[p][r]
               w == work[r]
    <3>1. /\ PairOK(e, c0, w) /\ c0[a].step \in {"gate", "priced", "up"} /\ e \in Engine
          /\ \A b \in Agent : b # a => c1[b] = c0[b]
      BY <1>1, <1>3
    <3> HIDE DEF e, c0, c1, w
    <3>2. ~Away(e) /\ PairOK(f, c1, w)
      BY <1>5, <3>1, CallPair
    <3> QED  BY <3>2 DEF c1, w
  <2>2. Shape'
    BY <1>1, <1>3, <1>4, <1>5, ShapeNext DEF Shape
  <2>3. Alone(p, r)
    <3>1. \A s \in Run : work[s] \in Nat
      BY <1>1 DEF Shape
    <3> QED  BY <1>3, <1>4, <1>5, <3>1 DEF Alone
  <2>4. Left(p, r) \/ Saved(p, r)
    BY <1>5, <2>1 DEF Left, Saved, Same, Away, Works
  <2> QED  BY <1>4, <1>5, <2>1, <2>2, <2>3, <2>4 DEF Effect
<1>6. CASE UNCHANGED <<row, eng>>
  <2>1. Same(e, e)
    BY DEF Same
  <2>2. row \in [Run -> Record] /\ eng \in [Proc -> [Run -> Engine]]
    BY <1>1 DEF Shape
  <2> QED  BY <1>1, <1>5, <1>6, <2>1, <2>2
<1>7. CASE Save(p, r, e)
  <2>1. Same(e, e)
    BY DEF Same
  <2>2. /\ eng' \in [Proc -> [Run -> Engine]] /\ eng'[p][r] = e
        /\ \A q \in Proc, s \in Run : q # p \/ s # r => eng'[q][s] = eng[q][s]
        /\ row' \in [Run -> Record] /\ row'[r] = e.rec
        /\ \A s \in Run : s # r => row'[s] = row[s]
    BY <1>1, <1>7, SaveIs
  <2> QED  BY <1>1, <1>5, <2>1, <2>2
<1>8. ASSUME NEW n \in Counts, Save(p, r, Counted(e, n))
      PROVE  Effect(p, r)
  <2> DEFINE f == Counted(e, n)
  <2>1. f \in Engine /\ Same(e, f)
    BY <1>1, Counting
  <2>2. Save(p, r, f)
    BY <1>8
  <2> HIDE DEF f
  <2>3. /\ eng' \in [Proc -> [Run -> Engine]] /\ eng'[p][r] = f
        /\ \A q \in Proc, s \in Run : q # p \/ s # r => eng'[q][s] = eng[q][s]
        /\ row' \in [Run -> Record] /\ row'[r] = f.rec
        /\ \A s \in Run : s # r => row'[s] = row[s]
    BY <1>1, <2>1, <2>2, SaveIs
  <2> QED  BY <1>5, <2>1, <2>3
<1> QED  BY <1>6, <1>7, <1>8 DEF CallMoves

\* The check at the gate, the reservation and the answer are such steps.
LEMMA GateMoves ==
    ASSUME PairInv, NEW p \in Proc, NEW r \in Run, NEW a \in Agent,
           Gate(p, r, a) \/ Reserve(p, r, a)
    PROVE  CallMoves(p, r, a)
<1> DEFINE e == eng[p][r]
           n == e.rec.counters
           k == call[p][r][a]
           More(m) == m \in Counts /\ Save(p, r, Counted(e, m))
<1>1. n \in Counts /\ k \in ACall /\ gov \in Governor /\ stray \in [Run -> BOOLEAN]
  BY Typed DEF PairInv, Shape
<1>2. /\ n.calls \in Nat /\ n.subs \in Nat /\ n.errs \in Nat
      /\ gov.calls \in Nat /\ gov.epoch \in Nat
  BY <1>1 DEF Counts, Governor
<1>3. /\ [n EXCEPT !.subs = n.subs + 1] \in Counts
      /\ [n EXCEPT !.calls = n.calls + 1] \in Counts
      /\ [n EXCEPT !.calls = n.calls + 1, !.subs = n.subs + 1] \in Counts
      /\ [n EXCEPT !.calls = n.calls + 1, !.errs = n.errs + 1] \in Counts
      /\ [n EXCEPT !.calls = n.calls + 1, !.subs = n.subs + 1, !.errs = n.errs + 1] \in Counts
  <2> HIDE DEF n
  <2>1. n.calls + 1 \in Nat /\ n.subs + 1 \in Nat /\ n.errs + 1 \in Nat
    BY <1>2
  <2> QED  BY <1>1, <2>1, Adding
<1>4. [gov EXCEPT !.calls = @ + 1] \in Governor
  BY <1>1, <1>2 DEF Governor
<1>5. /\ Denied(k) \in ACall /\ [k EXCEPT !.step = "priced"] \in ACall
      /\ [NoCall EXCEPT !.step = "up"] \in ACall
      /\ [NoCall EXCEPT !.step = "up", !.epoch = gov.epoch] \in ACall
  BY <1>1, <1>2, Firsts DEF Denied, ACall
<1>6. k.step \in {"gate", "priced", "up"} /\ UNCHANGED <<point, work, up, deaths, history>> /\ stray' = stray
  BY DEF Gate, Reserve
<1>7. gov' \in Governor
  BY <1>1, <1>4 DEF Gate, Reserve
<1>8. \E c \in ACall : Calls(p, r, a, c)
  BY <1>5 DEF Gate, Reserve
<1>9. UNCHANGED <<row, eng>> \/ \E m \in Counts : Save(p, r, Counted(e, m))
  BY <1>3 DEF Gate, Reserve
<1> QED  BY <1>1, <1>6, <1>7, <1>8, <1>9 DEF CallMoves

\* So is the answer of a call, also to a run that has ended.
LEMMA SettleMoves ==
    ASSUME PairInv, NEW p \in Proc, NEW r \in Run, NEW a \in Agent, Settle(p, r, a)
    PROVE  CallMoves(p, r, a)
<1> DEFINE e == eng[p][r]
           n == e.rec.counters
           k == call[p][r][a]
<1>1. n \in Counts /\ k \in ACall /\ gov \in Governor /\ stray \in [Run -> BOOLEAN]
  BY Typed DEF PairInv, Shape
<1>2. [n EXCEPT !.errs = 0] \in Counts /\ [n EXCEPT !.errs = n.errs + 1] \in Counts
  BY <1>1 DEF Counts
<1>3. /\ \A o \in {"pass", "changes"} : [NoCall EXCEPT !.step = "done", !.out = o] \in ACall
      /\ \A o \in {"denied", "exited"} : [NoCall EXCEPT !.step = "failed", !.out = o] \in ACall
  BY Firsts DEF ACall
<1>4. k.step = "up" /\ UNCHANGED <<point, work, gov, up, deaths, history>>
  BY DEF Settle
<1>5. stray' \in [Run -> BOOLEAN]
  <2> DEFINE x == stray[r] \/ (a \in Writer /\ survives(k.child))
  <2>1. stray' = [stray EXCEPT ![r] = x]
    BY DEF Settle
  <2>2. x \in BOOLEAN
    OBVIOUS
  <2> HIDE DEF x
  <2> QED  BY <1>1, <2>1, <2>2
<1>6. \E c \in ACall : Calls(p, r, a, c)
  BY <1>3 DEF Settle
<1>7. UNCHANGED <<row, eng>> \/ Save(p, r, e) \/ \E m \in Counts : Save(p, r, Counted(e, m))
  BY <1>2 DEF Settle
<1> QED  BY <1>1, <1>4, <1>5, <1>6, <1>7 DEF CallMoves

\* So are the steps of the child.
LEMMA ChildMoves ==
    ASSUME PairInv, NEW p \in Proc, NEW r \in Run, NEW a \in Agent,
           \/ TimesOut(p, r, a) \/ Abort(p, r, a) \/ Kill(p, r, a)
           \/ Closes(p, r, a) \/ GroupEnds(p, r, a)
    PROVE  CallMoves(p, r, a)
<1> DEFINE k == call[p][r][a]
<1>1. k \in ACall /\ gov \in Governor /\ stray \in [Run -> BOOLEAN]
  BY Typed DEF PairInv, Shape
<1>2. k.child \in Child
  BY <1>1 DEF ACall
<1>3. /\ terminate(k.child) \subseteq Child /\ force(k.child) \subseteq Child
      /\ closes(k.child) \subseteq Child /\ groupEnds(k.child) \subseteq Child
  BY <1>2 DEF terminate, force, closes, groupEnds, Child
<1>4. /\ k.step = "up" /\ UNCHANGED <<row, eng, point, work, stray, gov, up, deaths, history>>
      /\ \E d \in Child : Calls(p, r, a, [k EXCEPT !.child = d])
  BY <1>3 DEF TimesOut, Abort, Kill, Closes, GroupEnds, ChildStep
<1>5. \A d \in Child : [k EXCEPT !.child = d] \in ACall
  BY <1>1 DEF ACall
<1>6. \E c \in ACall : Calls(p, r, a, c)
  BY <1>4, <1>5
<1> QED  BY <1>1, <1>4, <1>6 DEF CallMoves

-----------------------------------------------------------------------------
(* A run starts, goes from phase to phase, and ends.                       *)

\* The calls of a run stay or begin anew; those of other runs stay.
CallsTurn(p, r) ==
    /\ call' \in [Proc -> [Run -> [Agent -> ACall]]]
    /\ \A q \in Proc, s \in Run : q # p \/ s # r => call'[q][s] = call[q][s]

\* Calls that stay or begin anew, whichever agents are asked.
LEMMA Turned ==
    ASSUME Shape, NEW p \in Proc, NEW r \in Run,
           call' = call \/ \E agents \in SUBSET Agent : Start(p, r, agents)
    PROVE  CallsTurn(p, r)
<1>1. CASE call' = call
  BY <1>1 DEF CallsTurn, Shape
<1>2. ASSUME NEW agents \in SUBSET Agent, Start(p, r, agents) PROVE CallsTurn(p, r)
  BY <1>2, StartIs DEF CallsTurn
<1> QED  BY <1>1, <1>2

\* What a step does that changes one engine, its row and its calls.
LEMMA EngineEffect ==
    ASSUME PairInv, NEW p \in Proc, NEW r \in Run, NEW f \in Engine,
           CallsTurn(p, r), point' \in [Run -> Points],
           UNCHANGED <<work, stray, gov, up, deaths>>, Noted(r),
           PairOK(f, call'[p][r], work[r]),
           \/ /\ Save(p, r, f) /\ ~Away(eng[p][r]) /\ ~Away(f)
              /\ eng[p][r].phase # "ended"
           \/ /\ Put(p, r, f) /\ row' = row
              /\ ~Away(f) => ~Away(eng[p][r]) /\ f.rec = eng[p][r].rec
              /\ Works(eng[p][r]) => Works(f)
           \/ /\ Save(p, r, f) /\ Away(eng[p][r]) /\ Works(f)
              /\ \/ row[r].status = "none"
                 \/ row[r].status = "failed" /\ row[r].code = "interrupted"
              /\ r \notin shared' => \A q \in Proc \ {p} : ~Works(eng[q][r])
    PROVE  Effect(p, r)
<1>1. Shape /\ work' = work /\ up' = up /\ \A s \in Run : work[s] \in Nat
  BY DEF PairInv, Shape
<1>2. /\ eng' \in [Proc -> [Run -> Engine]] /\ eng'[p][r] = f
      /\ \A q \in Proc, s \in Run : q # p \/ s # r => eng'[q][s] = eng[q][s]
  BY <1>1, PutIs DEF Save
<1>3. row' \in [Run -> Record] /\ \A s \in Run : s # r => row'[s] = row[s]
  BY <1>1, SaveIs DEF Shape
<1>4. Shape'
  BY <1>1, <1>2, <1>3, ShapeNext DEF CallsTurn, Shape
<1>5. Alone(p, r)
  BY <1>1, <1>2, <1>3 DEF Alone, CallsTurn
<1>6. Left(p, r) \/ Saved(p, r) \/ Begun(p, r)
  <2>0. Save(p, r, f) => row'[r] = f.rec
    BY <1>1, SaveIs
  <2>1. CASE /\ Save(p, r, f) /\ ~Away(eng[p][r]) /\ ~Away(f)
             /\ eng[p][r].phase # "ended"
    BY <1>2, <2>0, <2>1 DEF Saved
  <2>2. CASE /\ Put(p, r, f) /\ row' = row
             /\ ~Away(f) => ~Away(eng[p][r]) /\ f.rec = eng[p][r].rec
             /\ Works(eng[p][r]) => Works(f)
    BY <1>2, <2>2 DEF Left
  <2>3. CASE /\ Save(p, r, f) /\ Away(eng[p][r]) /\ Works(f)
             /\ \/ row[r].status = "none"
                \/ row[r].status = "failed" /\ row[r].code = "interrupted"
             /\ r \notin shared' => \A q \in Proc \ {p} : ~Works(eng[q][r])
    BY <1>2, <2>0, <2>3 DEF Begun
  <2> QED  BY <2>1, <2>2, <2>3
<1> QED  BY <1>1, <1>2, <1>4, <1>5, <1>6 DEF Effect

\* A run that fails, whatever its calls do.
LEMMA FailEffect ==
    ASSUME PairInv, NEW p \in Proc, NEW r \in Run, Works(eng[p][r]), Fail(p, r),
           CallsTurn(p, r), UNCHANGED <<point, work, stray, gov, up, deaths, history>>
    PROVE  Effect(p, r)
<1> DEFINE e == eng[p][r]
           f == Lost(e)
<1>1. e \in Engine /\ point' \in [Run -> Points]
  BY Typed DEF PairInv, Shape
<1>2. f \in Engine /\ f.phase = "ended" /\ f.rec.status \in {"failed", "cancelled"} /\ f.rec.code = "other"
  BY <1>1, LostIs
<1>3. Save(p, r, f)
  BY DEF Fail
<1> HIDE DEF f
<1>4. PairOK(f, call'[p][r], work[r]) /\ ~Away(f)
  BY <1>2 DEF PairOK, Away, Works, Terminal
<1>5. ~Away(e) /\ e.phase # "ended" /\ Noted(r)
  BY DEF Works, Away, Noted
<1> QED  BY <1>1, <1>2, <1>3, <1>4, <1>5, EngineEffect

\* A run that goes on, with its record as it is.
LEMMA GoEffect ==
    ASSUME PairInv, NEW p \in Proc, NEW r \in Run, NEW f \in Engine,
           Works(eng[p][r]), Works(f), f.rec = eng[p][r].rec, Put(p, r, f), row' = row,
           f.phase \in {"test", "context"} => f.seen <= work[r],
           f.phase = "review" => f.seen <= f.context /\ f.context <= work[r],
           CallsTurn(p, r), point' \in [Run -> Points],
           UNCHANGED <<work, stray, gov, up, deaths, history>>
    PROVE  Effect(p, r)
<1> DEFINE e == eng[p][r]
<1>1. PairOK(e, call[p][r], work[r])
  BY DEF PairInv, Pairs
<1>2. ~Away(e) /\ ~Away(f) /\ f.phase # "ended"
  BY DEF Works, Away
<1>3. e.rec.status \in {"running", "paused"} /\ e.rec.code = "none"
  BY <1>1 DEF PairOK
<1>4. PairOK(f, call'[p][r], work[r]) /\ Noted(r)
  BY <1>2, <1>3 DEF PairOK, Noted
<1> QED  BY <1>2, <1>4, EngineEffect

\* A run that is admitted has no record yet.
LEMMA AdmitEffect ==
    ASSUME PairInv, NEW p \in Proc, NEW r \in Run, Admit(p, r)
    PROVE  Effect(p, r)
<1> DEFINE f == [NoRun EXCEPT !.phase = "admitted", !.epoch = gov.epoch]
           d == [a \in Agent |-> NoCall]
<1>1. Shape /\ gov.epoch \in Nat
  BY DEF PairInv, Shape, Governor
<1>2. f \in Engine /\ f.phase = "admitted" /\ f.rec = NoRow
  BY <1>1, Firsts DEF Engine, Phase
<1>3. /\ Put(p, r, f) /\ call' = [call EXCEPT ![p][r] = d]
      /\ eng[p][r].phase \in {"idle", "ended"}
      /\ row' = row /\ point' = point /\ UNCHANGED <<work, stray, gov, up, deaths, history>>
  BY DEF Admit
<1>4. d \in [Agent -> ACall] /\ \A a \in Agent : d[a] = NoCall
  BY Firsts
<1> HIDE DEF d, f
<1>5. CallsTurn(p, r) /\ call'[p][r] = d
  BY <1>1, <1>3, <1>4 DEF CallsTurn, Shape
<1>6. PairOK(f, call'[p][r], work[r])
  BY <1>2, <1>4, <1>5, Firsts DEF PairOK, NoRow, Away, Works
<1>7. Away(f) /\ ~Works(eng[p][r]) /\ point' \in [Run -> Points] /\ Noted(r)
  BY <1>1, <1>2, <1>3 DEF Away, Works, Shape, Noted
<1> QED  BY <1>2, <1>3, <1>5, <1>6, <1>7, EngineEffect

\* A run is registered with a new row or over the row of an interrupted one,
\* or refused.
LEMMA RegisterEffect ==
    ASSUME PairInv, NEW p \in Proc, NEW r \in Run, Register(p, r)
    PROVE  Effect(p, r)
<1> DEFINE e == eng[p][r]
           restoring == row[r].status # "none"
           k == [status |-> "running", code |-> "none",
                 counters |-> IF restoring THEN point[r].counters ELSE Zero]
           n == IF restoring THEN point[r].round ELSE 0
           f == [e EXCEPT !.phase = "plan", !.skip = restoring, !.restored = n, !.rec = k]
<1>1. /\ Shape /\ e \in Engine /\ e.phase = "admitted" /\ point[r] \in Points
      /\ PairOK(e, call[p][r], work[r]) /\ Away(e) /\ ~Works(e)
  BY Typed DEF PairInv, Pairs, Register, In, Away, Works
<1>2. k \in Record /\ k.status = "running" /\ k.code = "none" /\ n \in Nat
  BY <1>1, Firsts DEF Record, Points, Live
<1>3. point' = point /\ point' \in [Run -> Points] /\ UNCHANGED <<work, stray, gov, up, deaths>>
  BY <1>1 DEF Register, Shape
<1>7. Noted(r)
  BY DEF Register, Noted
<1>4. CASE /\ (restoring => Restorable(r)) /\ Save(p, r, f) /\ Start(p, r, {"planner"})
           /\ r \notin shared' => \A q \in Proc \ {p} : ~Works(eng[q][r])
  <2>0. {"planner"} \subseteq Agent
    BY DEF Agent
  <2>1. CallsTurn(p, r)
    BY <1>1, <1>4, <2>0, Turned
  <2>2. Save(p, r, f) /\ restoring \in BOOLEAN
    BY <1>4
  <2>3. row[r].status = "none" \/ (row[r].status = "failed" /\ row[r].code = "interrupted")
    BY <1>4 DEF Restorable
  <2> HIDE DEF restoring, n, k
  <2>4. f \in Engine /\ f.phase = "plan" /\ f.rec = k
    BY <1>1, <1>2, <2>2 DEF Engine, Phase
  <2> HIDE DEF f
  <2>5. PairOK(f, call'[p][r], work[r]) /\ Works(f)
    BY <1>2, <2>4 DEF PairOK, Works, Away
  <2> QED  BY <1>1, <1>3, <1>7, <1>4, <2>1, <2>2, <2>3, <2>5, <2>4, EngineEffect
<1>5. CASE Put(p, r, NoRun) /\ UNCHANGED <<row, call>>
  <2>1. CallsTurn(p, r)
    BY <1>1, <1>5, Turned
  <2>2. Away(NoRun) /\ NoRun.rec.status = "none"
    BY Firsts DEF Away, NoRow
  <2>3. PairOK(NoRun, call'[p][r], work[r])
    BY <1>1, <1>5, <2>2, Firsts DEF PairOK, Works, Away
  <2> QED  BY <1>1, <1>3, <1>7, <1>5, <2>1, <2>2, <2>3, Firsts, EngineEffect
<1>6. \/ /\ (restoring => Restorable(r)) /\ Save(p, r, f) /\ Start(p, r, {"planner"})
         /\ r \notin shared' => \A q \in Proc \ {p} : ~Works(eng[q][r])
      \/ Put(p, r, NoRun) /\ UNCHANGED <<row, call>>
  BY DEF Register, Executing, Works
<1> QED  BY <1>4, <1>5, <1>6

\* The steps of a run between its registration and its end.
LEMMA WorkEffect ==
    ASSUME PairInv, NEW p \in Proc, NEW r \in Run,
           \/ Planned(p, r) \/ Round(p, r) \/ Written(p, r) \/ WriteFails(p, r)
           \/ Inspect(p, r) \/ Tested(p, r) \/ ReviewFails(p, r)
    PROVE  Effect(p, r)
<1> DEFINE e == eng[p][r]
           n == e.rec.counters
           Go(f) == Put(p, r, f) /\ row' = row
<1>1. /\ Shape /\ e \in Engine /\ e.rec \in Record /\ n \in Counts
      /\ point[r] \in Points /\ work[r] \in Nat /\ PairOK(e, call[p][r], work[r])
  BY Typed DEF PairInv, Pairs
<1>2. e.phase \in {"plan", "loop", "write", "inspect", "test", "review"} /\ Works(e)
  BY DEF Planned, Round, Written, WriteFails, Inspect, Tested, ReviewFails, In, Works
<1>3. point' \in [Run -> Points]
  <2>1. CASE point' = point
    BY <1>1, <2>1 DEF Shape
  <2>2. CASE point' = [point EXCEPT ![r] = [round |-> n.rounds, work |-> work[r],
                                            counters |-> n]]
    <3>1. [round |-> n.rounds, work |-> work[r], counters |-> n] \in Points
      BY <1>1 DEF Points, Counts
    <3> QED  BY <1>1, <2>2, <3>1 DEF Shape
  <2> QED  BY <2>1, <2>2 DEF Planned, Round, Written, WriteFails, Inspect, Tested, ReviewFails
<1>4. CallsTurn(p, r)
  <2>1. {} \in SUBSET Agent /\ {"writer"} \in SUBSET Agent
        /\ Optional \cap {"tester"} \in SUBSET Agent
    BY DEF Agent
  <2>2. call' = call \/ \E agents \in SUBSET Agent : Start(p, r, agents)
    BY <2>1 DEF Planned, Round, Written, WriteFails, Inspect, Tested, ReviewFails
  <2> QED  BY <1>1, <2>2, Turned
<1>5. UNCHANGED <<work, stray, gov, up, deaths, history>> /\ Noted(r)
  BY DEF Planned, Round, Written, WriteFails, Inspect, Tested, ReviewFails, Noted
<1>6. CASE Fail(p, r) /\ point' = point
  BY <1>2, <1>4, <1>5, <1>6, FailEffect
<1>7. ASSUME NEW ph \in {"loop", "inspect", "context"}, Go([e EXCEPT !.phase = ph]),
             ph = "context" => work[r] = e.seen
      PROVE  Effect(p, r)
  <2> DEFINE f == [e EXCEPT !.phase = ph]
  <2>1. /\ f \in Engine /\ f.phase = ph /\ f.rec = e.rec /\ f.seen = e.seen
        /\ f.context = e.context
    BY <1>1, <1>7 DEF Engine, Phase
  <2>2. Put(p, r, f) /\ row' = row
    BY <1>7
  <2> HIDE DEF f
  <2>3. Works(f)
    BY <2>1 DEF Works
  <2>4. f.phase \in {"test", "context"} => f.seen <= work[r]
    BY <1>1, <1>7, <2>1
  <2>5. f.phase = "review" => f.seen <= f.context /\ f.context <= work[r]
    BY <2>1
  <2> QED  BY <1>2, <1>3, <1>4, <1>5, <2>1, <2>2, <2>3, <2>4, <2>5, GoEffect
<1>8. ASSUME NEW m \in Counts, Save(p, r, Counted([e EXCEPT !.phase = "write"], m))
      PROVE  Effect(p, r)
  <2> DEFINE g == [e EXCEPT !.phase = "write"]
             f == Counted(g, m)
  <2>1. g \in Engine /\ g.phase = "write" /\ g.rec = e.rec
    BY <1>1 DEF Engine, Phase
  <2>2. Save(p, r, f)
    BY <1>8
  <2> HIDE DEF g
  <2>3. f \in Engine /\ Same(g, f)
    BY <2>1, Counting
  <2> HIDE DEF f
  <2>4. PairOK(f, call'[p][r], work[r]) /\ ~Away(f)
    BY <1>1, <1>2, <2>1, <2>3 DEF PairOK, Same, Away, Works
  <2>5. ~Away(e) /\ e.phase # "ended"
    BY <1>2 DEF Away, Works
  <2> QED  BY <1>3, <1>4, <1>5, <2>2, <2>3, <2>4, <2>5, EngineEffect
<1>9. CASE Planned(p, r) \/ Written(p, r) \/ WriteFails(p, r) \/ ReviewFails(p, r)
  BY <1>6, <1>7, <1>9 DEF Planned, Written, WriteFails, ReviewFails
<1>10. CASE Tested(p, r)
  <2>1. CASE Fail(p, r)
    BY <1>6, <1>10, <2>1 DEF Tested
  <2>2. CASE work[r] = e.seen /\ Go([e EXCEPT !.phase = "context"])
    BY <1>7, <2>2
  <2>3. CASE Go([e EXCEPT !.phase = "loop"])
    BY <1>7, <2>3
  <2> QED  BY <1>10, <2>1, <2>2, <2>3 DEF Tested
<1>11. CASE Round(p, r)
  <2>1. CASE Fail(p, r)
    BY <1>6, <1>11, <2>1 DEF Round
  <2>2. CASE Go([e EXCEPT !.phase = "inspect"])
    BY <1>7, <2>2
  <2>3. CASE Save(p, r, Counted([e EXCEPT !.phase = "write"],
                                [n EXCEPT !.rounds = n.rounds + 1]))
    <3>1. [n EXCEPT !.rounds = n.rounds + 1] \in Counts
      BY <1>1 DEF Counts
    <3> QED  BY <1>8, <2>3, <3>1
  <2> QED  BY <1>11, <2>1, <2>2, <2>3 DEF Round
<1>12. CASE Inspect(p, r)
  <2>1. CASE Fail(p, r) /\ point' = point
    BY <1>6, <2>1
  <2> DEFINE ph == IF "tester" \in Optional THEN "test" ELSE "context"
             st == IF ~e.skip /\ e.last = work[r] THEN 1 ELSE IF e.skip THEN e.stalled ELSE 0
             f == [e EXCEPT !.phase = ph, !.skip = FALSE, !.seen = work[r],
                            !.last = work[r], !.stalled = st]
  <2>2. CASE Put(p, r, f) /\ row' = row
    <3>1. ph \in {"test", "context"} /\ st \in Nat
      BY <1>1 DEF Engine
    <3>2. Put(p, r, f) /\ row' = row
      BY <2>2
    <3> HIDE DEF ph, st
    <3>3. f \in Engine /\ f.phase = ph /\ f.rec = e.rec /\ f.seen = work[r]
      BY <1>1, <3>1 DEF Engine, Phase
    <3> HIDE DEF f
    <3>4. Works(f)
      BY <3>1, <3>3 DEF Works
    <3>5. f.phase \in {"test", "context"} => f.seen <= work[r]
      BY <1>1, <3>3
    <3>6. f.phase = "review" => f.seen <= f.context /\ f.context <= work[r]
      BY <3>1, <3>3
    <3> QED  BY <1>2, <1>3, <1>4, <1>5, <3>2, <3>3, <3>4, <3>5, <3>6, GoEffect
  <2>3. (Fail(p, r) /\ point' = point) \/ (Put(p, r, f) /\ row' = row)
    BY <1>12 DEF Inspect
  <2> QED  BY <2>1, <2>2, <2>3
<1> QED  BY <1>9, <1>10, <1>11, <1>12

\* The context of the reviewers is the workspace of now, which is at least as
\* new as what the round left.
LEMMA ContextEffect ==
    ASSUME PairInv, NEW p \in Proc, NEW r \in Run, ReviewContext(p, r)
    PROVE  Effect(p, r)
<1> DEFINE e == eng[p][r]
           f == [e EXCEPT !.phase = "review", !.context = work[r]]
<1>1. /\ Shape /\ e \in Engine /\ e.phase = "context" /\ work[r] \in Nat
      /\ PairOK(e, call[p][r], work[r])
  BY Typed DEF PairInv, Pairs, ReviewContext, In
<1>2. f \in Engine /\ f.phase = "review" /\ f.rec = e.rec /\ f.seen = e.seen /\ f.context = work[r]
  BY <1>1 DEF Engine, Phase
<1>3. /\ Put(p, r, f) /\ row' = row /\ Start(p, r, Reviewer)
      /\ point' = point /\ UNCHANGED <<work, stray, gov, up, deaths, history>>
  BY DEF ReviewContext
<1> HIDE DEF f
<1>4. Reviewer \in SUBSET Agent /\ point' \in [Run -> Points]
  BY <1>1, <1>3 DEF Agent, Shape
<1>5. CallsTurn(p, r)
  BY <1>1, <1>3, <1>4, Turned
<1>6. Works(e) /\ Works(f)
  BY <1>1, <1>2 DEF Works
<1>7. /\ f.phase \in {"test", "context"} => f.seen <= work[r]
      /\ f.phase = "review" => f.seen <= f.context /\ f.context <= work[r]
  BY <1>1, <1>2 DEF PairOK
<1> QED  BY <1>2, <1>3, <1>4, <1>5, <1>6, <1>7, GoEffect

\* Nothing wrote to the workspace since the round left it, so what the
\* reviewers passed is what is completed.
LEMMA ReviewedEffect ==
    ASSUME PairInv, NEW p \in Proc, NEW r \in Run, Reviewed(p, r)
    PROVE  Effect(p, r)
<1> DEFINE e == eng[p][r]
           f == [e EXCEPT !.phase = "ended", !.rec.status = "completed"]
           g == [e EXCEPT !.phase = "loop"]
<1>1. /\ Shape /\ e \in Engine /\ e.rec \in Record /\ e.phase = "review" /\ work[r] \in Nat
      /\ PairOK(e, call[p][r], work[r]) /\ Works(e) /\ ~Away(e)
  BY Typed DEF PairInv, Pairs, Reviewed, In, Works, Away
<1>2. /\ point' \in [Run -> Points] /\ point' = point /\ Noted(r)
      /\ UNCHANGED <<work, stray, gov, up, deaths, history>>
  BY <1>1 DEF Reviewed, Shape, Noted
<1>3. CASE Fail(p, r) /\ call' = call
  <2>1. CallsTurn(p, r)
    BY <1>1, <1>3, Turned
  <2> QED  BY <1>1, <1>2, <1>3, <2>1, FailEffect
<1>4. CASE /\ work[r] = e.seen /\ Save(p, r, f) /\ call' = call
           /\ \A a \in Reviewer : call[p][r][a].step = "done" /\ call[p][r][a].out = "pass"
  <2>1. CallsTurn(p, r)
    BY <1>1, <1>4, Turned
  <2>2. /\ f \in Engine /\ f.phase = "ended" /\ f.rec.status = "completed"
        /\ f.rec.code = e.rec.code /\ f.seen = e.seen /\ f.context = e.context
    BY <1>1 DEF Engine, Record, Phase, Terminal
  <2>3. Save(p, r, f)
    BY <1>4
  <2> HIDE DEF f
  <2>4. e.context = e.seen /\ e.rec.code = "none"
    <3>1. e.seen <= e.context /\ e.context <= work[r] /\ e.seen \in Nat /\ e.context \in Nat
      BY <1>1 DEF PairOK, Engine
    <3> QED  BY <1>1, <1>4, <3>1 DEF PairOK
  <2>5. PairOK(f, call'[p][r], work[r]) /\ ~Away(f)
    BY <1>4, <2>2, <2>4 DEF PairOK, Away, Works, Terminal
  <2> QED  BY <1>1, <1>2, <2>1, <2>2, <2>3, <2>5, EngineEffect
<1>5. CASE Put(p, r, g) /\ row' = row /\ Start(p, r, {})
  <2>1. CallsTurn(p, r)
    BY <1>1, <1>5, Turned
  <2>2. g \in Engine /\ g.phase = "loop" /\ g.rec = e.rec
    BY <1>1 DEF Engine, Phase
  <2>3. Put(p, r, g) /\ row' = row
    BY <1>5
  <2> HIDE DEF g
  <2>4. Works(g)
    BY <2>2 DEF Works
  <2>5. /\ g.phase \in {"test", "context"} => g.seen <= work[r]
        /\ g.phase = "review" => g.seen <= g.context /\ g.context <= work[r]
    BY <2>2
  <2> QED  BY <1>1, <1>2, <2>1, <2>2, <2>3, <2>4, <2>5, GoEffect
<1> QED  BY <1>3, <1>4, <1>5 DEF Reviewed

\* The call of the fallback begins; the record stays as it is.
LEMMA FallbackEffect ==
    ASSUME PairInv, NEW p \in Proc, NEW r \in Run, FallbackEngaged(p, r)
    PROVE  Effect(p, r)
<1> DEFINE e == eng[p][r]
<1>1. Shape /\ e \in Engine /\ e.phase = "write" /\ Works(e)
  BY Typed DEF PairInv, FallbackEngaged, In, Works
<1>2. /\ eng' = eng /\ row' = row /\ UNCHANGED <<work, stray, gov, up, deaths, history>>
      /\ Calls(p, r, "fallback", AtGate) /\ "fallback" \in Agent /\ point' \in [Run -> Points]
  BY <1>1 DEF FallbackEngaged, Agent, Shape
<1>3. CallsTurn(p, r)
  BY <1>1, <1>2, CallsIs, Firsts DEF CallsTurn
<1>4. Put(p, r, e)
  BY <1>1, <1>2 DEF Put, Shape
<1> QED  BY <1>1, <1>2, <1>3, <1>4, GoEffect

\* A pause, a resume, a cancel and the deadline reach a run that works.
LEMMA OutsideEffect ==
    ASSUME PairInv, NEW p \in Proc, NEW r \in Run,
           pause(p, r) \/ resume(p, r) \/ cancel(p, r) \/ Deadline(p, r)
    PROVE  Effect(p, r)
<1> DEFINE e == eng[p][r]
<1>1. /\ Shape /\ e \in Engine /\ e.rec \in Record /\ work[r] \in Nat
      /\ PairOK(e, call[p][r], work[r]) /\ Works(e) /\ ~Away(e) /\ e.phase # "ended"
  BY Typed DEF PairInv, Pairs, pause, resume, cancel, Deadline, Executing, Works, Away
<1>2. /\ point' \in [Run -> Points] /\ UNCHANGED <<work, stray, gov, up, deaths, history>>
      /\ call' = call /\ Noted(r)
  BY <1>1 DEF pause, resume, cancel, Deadline, Shape, Noted
<1>3. CallsTurn(p, r)
  BY <1>1, <1>2, Turned
<1>4. ASSUME NEW b \in BOOLEAN, NEW st \in {"running", "paused"},
             Save(p, r, [e EXCEPT !.paused = b, !.rec.status = st])
      PROVE  Effect(p, r)
  <2> DEFINE f == [e EXCEPT !.paused = b, !.rec.status = st]
  <2>1. /\ f \in Engine /\ f.phase = e.phase /\ f.rec.status = st
        /\ f.rec.code = e.rec.code /\ f.seen = e.seen /\ f.context = e.context
    BY <1>1 DEF Engine, Record, Live
  <2>2. Save(p, r, f)
    BY <1>4
  <2> HIDE DEF f
  <2>3. PairOK(f, call'[p][r], work[r]) /\ ~Away(f)
    BY <1>1, <1>2, <2>1 DEF PairOK, Works, Away
  <2> QED  BY <1>1, <1>2, <1>3, <2>1, <2>2, <2>3, EngineEffect
<1>5. ASSUME NEW f \in Engine, Put(p, r, f), row' = row, f.phase = e.phase, f.rec = e.rec,
             f.seen = e.seen, f.context = e.context
      PROVE  Effect(p, r)
  <2>1. Works(f)
    BY <1>1, <1>5 DEF Works
  <2>2. /\ f.phase \in {"test", "context"} => f.seen <= work[r]
        /\ f.phase = "review" => f.seen <= f.context /\ f.context <= work[r]
    BY <1>1, <1>5 DEF PairOK
  <2> QED  BY <1>1, <1>2, <1>3, <1>5, <2>1, <2>2, GoEffect
<1>6. CASE cancel(p, r)
  <2> DEFINE f == [e EXCEPT !.stop = "cancelled"]
  <2>1. /\ f \in Engine /\ f.phase = e.phase /\ f.rec = e.rec
        /\ f.seen = e.seen /\ f.context = e.context
    BY <1>1 DEF Engine
  <2>2. Put(p, r, f) /\ row' = row
    BY <1>6 DEF cancel
  <2> HIDE DEF f
  <2> QED  BY <1>5, <2>1, <2>2
<1>7. CASE Deadline(p, r)
  <2> DEFINE f == [e EXCEPT !.stop = "timeout", !.due = TRUE]
  <2>1. /\ f \in Engine /\ f.phase = e.phase /\ f.rec = e.rec
        /\ f.seen = e.seen /\ f.context = e.context
    BY <1>1 DEF Engine
  <2>2. Put(p, r, f) /\ row' = row
    BY <1>7 DEF Deadline
  <2> HIDE DEF f
  <2> QED  BY <1>5, <2>1, <2>2
<1>8. CASE pause(p, r)
  BY <1>4, <1>8 DEF pause
<1>9. CASE resume(p, r)
  BY <1>4, <1>9 DEF resume
<1> QED  BY <1>6, <1>7, <1>8, <1>9

\* Every step of a process at a run.
LEMMA RunEffect ==
    ASSUME PairInv, NEW p \in Proc, NEW r \in Run,
           \/ Admit(p, r) \/ Work(p, r) \/ pause(p, r) \/ resume(p, r)
           \/ cancel(p, r) \/ Deadline(p, r)
    PROVE  Effect(p, r)
  BY AdmitEffect, RegisterEffect, WorkEffect, FallbackEffect, ContextEffect,
     ReviewedEffect, OutsideEffect DEF Work

\* Every step of a call but the writing.
LEMMA CallSteppedEffect ==
    ASSUME PairInv, NEW p \in Proc, NEW r \in Run, NEW a \in Agent,
           CallSteps(p, r, a) \/ Provider(p, r, a), ~Writes(p, r, a)
    PROVE  Effect(p, r)
<1>1. CallMoves(p, r, a)
  BY GateMoves, SettleMoves, ChildMoves DEF CallSteps, Provider
<1> QED  BY <1>1, CallEffect

-----------------------------------------------------------------------------
(* The steps that are not of one process at one run.                       *)

\* Workspaces that grow, stray writers, the window, and the stop flags of the
\* emergency stop: neither the store nor the phases change.
Quiet ==
    /\ Shape' /\ row' = row /\ call' = call /\ UNCHANGED history
    /\ \A r \in Run : work[r] <= work'[r]
    /\ \A p \in Proc, r \in Run :
          /\ eng'[p][r].phase = eng[p][r].phase /\ eng'[p][r].rec = eng[p][r].rec
          /\ eng'[p][r].seen = eng[p][r].seen /\ eng'[p][r].context = eng[p][r].context

\* Such a step leaves every pair fitting, and every row where it was.
LEMMA QuietStep ==
    ASSUME PairInv, Quiet
    PROVE  PairInv' /\ (Rows => Rows')
<1>1. ASSUME NEW p \in Proc, NEW r \in Run
      PROVE  PairOK(eng'[p][r], call'[p][r], work'[r])
  <2>1. /\ eng[p][r] \in Engine /\ work[r] \in Nat /\ work'[r] \in Nat /\ work[r] <= work'[r]
        /\ PairOK(eng[p][r], call[p][r], work[r]) /\ call'[p][r] = call[p][r]
    BY DEF PairInv, Shape, Pairs, Quiet
  <2>2. PairOK(eng[p][r], call'[p][r], work'[r])
    BY <2>1, PairGrows
  <2> QED  BY <2>2 DEF Quiet, PairOK, Away, Works
<1>2. PairInv'
  BY <1>1 DEF PairInv, Pairs, Quiet
<1>3. ASSUME Rows PROVE Rows'
  BY <1>3 DEF Rows, Quiet, Away, Works
<1> QED  BY <1>2, <1>3

\* Which steps are of this kind.
LEMMA QuietSteps ==
    ASSUME PairInv,
           \/ \E p \in Proc, r \in Run, a \in Agent : Writes(p, r, a)
           \/ \E r \in Run : StrayWrites(r) \/ StrayEnds(r)
           \/ Window
           \/ \E p \in Proc : StopAll(p)
    PROVE  Quiet
<1>1. Shape
  BY DEF PairInv
<1>2. \A r \in Run : work[r] \in Nat
  BY <1>1 DEF Shape
<1>3. ASSUME NEW r \in Run, work' = [work EXCEPT ![r] = @ + 1],
             UNCHANGED <<row, point, eng, call, stray, gov, up, deaths, history>>
      PROVE  Quiet
  <2>1. work' \in [Run -> Nat] /\ \A s \in Run : work[s] <= work'[s]
    BY <1>1, <1>2, <1>3 DEF Shape
  <2>2. Shape'
    BY <1>1, <1>3, <2>1, ShapeNext DEF Shape
  <2> QED  BY <1>3, <2>1, <2>2 DEF Quiet
<1>4. ASSUME NEW r \in Run, StrayEnds(r)
      PROVE  Quiet
  <2>1. stray' \in [Run -> BOOLEAN]
    BY <1>1, <1>4 DEF Shape, StrayEnds
  <2>2. Shape'
    BY <1>1, <1>4, <2>1, ShapeNext DEF Shape, StrayEnds
  <2> QED  BY <1>2, <1>4, <2>2 DEF Quiet, StrayEnds
<1>5. CASE Window
  <2>1. gov' \in Governor
    BY <1>1, <1>5 DEF Shape, Window, Governor
  <2>2. Shape'
    BY <1>1, <1>5, <2>1, ShapeNext DEF Shape, Window
  <2> QED  BY <1>2, <1>5, <2>2 DEF Quiet, Window
<1>6. ASSUME NEW p \in Proc, StopAll(p)
      PROVE  Quiet
  <2>1. gov' \in Governor
    <3>1. gov \in Governor /\ gov' = [gov EXCEPT !.epoch = @ + 1]
      BY <1>1, <1>6 DEF Shape, StopAll
    <3> QED  BY <3>1 DEF Governor
  <2> DEFINE f == [r \in Run |-> IF Executing(p, r) THEN [eng[p][r] EXCEPT !.stop = "cancelled"]
                                 ELSE eng[p][r]]
  <2>2. ASSUME NEW r \in Run
        PROVE  /\ f[r] \in Engine /\ f[r].phase = eng[p][r].phase /\ f[r].rec = eng[p][r].rec
               /\ f[r].seen = eng[p][r].seen /\ f[r].context = eng[p][r].context
    <3>1. eng[p][r] \in Engine
      BY <1>1 DEF Shape
    <3> QED  BY <3>1 DEF Engine
  <2>3. f \in [Run -> Engine]
    BY <2>2
  <2>4. eng' = [eng EXCEPT ![p] = f]
    BY <1>6 DEF StopAll
  <2> HIDE DEF f
  <2>5. /\ eng' \in [Proc -> [Run -> Engine]] /\ eng'[p] = f
        /\ \A q \in Proc \ {p} : eng'[q] = eng[q]
    BY <1>1, <2>3, <2>4 DEF Shape
  <2>6. Shape'
    BY <1>1, <1>6, <2>1, <2>5, ShapeNext DEF Shape, StopAll
  <2>7. \A q \in Proc, r \in Run :
          /\ eng'[q][r].phase = eng[q][r].phase /\ eng'[q][r].rec = eng[q][r].rec
          /\ eng'[q][r].seen = eng[q][r].seen /\ eng'[q][r].context = eng[q][r].context
    BY <2>2, <2>5
  <2> QED  BY <1>2, <1>6, <2>6, <2>7 DEF Quiet, StopAll
<1> QED  BY <1>3, <1>4, <1>5, <1>6 DEF Writes, StrayWrites

\* A process dies with all it has in hand; the rows it leaves wait for an
\* opening.
LEMMA DieStep ==
    ASSUME PairInv, NEW p \in Proc, Die(p)
    PROVE  PairInv' /\ row' = row /\ (Rows => Rows')
<1>1. /\ Shape /\ row' = row /\ UNCHANGED <<point, work, gov, shared>>
      /\ unswept' = unswept \cup {r \in Run : Executing(p, r)}
      /\ up' = [up EXCEPT ![p] = FALSE] /\ deaths' = deaths + 1
      /\ eng' = [eng EXCEPT ![p] = [r \in Run |-> NoRun]]
      /\ call' = [call EXCEPT ![p] = [r \in Run |-> [a \in Agent |-> NoCall]]]
  BY DEF PairInv, Die
<1>2. /\ eng' \in [Proc -> [Run -> Engine]] /\ \A r \in Run : eng'[p][r] = NoRun
      /\ \A q \in Proc \ {p} : eng'[q] = eng[q]
  BY <1>1, Firsts DEF Shape
<1>3. /\ call' \in [Proc -> [Run -> [Agent -> ACall]]]
      /\ \A r \in Run, a \in Agent : call'[p][r][a] = NoCall
      /\ \A q \in Proc \ {p} : call'[q] = call[q]
  BY <1>1, Firsts DEF Shape
<1>4. up' \in [Proc -> BOOLEAN] /\ ~up'[p] /\ deaths' \in Nat /\ work' = work
  BY <1>1 DEF Shape
<1>5. stray' \in [Run -> BOOLEAN]
  <2> DEFINE x(r) == \/ stray[r]
                     \/ \E a \in Writer : /\ call[p][r][a].step = "up"
                                          /\ survives(call[p][r][a].child)
  <2>1. stray' = [r \in Run |-> x(r)]
    BY DEF Die
  <2>2. \A r \in Run : x(r) \in BOOLEAN
    OBVIOUS
  <2> HIDE DEF x
  <2> QED  BY <2>1, <2>2
<1>6. Shape'
  BY <1>1, <1>2, <1>3, <1>4, <1>5, ShapeNext DEF Shape
<1>7. ASSUME NEW q \in Proc, NEW r \in Run
      PROVE  PairOK(eng'[q][r], call'[q][r], work'[r])
  <2>1. CASE q = p
    BY <1>2, <1>3, <2>1, Firsts DEF PairOK, Away, Works, NoRow
  <2>2. CASE q # p
    BY <1>2, <1>3, <1>4, <2>2 DEF PairInv, Pairs
  <2> QED  BY <2>1, <2>2
<1>8. ASSUME Rows PROVE Rows'
  <2>1. \A r \in Run : Away(eng'[p][r]) /\ \A q \in Proc \ {p} : eng'[q][r] = eng[q][r]
    BY <1>2, Firsts DEF Away
  <2>2. \A r \in Run : r \notin unswept' => ~Works(eng[p][r]) /\ r \notin unswept
    BY <1>1 DEF Executing, Works
  <2> QED  BY <1>1, <1>8, <2>1, <2>2 DEF Rows
<1> QED  BY <1>1, <1>6, <1>7, <1>8 DEF PairInv, Pairs

\* A mark is final, and is not unfinished.
LEMMA Marks ==
    ASSUME NEW x \in Record
    PROVE  /\ Marked(x) \in Record /\ Marked(x).status \notin Live
           /\ Marked(Marked(x)) = Marked(x)
           /\ x.status \notin Live => Marked(x) = x
  BY DEF Marked, Record, Live, Terminal

\* An opening takes every unfinished run for interrupted, and the rows of those
\* that are executed become the marks over their records.
LEMMA OpenStep ==
    ASSUME PairInv, NEW p \in Proc, Open(p)
    PROVE  /\ PairInv'
           /\ \A r \in Run : row[r].status \in Terminal => row'[r] = row[r]
           /\ Rows => Rows'
<1>1. /\ Shape /\ UNCHANGED <<point, work, eng, call, stray, gov, deaths, shared>>
      /\ up' = [up EXCEPT ![p] = TRUE] /\ row' = [r \in Run |-> Marked(row[r])]
  BY DEF PairInv, Open, recoverInterruptedRuns
<1>2. \A r \in Run : row[r] \in Record /\ \A q \in Proc : eng[q][r].rec \in Record
  BY <1>1, Typed DEF Shape
<1>3. ASSUME NEW r \in Run
      PROVE  /\ row'[r] = Marked(row[r]) /\ row'[r] \in Record /\ row'[r].status \notin Live
             /\ row[r].status \notin Live => row'[r] = row[r]
  BY <1>1, <1>2, Marks
<1>4. row' \in [Run -> Record] /\ up' \in [Proc -> BOOLEAN]
  BY <1>1, <1>3 DEF Shape
<1>5. Shape'
  BY <1>1, <1>4, ShapeNext DEF Shape
<1>6. PairInv'
  BY <1>1, <1>5 DEF PairInv, Pairs
<1>7. \A r \in Run : row[r].status \in Terminal => row'[r] = row[r]
  BY <1>3 DEF Terminal, Live
<1>8. ASSUME Rows PROVE Rows'
  <2>1. ASSUME NEW r \in Run, r \notin shared, NEW q \in Proc, ~Away(eng[q][r])
        PROVE  /\ row'[r] \in {eng[q][r].rec, Marked(eng[q][r].rec)}
               /\ \A o \in Proc \ {q} : Away(eng[o][r])
    <3>1. /\ row[r] \in {eng[q][r].rec, Marked(eng[q][r].rec)}
          /\ \A o \in Proc \ {q} : Away(eng[o][r])
      BY <1>8, <2>1 DEF Rows
    <3>2. row'[r] = Marked(eng[q][r].rec)
      BY <1>2, <1>3, <3>1, Marks
    <3> QED  BY <3>1, <3>2
  <2> QED  BY <1>1, <1>3, <2>1 DEF Rows
<1> QED  BY <1>6, <1>7, <1>8

-----------------------------------------------------------------------------
(* The whole system.                                                       *)

\* Every step is of one of these kinds.
LEMMA Kinds ==
    ASSUME PairInv, [Next]_vars
    PROVE  \/ \E p \in Proc, r \in Run : Effect(p, r)
           \/ Quiet
           \/ \E p \in Proc : Die(p) \/ Open(p)
<1>1. CASE UNCHANGED vars
  <2>1. Shape
    BY DEF PairInv
  <2>2. Shape' /\ \A r \in Run : work[r] <= work'[r]
    BY <1>1, <2>1, ShapeNext DEF vars, Shape
  <2> QED  BY <1>1, <2>2 DEF Quiet, vars
<1>2. CASE \E p \in Proc, r \in Run, a \in Agent : CallSteps(p, r, a) \/ Provider(p, r, a)
  BY <1>2, CallSteppedEffect, QuietSteps
<1>3. CASE \E p \in Proc, r \in Run :
              \/ Admit(p, r) \/ Work(p, r) \/ pause(p, r) \/ resume(p, r)
              \/ cancel(p, r) \/ Deadline(p, r)
  BY <1>3, RunEffect
<1>4. CASE \/ \E r \in Run : StrayWrites(r) \/ StrayEnds(r)
           \/ Window
           \/ \E p \in Proc : StopAll(p)
  BY <1>4, QuietSteps
<1> QED  BY <1>1, <1>2, <1>3, <1>4 DEF Next

\* Nobody has a run in hand at first.
LEMMA PairInit == Init => PairInv
<1> SUFFICES ASSUME Init PROVE PairInv
  OBVIOUS
<1> USE DEF Init
<1>1. row \in [Run -> Record] /\ point \in [Run -> Points] /\ work \in [Run -> Nat]
  BY Firsts
<1>2. eng \in [Proc -> [Run -> Engine]] /\ call \in [Proc -> [Run -> [Agent -> ACall]]]
  BY Firsts
<1>3. stray \in [Run -> BOOLEAN] /\ gov \in Governor /\ up \in [Proc -> BOOLEAN] /\ deaths \in Nat
  BY DEF Governor
<1>4. Shape
  BY <1>1, <1>2, <1>3 DEF Shape
<1>5. ASSUME NEW p \in Proc, NEW r \in Run
      PROVE  PairOK(eng[p][r], call[p][r], work[r])
  <2>1. eng[p][r] = NoRun /\ \A a \in Agent : call[p][r][a] = NoCall
    OBVIOUS
  <2> QED  BY <2>1, Firsts DEF PairOK, Away, Works, NoRow
<1> QED  BY <1>4, <1>5 DEF PairInv, Pairs

\* What a process keeps of a run, the calls of the run and the version of its
\* workspace fit together, whatever other processes do with the same store:
\* also where one opens while another executes the run (run, runRound and the
\* catch of run).
THEOREM PairInvariant == Spec => []PairInv
<1>1. PairInv /\ [Next]_vars => PairInv'
  <2> SUFFICES ASSUME PairInv, [Next]_vars PROVE PairInv'
    OBVIOUS
  <2> QED  BY Kinds, PairsStep, QuietStep, DieStep, OpenStep
<1> QED  BY <1>1, PairInit, PTL DEF Spec

\* A run is completed on what its reviewers saw and passed: the context they
\* were given is the workspace the round left, whatever else wrote to the
\* workspace in between (the fingerprints around the reviewers).
THEOREM CompletedAsReviewedHolds == Spec => []CompletedAsReviewed
<1>1. PairInv => CompletedAsReviewed
  BY DEF PairInv, Pairs, PairOK, CompletedAsReviewed
<1> QED  BY <1>1, PairInvariant, PTL

\* The row of a run is the record of the one process that has registered it or
\* the mark of an opening over that record, unless the run was restored on such
\* a mark while its first executor went on; and an unfinished row is the record
\* of one that executes the run or waits for an opening after a death: whatever
\* opens or dies (saveRun, recoverInterruptedRuns).
THEOREM Invariant == Spec => []IInv
<1>1. Init => IInv
  <2> SUFFICES ASSUME Init PROVE Rows
    BY PairInit DEF IInv
  <2>1. \A r \in Run : row[r] = NoRow /\ \A p \in Proc : Away(eng[p][r])
    BY Firsts DEF Init, Away
  <2> QED  BY <2>1 DEF Rows, NoRow, Live
<1>2. IInv /\ [Next]_vars => IInv'
  <2> SUFFICES ASSUME IInv, [Next]_vars PROVE IInv'
    OBVIOUS
  <2>1. PairInv /\ Rows
    BY DEF IInv
  <2> QED  BY <2>1, Kinds, PairsStep, RowsStep, QuietStep, DieStep, OpenStep DEF IInv
<1> QED  BY <1>1, <1>2, PTL DEF Spec

\* What the store says of a run is what its executor has, but for the mark of
\* an opening and for a run that two processes execute; and what it says is
\* unfinished is executed, or its executor died since the last opening.
THEOREM RowTellsTruthHolds == Spec => []RowTellsTruth
<1>1. IInv => RowTellsTruth
  BY DEF IInv, Rows, Away, Works, Executing, RowTellsTruth
<1> QED  BY <1>1, Invariant, PTL

\* The verdict of a run that was never executed by two processes at a time
\* stays: no late answer of a call and no opening changes it; only a restore of
\* an interrupted run goes on.
THEOREM VerdictStaysHolds == Spec => VerdictStays
<1> DEFINE Stays == \A r \in Run \ shared :
              row[r].status \in Terminal /\ row[r].code # "interrupted" =>
                  row'[r].status = row[r].status /\ row'[r].code = row[r].code
<1>1. IInv /\ [Next]_vars => [Stays]_vars
  <2> SUFFICES ASSUME IInv, [Next]_vars PROVE Stays
    OBVIOUS
  <2>1. PairInv
    BY DEF IInv
  <2>2. CASE \E p \in Proc, r \in Run : Effect(p, r)
    BY <2>2, VerdictStep
  <2>3. CASE Quiet
    BY <2>3 DEF Quiet
  <2>4. CASE \E p \in Proc : Die(p) \/ Open(p)
    BY <2>1, <2>4, DieStep, OpenStep
  <2> QED  BY <2>1, <2>2, <2>3, <2>4, Kinds
<1> QED  BY <1>1, Invariant, PTL DEF Spec, VerdictStays

=============================================================================
