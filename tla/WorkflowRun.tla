----------------------------- MODULE WorkflowRun -----------------------------
(***************************************************************************)
(* A workflow: admission, planner, rounds of writer, tester and reviewers, *)
(* the checkpoint of each round, and what ends it: reviewers that pass, an *)
(* error, a cancel, the deadline, the emergency stop or the death of its   *)
(* process (src/src/core/workflow.ts), with the provider calls it makes    *)
(* through the shared governor (provider-call-governor.ts) and the row it  *)
(* keeps in the session store (store.ts).                                  *)
(*                                                                         *)
(* Every command is a process of its own over one data directory, which it *)
(* opens when it starts, whatever the others do.  What runs between two    *)
(* awaits is one step.  Time is left out: a deadline may pass at any       *)
(* moment.  A process executes a run once at a time.                       *)
(***************************************************************************)
EXTENDS Naturals, FiniteSets, ProcessRunner

CONSTANTS
    Proc,      \* processes
    Host,      \* those of them that are asked to run workflows
    Run,       \* run ids
    Reviewer,  \* the reviewers of every run
    Optional,  \* which of "fallback" and "tester" the runs are set up with
    Api,       \* the agents called through an API, which are priced first
    MaxActive, MaxRounds, MaxCalls, MaxSubprocesses, MaxErrors, \* hard limits
    MaxGoverned,  \* calls of a window of the governor, for all processes
    MaxWork,   \* bound on the versions of a workspace
    MaxStops,  \* bound on the emergency stops
    MaxDeaths, \* bound on the deaths of processes
    Faults     \* "linger": a leader ends and leaves its group behind

Agent == {"planner", "writer", "fallback", "tester"} \cup Reviewer
Writer == {"writer", "fallback"}

ASSUME WorkflowAssumption ==
    /\ Host \subseteq Proc
    /\ Optional \subseteq {"fallback", "tester"}
    /\ Api \subseteq {"planner"} \cup Reviewer
    /\ Faults \subseteq {"linger"}
    /\ Reviewer # {} /\ IsFiniteSet(Reviewer) /\ IsFiniteSet(Run)
    /\ Reviewer \cap {"planner", "writer", "fallback", "tester"} = {}
    /\ {MaxActive, MaxRounds, MaxCalls, MaxSubprocesses, MaxErrors, MaxGoverned,
        MaxWork, MaxStops, MaxDeaths} \subseteq Nat
    /\ MaxActive > 0

VARIABLES
    row,    \* the runs table
    point,  \* the latest checkpoint of each run
    work,   \* the version of the run's workspace
    eng,    \* the runs a process has in hand
    call,   \* the calls of those runs, by agent
    stray,  \* a writer of the run that nobody waits for is alive
    gov,    \* the row of the governor
    up,     \* the processes that are open
    deaths  \* deaths of processes so far

\* For the properties, no step depends on them.
VARIABLES
    shared,  \* the runs restored in one process while another executed them
    unswept  \* the runs whose executor died since the last opening

history == <<shared, unswept>>
vars == <<row, point, work, eng, call, stray, gov, up, deaths, history>>

Zero == [rounds |-> 0, calls |-> 0, subs |-> 0, errs |-> 0]
NoRow == [status |-> "none", code |-> "none", counters |-> Zero]
NoPoint == [round |-> 0, work |-> 0, counters |-> Zero]
NoRun == [phase |-> "idle", stop |-> "none", due |-> FALSE, paused |-> FALSE, epoch |-> 0,
          rec |-> NoRow, restored |-> 0, skip |-> FALSE, seen |-> 0,
          last |-> 0, stalled |-> 0, context |-> 0]
NoCall == [step |-> "idle", epoch |-> 0, child |-> spawn, out |-> "none"]

Live == {"created", "running", "paused"}
Terminal == {"completed", "failed", "cancelled"}
Phase == {"idle", "admitted", "plan", "loop", "write", "inspect", "test",
          "context", "review", "ended"}
\* Calls that start together may pass a limit together.
Counters == [rounds: 0..MaxRounds, calls: 0..(MaxCalls + Cardinality(Reviewer)),
             subs: 0..(MaxSubprocesses + Cardinality(Reviewer)),
             errs: 0..(2 + Cardinality(Reviewer))]
Row == [status: {"none"} \cup Live \cup Terminal,
        code: {"none", "interrupted", "other"}, counters: Counters]

\* Fingerprints start at 1, so that 0 is none.
TypeOK ==
    /\ row \in [Run -> Row]
    /\ point \in [Run -> [round: 0..MaxRounds, work: 0..MaxWork,
                          counters: Counters]]
    /\ work \in [Run -> 1..MaxWork]
    /\ eng \in [Proc -> [Run -> [phase: Phase,
                                 stop: {"none", "cancelled", "timeout"},
                                 due: BOOLEAN,  \* the deadline has passed
                                 paused: BOOLEAN, epoch: 0..MaxStops, rec: Row,
                                 restored: 0..MaxRounds, skip: BOOLEAN,
                                 seen: 0..MaxWork, last: 0..MaxWork,
                                 stalled: 0..1, context: 0..MaxWork]]]
    /\ call \in [Proc -> [Run -> [Agent ->
                    [step: {"idle", "gate", "priced", "up", "done", "failed"},
                     epoch: 0..MaxStops, child: Child,
                     out: {"none", "pass", "changes", "exited", "denied"}]]]]
    /\ stray \in [Run -> BOOLEAN]
    /\ gov \in [calls: 0..MaxGoverned, epoch: 0..MaxStops]
    /\ up \in [Proc -> BOOLEAN]
    /\ deaths \in 0..MaxDeaths
    /\ shared \subseteq Run /\ unswept \subseteq Run

Init ==
    /\ row = [r \in Run |-> NoRow]
    /\ point = [r \in Run |-> NoPoint]
    /\ work = [r \in Run |-> 1]
    /\ eng = [p \in Proc |-> [r \in Run |-> NoRun]]
    /\ call = [p \in Proc |-> [r \in Run |-> [a \in Agent |-> NoCall]]]
    /\ stray = [r \in Run |-> FALSE]
    /\ gov = [calls |-> 0, epoch |-> 0]
    /\ up = [p \in Proc |-> FALSE]
    /\ deaths = 0
    /\ shared = {} /\ unswept = {}

-----------------------------------------------------------------------------
(* What a step reads and writes.                                           *)

In(p, r, phase) == eng[p][r].phase = phase
\* The run is in the map of active runs.
Executing(p, r) == eng[p][r].phase \notin {"idle", "admitted", "ended"}
Aborted(p, r) == eng[p][r].stop # "none"
Stopped(p, r) == gov.epoch # eng[p][r].epoch
\* As if the deadline aborted the run and left its waiters.
WaitsForPeople(p, r) == eng[p][r].paused /\ eng[p][r].stop # "cancelled"

\* waitIfPaused: a resume, a cancel and the deadline all end the wait.
Waits(p, r) == eng[p][r].paused /\ ~Aborted(p, r)

Put(p, r, e) == eng' = [eng EXCEPT ![p][r] = e]
\* The record of a run goes to its row whole, whatever the row says.
Save(p, r, e) == Put(p, r, e) /\ row' = [row EXCEPT ![r] = e.rec]
Counted(e, n) == [e EXCEPT !.rec.counters = n]
Calls(p, r, a, c) == call' = [call EXCEPT ![p][r][a] = c]
AtGate == [NoCall EXCEPT !.step = "gate"]
Start(p, r, agents) ==
    call' = [call EXCEPT ![p][r] = [a \in Agent |->
                IF a \in agents THEN AtGate ELSE NoCall]]

\* The catch of a run; the calls of its other agents stay as they are.
Lost(e) == [e EXCEPT !.phase = "ended",
                     !.rec.status = IF e.stop = "cancelled" THEN "cancelled" ELSE "failed",
                     !.rec.code = "other"]
Fail(p, r) == Save(p, r, Lost(eng[p][r]))

-----------------------------------------------------------------------------
(* A run starts.                                                           *)

\* The limit counts the runs registered so far, before the first await.
Admit(p, r) ==
    /\ p \in Host /\ up[p]
    /\ eng[p][r].phase \in {"idle", "ended"}
    /\ \A a \in Agent : call[p][r][a].step \in {"idle", "done", "failed"}
    /\ row[r].status = "none" \/ row[r].code = "interrupted"
    /\ Cardinality({q \in Run : Executing(p, q)}) < MaxActive
    /\ Put(p, r, [NoRun EXCEPT !.phase = "admitted", !.epoch = gov.epoch])
    /\ call' = [call EXCEPT ![p][r] = [a \in Agent |-> NoCall]]
    /\ UNCHANGED <<row, point, work, stray, gov, up, deaths, history>>

\* What is left to do of an interrupted run: the row and the workspace must
\* still be the ones of the checkpoint.
Restorable(r) == /\ row[r].status = "failed" /\ row[r].code = "interrupted"
                 /\ point[r].round > 0 /\ point[r].work = work[r]

Register(p, r) ==
    /\ In(p, r, "admitted")
    /\ LET restoring == row[r].status # "none"
           e == [eng[p][r] EXCEPT
                   !.phase = "plan", !.skip = restoring,
                   !.restored = IF restoring THEN point[r].round ELSE 0,
                   !.rec = [status |-> "running", code |-> "none", counters |->
                       IF restoring THEN point[r].counters ELSE Zero]]
       IN \/ /\ restoring => Restorable(r)
             /\ Save(p, r, e)
             /\ Start(p, r, {"planner"})
             /\ shared' = IF \E q \in Proc \ {p} : Executing(q, r)
                          THEN shared \cup {r} ELSE shared
          \/ /\ Put(p, r, NoRun)  \* a check or an approval refuses
             /\ UNCHANGED <<row, call, shared>>
    /\ UNCHANGED <<point, work, stray, gov, up, deaths, unswept>>

-----------------------------------------------------------------------------
(* A call of an agent.                                                     *)

Denied(c) == [c EXCEPT !.step = "failed", !.out = "denied"]

\* The check, before anything is awaited.
Gate(p, r, a) ==
    LET e == eng[p][r]
        n == e.rec.counters
        refused == \/ Aborted(p, r) \/ Stopped(p, r)
                   \/ n.subs >= MaxSubprocesses
                   \/ a # "tester" /\ (n.calls >= MaxCalls \/ n.errs >= MaxErrors)
    IN
    /\ call[p][r][a].step = "gate"
    /\ ~Waits(p, r)
    /\ \/ /\ refused
          /\ Calls(p, r, a, Denied(call[p][r][a]))
          /\ UNCHANGED <<row, eng, gov>>
       \/ /\ ~refused /\ a \in Api
          /\ Calls(p, r, a, [call[p][r][a] EXCEPT !.step = "priced"])
          /\ UNCHANGED <<row, eng, gov>>
       \/ /\ ~refused /\ a = "tester"
          /\ Save(p, r, Counted(e, [n EXCEPT !.subs = n.subs + 1]))
          /\ Calls(p, r, a, [NoCall EXCEPT !.step = "up"])
          /\ UNCHANGED gov
       \/ /\ ~refused /\ a \notin Api \cup {"tester"}
          /\ gov.calls < MaxGoverned
          /\ gov' = [gov EXCEPT !.calls = @ + 1]
          /\ Save(p, r, Counted(e, [n EXCEPT !.calls = n.calls + 1, !.subs = n.subs + 1]))
          /\ Calls(p, r, a, [NoCall EXCEPT !.step = "up", !.epoch = gov.epoch])
       \/ /\ ~refused /\ a \notin Api \cup {"tester"}
          /\ gov.calls >= MaxGoverned
          /\ Save(p, r, Counted(e, [n EXCEPT !.calls = n.calls + 1, !.subs = n.subs + 1,
                                        !.errs = n.errs + 1]))
          /\ Calls(p, r, a, Denied(call[p][r][a]))
          /\ UNCHANGED gov
    /\ UNCHANGED <<point, work, stray, up, deaths, history>>

\* The price is known: the call starts, with the epoch of now.
Reserve(p, r, a) ==
    LET e == eng[p][r]
        n == e.rec.counters
    IN
    /\ call[p][r][a].step = "priced"
    /\ \/ /\ ~Aborted(p, r) /\ gov.calls < MaxGoverned
          /\ gov' = [gov EXCEPT !.calls = @ + 1]
          /\ Save(p, r, Counted(e, [n EXCEPT !.calls = n.calls + 1]))
          /\ Calls(p, r, a, [NoCall EXCEPT !.step = "up", !.epoch = gov.epoch])
       \/ /\ Aborted(p, r) \/ gov.calls >= MaxGoverned
          /\ Save(p, r, Counted(e, [n EXCEPT !.calls = n.calls + 1, !.errs = n.errs + 1]))
          /\ Calls(p, r, a, Denied(call[p][r][a]))
          /\ UNCHANGED gov
    /\ UNCHANGED <<point, work, stray, up, deaths, history>>

\* The window of the governor passes.
Window == /\ gov.calls > 0
          /\ gov' = [gov EXCEPT !.calls = 0]
          /\ UNCHANGED <<row, point, work, eng, call, stray, up, deaths, history>>

ChildStep(p, r, a, step(_)) ==
    /\ call[p][r][a].step = "up"
    /\ \E d \in step(call[p][r][a].child) :
          Calls(p, r, a, [call[p][r][a] EXCEPT !.child = d])
    /\ UNCHANGED <<row, point, work, eng, stray, gov, up, deaths, history>>

\* The signal of the run, or the governor's poll of the epoch.
MustStop(p, r, a) ==
    Aborted(p, r) \/ (a # "tester" /\ call[p][r][a].epoch # gov.epoch)

\* The timeout of the call.
TimesOut(p, r, a) == ChildStep(p, r, a, terminate)
\* As if nobody polled the epoch of the governor.
AbortOwn(p, r, a) == Aborted(p, r) /\ ChildStep(p, r, a, terminate)

Abort(p, r, a) == MustStop(p, r, a) /\ ChildStep(p, r, a, terminate)
Kill(p, r, a) == ChildStep(p, r, a, force)
Closes(p, r, a) ==
    /\ ChildStep(p, r, a, closes)
    /\ "linger" \in Faults \/ ~call'[p][r][a].child.group
GroupEnds(p, r, a) == ChildStep(p, r, a, groupEnds)

\* The answer of a call, to a run that may have ended meanwhile.
Settle(p, r, a) ==
    LET c == call[p][r][a]
        e == eng[p][r]
        n == e.rec.counters
    IN
    /\ c.step = "up"
    /\ settlesClosed(c.child) \/ givesUp(c.child)
    /\ stray' = [stray EXCEPT ![r] = @ \/ (a \in Writer /\ survives(c.child))]
    /\ \/ /\ ~c.child.term
          /\ Save(p, r, IF a = "tester" THEN e
                        ELSE Counted(e, [n EXCEPT !.errs = 0]))
          /\ \E out \in IF a \in Reviewer \cup {"tester"}
                        THEN {"pass", "changes"} ELSE {"pass"} :
                Calls(p, r, a, [NoCall EXCEPT !.step = "done", !.out = out])
       \/ /\ IF a = "tester" THEN UNCHANGED <<row, eng>>
             ELSE Save(p, r, Counted(e, [n EXCEPT !.errs = n.errs + 1]))
          /\ Calls(p, r, a, [NoCall EXCEPT !.step = "failed", !.out =
                IF givesUp(c.child) THEN "denied" ELSE "exited"])
    /\ UNCHANGED <<point, work, gov, up, deaths, history>>

\* A writer writes until its group is gone.
Writes(p, r, a) ==
    /\ a \in Writer /\ call[p][r][a].step = "up"
    /\ survives(call[p][r][a].child)
    /\ work[r] < MaxWork
    /\ work' = [work EXCEPT ![r] = @ + 1]
    /\ UNCHANGED <<row, point, eng, call, stray, gov, up, deaths, history>>

StrayWrites(r) ==
    /\ stray[r] /\ work[r] < MaxWork
    /\ work' = [work EXCEPT ![r] = @ + 1]
    /\ UNCHANGED <<row, point, eng, call, stray, gov, up, deaths, history>>

StrayEnds(r) ==
    /\ stray[r]
    /\ stray' = [stray EXCEPT ![r] = FALSE]
    /\ UNCHANGED <<row, point, work, eng, call, gov, up, deaths, history>>

-----------------------------------------------------------------------------
(* The rounds.                                                             *)

Ended(p, r, a) == call[p][r][a].step \in {"done", "failed"}

Planned(p, r) ==
    /\ In(p, r, "plan") /\ Ended(p, r, "planner")
    /\ IF call[p][r]["planner"].step = "failed" THEN Fail(p, r)
       ELSE /\ Put(p, r, [eng[p][r] EXCEPT !.phase = "loop"])
            /\ UNCHANGED row
    /\ Start(p, r, {})
    /\ UNCHANGED <<point, work, stray, gov, up, deaths, history>>

Round(p, r) ==
    LET e == eng[p][r] IN
    /\ In(p, r, "loop") /\ ~Waits(p, r)
    /\ \/ /\ \/ Aborted(p, r) \/ Stopped(p, r)
             \/ ~e.skip /\ e.rec.counters.rounds >= MaxRounds
          /\ Fail(p, r)
          /\ UNCHANGED call
       \/ /\ ~Aborted(p, r) /\ ~Stopped(p, r) /\ e.skip
          /\ Put(p, r, [e EXCEPT !.phase = "inspect"])
          /\ UNCHANGED <<row, call>>
       \/ /\ ~Aborted(p, r) /\ ~Stopped(p, r)
          /\ ~e.skip /\ e.rec.counters.rounds < MaxRounds
          /\ Save(p, r, Counted([e EXCEPT !.phase = "write"],
                                [e.rec.counters EXCEPT !.rounds = @ + 1]))
          /\ Start(p, r, {"writer"})
    /\ UNCHANGED <<point, work, stray, gov, up, deaths, history>>

\* Only a failure of the provider's process hands the round over.
FallbackEngaged(p, r) ==
    /\ In(p, r, "write") /\ call[p][r]["writer"].step = "failed"
    /\ call[p][r]["fallback"].step = "idle"
    /\ "fallback" \in Optional /\ call[p][r]["writer"].out = "exited"
    /\ ~Aborted(p, r)
    /\ Calls(p, r, "fallback", AtGate)
    /\ UNCHANGED <<row, point, work, eng, stray, gov, up, deaths, history>>

Written(p, r) ==
    /\ In(p, r, "write")
    /\ \E a \in Writer : call[p][r][a].step = "done"
    /\ Put(p, r, [eng[p][r] EXCEPT !.phase = "inspect"])
    /\ Start(p, r, {})
    /\ UNCHANGED <<row, point, work, stray, gov, up, deaths, history>>

WriteFails(p, r) ==
    /\ In(p, r, "write") /\ call[p][r]["writer"].step = "failed"
    /\ \/ call[p][r]["fallback"].step = "failed"
       \/ /\ call[p][r]["fallback"].step = "idle"
          /\ \/ "fallback" \notin Optional \/ Aborted(p, r)
             \/ call[p][r]["writer"].out # "exited"
    /\ Fail(p, r) /\ Start(p, r, {})
    /\ UNCHANGED <<point, work, stray, gov, up, deaths, history>>

\* The workspace after the writer, the stall and the checkpoint.
Inspect(p, r) ==
    LET e == eng[p][r]
        same == ~e.skip /\ e.last = work[r]
        round == e.rec.counters.rounds
    IN
    /\ In(p, r, "inspect")
    /\ \/ /\ Fail(p, r)  \* a limit on the changes, or a stall
          /\ UNCHANGED <<point, call>>
       \/ /\ same => e.stalled = 0
          /\ Put(p, r, [e EXCEPT !.phase = IF "tester" \in Optional
                                           THEN "test" ELSE "context",
                                 !.skip = FALSE, !.seen = work[r],
                                 !.last = work[r],
                                 !.stalled = IF same THEN 1
                                             ELSE IF e.skip THEN e.stalled ELSE 0])
          /\ point' = IF round = e.restored THEN point
                      ELSE [point EXCEPT ![r] = [round |-> round, work |-> work[r],
                                                 counters |-> e.rec.counters]]
          /\ Start(p, r, Optional \cap {"tester"})
          /\ UNCHANGED row
    /\ UNCHANGED <<work, stray, gov, up, deaths, history>>

\* The workspace after the tester, which must be the one before it.
Tested(p, r) ==
    LET c == call[p][r]["tester"] IN
    /\ In(p, r, "test") /\ Ended(p, r, "tester")
    /\ IF c.step = "failed" \/ work[r] # eng[p][r].seen THEN Fail(p, r)
       ELSE /\ Put(p, r, [eng[p][r] EXCEPT !.phase =
                    IF c.out = "pass" THEN "context" ELSE "loop"])
            /\ UNCHANGED row
    /\ Start(p, r, {})
    /\ UNCHANGED <<point, work, stray, gov, up, deaths, history>>

\* The one context that all reviewers are given.
ReviewContext(p, r) ==
    /\ In(p, r, "context")
    /\ Put(p, r, [eng[p][r] EXCEPT !.phase = "review", !.context = work[r]])
    /\ Start(p, r, Reviewer)
    /\ UNCHANGED <<row, point, work, stray, gov, up, deaths, history>>

\* As if the reviewers were trusted not to have waited for a stray writer.
ReviewedUnchecked(p, r) ==
    LET e == eng[p][r] IN
    /\ In(p, r, "review")
    /\ \A a \in Reviewer : call[p][r][a].step = "done"
    /\ IF \A a \in Reviewer : call[p][r][a].out = "pass"
       THEN /\ Save(p, r, [e EXCEPT !.phase = "ended", !.rec.status = "completed"])
            /\ UNCHANGED call
       ELSE /\ Put(p, r, [e EXCEPT !.phase = "loop"])
            /\ Start(p, r, {}) /\ UNCHANGED row
    /\ UNCHANGED <<point, work, stray, gov, up, deaths, history>>

Reviewed(p, r) ==
    LET e == eng[p][r] IN
    /\ In(p, r, "review")
    /\ \A a \in Reviewer : call[p][r][a].step = "done"
    /\ IF work[r] # e.seen THEN Fail(p, r) /\ UNCHANGED call
       ELSE IF \A a \in Reviewer : call[p][r][a].out = "pass"
       THEN /\ Save(p, r, [e EXCEPT !.phase = "ended", !.rec.status = "completed"])
            /\ UNCHANGED call
       ELSE /\ Put(p, r, [e EXCEPT !.phase = "loop"])
            /\ Start(p, r, {}) /\ UNCHANGED row
    /\ UNCHANGED <<point, work, stray, gov, up, deaths, history>>

\* The first that fails ends the run; the others go on.
ReviewFails(p, r) ==
    /\ In(p, r, "review")
    /\ \E a \in Reviewer : call[p][r][a].step = "failed"
    /\ Fail(p, r)
    /\ UNCHANGED <<point, work, call, stray, gov, up, deaths, history>>

-----------------------------------------------------------------------------
(* What happens to a run from outside.                                     *)

pause(p, r) ==
    /\ Executing(p, r) /\ eng[p][r].rec.status = "running"
    /\ Save(p, r, [eng[p][r] EXCEPT !.paused = TRUE, !.rec.status = "paused"])
    /\ UNCHANGED <<point, work, call, stray, gov, up, deaths, history>>

\* As if a resume were a matter of the process alone.
ResumeInMemory(p, r) ==
    /\ Executing(p, r) /\ eng[p][r].paused
    /\ Put(p, r, [eng[p][r] EXCEPT !.paused = FALSE, !.rec.status = "running"])
    /\ UNCHANGED <<row, point, work, call, stray, gov, up, deaths, history>>

resume(p, r) ==
    /\ Executing(p, r) /\ eng[p][r].paused
    /\ Save(p, r, [eng[p][r] EXCEPT !.paused = FALSE, !.rec.status = "running"])
    /\ UNCHANGED <<point, work, call, stray, gov, up, deaths, history>>

\* The last of a cancel and the deadline names the reason.
cancel(p, r) ==
    /\ Executing(p, r) /\ eng[p][r].stop # "cancelled"
    /\ Put(p, r, [eng[p][r] EXCEPT !.stop = "cancelled"])
    /\ UNCHANGED <<row, point, work, call, stray, gov, up, deaths, history>>

Deadline(p, r) ==
    /\ Executing(p, r) /\ ~eng[p][r].due
    /\ Put(p, r, [eng[p][r] EXCEPT !.stop = "timeout", !.due = TRUE])
    /\ UNCHANGED <<row, point, work, call, stray, gov, up, deaths, history>>

\* The emergency stop of one process: the shared epoch, and its own runs.
StopAll(p) ==
    /\ up[p] /\ gov.epoch < MaxStops
    /\ gov' = [gov EXCEPT !.epoch = @ + 1]
    /\ eng' = [eng EXCEPT ![p] = [r \in Run |->
                  IF Executing(p, r) THEN [@[r] EXCEPT !.stop = "cancelled"]
                  ELSE @[r]]]
    /\ UNCHANGED <<row, point, work, call, stray, up, deaths, history>>

\* The children are in groups of their own: they outlive the process.
Die(p) ==
    /\ up[p] /\ deaths < MaxDeaths
    /\ up' = [up EXCEPT ![p] = FALSE]
    /\ eng' = [eng EXCEPT ![p] = [r \in Run |-> NoRun]]
    /\ call' = [call EXCEPT ![p] = [r \in Run |-> [a \in Agent |-> NoCall]]]
    /\ stray' = [r \in Run |->
          stray[r] \/ \E a \in Writer : /\ call[p][r][a].step = "up"
                                        /\ survives(call[p][r][a].child)]
    /\ deaths' = deaths + 1
    /\ unswept' = unswept \cup {r \in Run : Executing(p, r)}
    /\ UNCHANGED <<row, point, work, gov, shared>>

\* As if every run that did not succeed had been interrupted.
RecoverUnsuccessful ==
    row' = [r \in Run |->
        IF row[r].status \in Live \cup {"failed", "cancelled"}
        THEN [row[r] EXCEPT !.status = "failed", !.code = "interrupted"]
        ELSE row[r]]

\* Every opening takes the runs it finds unfinished for interrupted, also those
\* that another process executes.
Marked(x) == IF x.status \in Live
             THEN [x EXCEPT !.status = "failed", !.code = "interrupted"] ELSE x
recoverInterruptedRuns == row' = [r \in Run |-> Marked(row[r])]

Open(p) ==
    /\ ~up[p]
    /\ up' = [up EXCEPT ![p] = TRUE]
    /\ recoverInterruptedRuns
    /\ unswept' = {}
    /\ UNCHANGED <<point, work, eng, call, stray, gov, deaths, shared>>

-----------------------------------------------------------------------------
CallSteps(p, r, a) ==
    \/ Gate(p, r, a) \/ Reserve(p, r, a) \/ Settle(p, r, a)
    \/ Abort(p, r, a) \/ Kill(p, r, a)

\* What a provider does, and its timeout.
Provider(p, r, a) ==
    \/ TimesOut(p, r, a) \/ Closes(p, r, a) \/ GroupEnds(p, r, a)
    \/ Writes(p, r, a)

Work(p, r) ==
    \/ Register(p, r) \/ Planned(p, r) \/ Round(p, r) \/ FallbackEngaged(p, r)
    \/ Written(p, r) \/ WriteFails(p, r) \/ Inspect(p, r) \/ Tested(p, r)
    \/ ReviewContext(p, r) \/ Reviewed(p, r) \/ ReviewFails(p, r)

Next ==
    \/ \E p \in Proc, r \in Run :
          \/ Admit(p, r) \/ Work(p, r) \/ pause(p, r) \/ resume(p, r)
          \/ cancel(p, r) \/ Deadline(p, r)
          \/ \E a \in Agent : CallSteps(p, r, a) \/ Provider(p, r, a)
    \/ \E p \in Proc : StopAll(p) \/ Die(p) \/ Open(p)
    \/ \E r \in Run : StrayWrites(r) \/ StrayEnds(r)
    \/ Window

Spec == Init /\ [][Next]_vars

(* A process that has something to do does something; a deadline passes;   *)
(* what SIGKILL reached is gone.  Nobody has to resume a run, and neither  *)
(* an answer of a provider nor its timeout is what ends it.                *)
Goes(p) == \E r \in Run :
    \/ Work(p, r) \/ Deadline(p, r)
    \/ \E a \in Agent :
          \/ CallSteps(p, r, a)
          \/ /\ call[p][r][a].child.forced
             /\ Closes(p, r, a) \/ GroupEnds(p, r, a)

FairSpec == Spec /\ \A p \in Host : WF_vars(Goes(p))
=============================================================================
