---------------------------- MODULE CandidateTask ----------------------------
(***************************************************************************)
(* The life of a candidate up to its completion, and the ledger that makes *)
(* each client request run once: start, checkpoint, complete and the       *)
(* recovery of a half-created candidate (src/src/core/candidate-           *)
(* registry.ts).                                                           *)
(*                                                                         *)
(* Every seat is a process of its own over one database, and a seat that   *)
(* reconnects repeats its request under the same key, also while the first *)
(* attempt is still running in another process.  A call is a sequence of   *)
(* steps: each transaction and each await is one.                          *)
(*                                                                         *)
(* A reservation is owned through a token that changes with every adoption,*)
(* and only the call that took it last holds it: so a token is the process *)
(* of that call.  Time is left out: a row may be old enough for recovery   *)
(* at any moment.                                                          *)
(***************************************************************************)
EXTENDS Naturals, FiniteSets

CONSTANTS
    Proc,      \* processes that serve the room
    StartKey, CheckKey, CompleteKey,  \* client request ids, by operation
    MaxId,     \* bound on the ids minted
    MaxHead,   \* bound on the heads of a candidate
    MaxDeaths, \* bound on the deaths of processes
    NONE       \* nobody

Key == StartKey \cup CheckKey \cup CompleteKey
Id == 1..MaxId

ASSUME CandidateAssumption ==
    /\ MaxId \in Nat /\ MaxHead \in Nat \ {0} /\ MaxDeaths \in Nat
    /\ IsFiniteSet(Proc) /\ NONE \notin Proc \cup Key
    /\ StartKey \cap CheckKey = {} /\ StartKey \cap CompleteKey = {}
    /\ CheckKey \cap CompleteKey = {}

VARIABLES
    req,     \* candidate_requests, by client_request_id
    cand,    \* candidates, by the minted task id
    point,   \* candidate_checkpoints, by the minted checkpoint id
    tree,    \* the candidate's worktree: 0 if there is none, else its head
    ref,     \* the recovery refs in the project: 0, or the head it names
    call,    \* the calls under way
    mend,    \* the row a process is about to recover, or 0
    pid,     \* the process id of each process
    deaths   \* deaths of processes so far

vars == <<req, cand, point, tree, ref, call, mend, pid, deaths>>
stores == <<req, cand, point, tree, ref>>

Step == {"idle", "reserved", "recovering", "inspect", "preview", "insert",
         "create", "activate", "ref", "record", "settle", "fail", "verdict"}
Pid == 1..(Cardinality(Proc) + MaxDeaths)

Request == [state: {"none", "pending", "succeeded", "failed"},
            holder: Proc \cup {NONE}, owner: {0} \cup Pid,
            id: {0} \cup Id, task: {0} \cup Id]
TaskRow == [status: {"none", "creating", "active", "completed", "failed"},
            key: Key \cup {NONE}, rev: Nat, completion: {0} \cup Id]
PointRow == [key: Key \cup {NONE}, task: {0} \cup Id, head: 0..MaxHead]
Call == [step: Step, id: {0} \cup Id, task: {0} \cup Id, fresh: BOOLEAN,
         replay: BOOLEAN, prior: {0} \cup Pid, rev: Nat, head: 0..MaxHead]

NoRequest == [state |-> "none", holder |-> NONE, owner |-> 0, id |-> 0,
              task |-> 0]
NoTask == [status |-> "none", key |-> NONE, rev |-> 0, completion |-> 0]
NoPoint == [key |-> NONE, task |-> 0, head |-> 0]
NoCall == [step |-> "idle", id |-> 0, task |-> 0, fresh |-> FALSE,
           replay |-> FALSE, prior |-> 0, rev |-> 0, head |-> 0]

TypeOK ==
    /\ req \in [Key -> Request]
    /\ cand \in [Id -> TaskRow]
    /\ point \in [Id -> PointRow]
    /\ tree \in [Id -> 0..MaxHead]
    /\ ref \in [Id -> 0..MaxHead]
    /\ call \in [Proc -> [Key -> Call]]
    /\ mend \in [Proc -> {0} \cup Id]
    /\ pid \in [Proc -> Pid]
    /\ deaths \in 0..MaxDeaths

Init ==
    /\ req = [k \in Key |-> NoRequest]
    /\ cand = [i \in Id |-> NoTask]
    /\ point = [i \in Id |-> NoPoint]
    /\ tree = [i \in Id |-> 0]
    /\ ref = [i \in Id |-> 0]
    /\ call = [p \in Proc |-> [k \in Key |-> NoCall]]
    /\ mend = [p \in Proc |-> 0]
    /\ pid \in [Proc -> 1..Cardinality(Proc)]
    /\ \A p, q \in Proc : p # q => pid[p] # pid[q]
    /\ deaths = 0

-----------------------------------------------------------------------------
(* The ledger.                                                             *)

At(p, k, step) == call[p][k].step = step
Goto(p, k, step) == call' = [call EXCEPT ![p][k].step = step]
Return(p, k) == call' = [call EXCEPT ![p][k] = NoCall]

\* An id nothing refers to yet.
Free(i) == /\ \A k \in Key : req[k].id # i
           /\ cand[i] = NoTask /\ point[i] = NoPoint /\ ref[i] = 0 /\ tree[i] = 0
           /\ \A p \in Proc, k \in Key : call[p][k].id # i

\* A call at its start: it minted the id, replays an answer, or took over the
\* reservation of a prior owner.
Reserved(i, t, fresh, replay, prior) ==
    [step |-> "reserved", id |-> i, task |-> t, fresh |-> fresh,
     replay |-> replay, prior |-> prior, rev |-> 0, head |-> 0]

\* Anybody may take over a pending reservation, and the token with it.
BeginRequest(p, k, t) ==
    /\ At(p, k, "idle")
    /\ \/ /\ req[k].state = "none"
          /\ \E i \in Id :
                /\ Free(i) /\ \A j \in 1..(i - 1) : ~Free(j)
                /\ req' = [req EXCEPT ![k] = [state |-> "pending", holder |-> p,
                                              owner |-> pid[p], id |-> i,
                                              task |-> t]]
                /\ call' = [call EXCEPT ![p][k] = Reserved(i, t, TRUE, FALSE, 0)]
       \/ /\ req[k].state = "pending" /\ req[k].task = t
          /\ req' = [req EXCEPT ![k].holder = p, ![k].owner = pid[p]]
          /\ call' = [call EXCEPT ![p][k] = Reserved(req[k].id, t, FALSE, FALSE,
                                                   req[k].owner)]
       \/ /\ req[k].state = "succeeded" /\ req[k].task = t
          /\ call' = [call EXCEPT ![p][k] = Reserved(req[k].id, t, FALSE, TRUE, 0)]
          /\ UNCHANGED req
    /\ UNCHANGED <<cand, point, tree, ref, mend, pid, deaths>>

\* Only the holder of the token writes, and a success is never taken back.
settleRequest(p, k, verdict) ==
    req' = IF /\ req[k].state # "none" /\ req[k].holder = p
              /\ req[k].state # "succeeded" \/ verdict = "succeeded"
           THEN [req EXCEPT ![k].state = verdict] ELSE req

SettleSucceeded(p, k) ==
    /\ At(p, k, "settle")
    /\ settleRequest(p, k, "succeeded")
    /\ Return(p, k)
    /\ UNCHANGED <<cand, point, tree, ref, mend, pid, deaths>>

SettleFailedVerdict(p, k) ==
    /\ At(p, k, "verdict")
    /\ settleRequest(p, k, "failed")
    /\ Return(p, k)
    /\ UNCHANGED <<cand, point, tree, ref, mend, pid, deaths>>

\* An abort that deletes the reservation whoever holds it.
AbortWhatever(p, k) ==
    /\ call[p][k].step \in {"inspect", "preview"}
    /\ req' = IF req[k].state = "pending" THEN [req EXCEPT ![k] = NoRequest] ELSE req
    /\ Return(p, k)
    /\ UNCHANGED <<cand, point, tree, ref, mend, pid, deaths>>

\* Whoever leaves before anything of its own is on disk takes the reservation
\* with it, if it made it and still holds the token.
Abort(p, k) ==
    /\ call[p][k].step \in {"inspect", "preview"}
    /\ req' = IF call[p][k].fresh /\ req[k].holder = p /\ req[k].state = "pending"
              THEN [req EXCEPT ![k] = NoRequest] ELSE req
    /\ Return(p, k)
    /\ UNCHANGED <<cand, point, tree, ref, mend, pid, deaths>>

\* git or the database fails, for a reason that says nothing about the request.
Break(p, k) ==
    /\ call[p][k].step \in {"insert", "activate", "ref", "record"}
    /\ Return(p, k)
    /\ UNCHANGED <<stores, mend, pid, deaths>>

-----------------------------------------------------------------------------
(* start                                                                   *)

\* A replay that takes a row in any state for the answer.
FindsAnyRow(p, k) ==
    LET i == call[p][k].id IN
    /\ k \in StartKey /\ At(p, k, "reserved")
    /\ \/ cand[i].status # "none" /\ Goto(p, k, "settle")
       \/ cand[i].status = "none" /\ call[p][k].replay /\ Return(p, k)
       \/ cand[i].status = "none" /\ ~call[p][k].replay /\ Goto(p, k, "inspect")
    /\ UNCHANGED <<stores, mend, pid, deaths>>

\* What an earlier attempt left behind.
StartFinds(p, k) ==
    LET i == call[p][k].id IN
    /\ k \in StartKey /\ At(p, k, "reserved")
    /\ \/ cand[i].status = "creating" /\ Goto(p, k, "recovering")
       \/ cand[i].status = "failed" /\ Goto(p, k, "verdict")
       \/ cand[i].status = "completed" /\ Return(p, k)
       \/ cand[i].status = "active" /\ Goto(p, k, "settle")
       \/ cand[i].status = "none" /\ call[p][k].replay /\ Return(p, k)
       \/ cand[i].status = "none" /\ ~call[p][k].replay /\ Goto(p, k, "inspect")
    /\ UNCHANGED <<stores, mend, pid, deaths>>

\* The row is somebody else's work: it gets its owner back.
restoreOwnerPid(p, k) ==
    req' = IF /\ call[p][k].prior \notin {0, pid[p]}
              /\ req[k].holder = p /\ req[k].state = "pending"
           THEN [req EXCEPT ![k].owner = call[p][k].prior] ELSE req

Recovering(p, k) ==
    /\ At(p, k, "recovering")
    /\ restoreOwnerPid(p, k)
    /\ Return(p, k)
    /\ UNCHANGED <<cand, point, tree, ref, mend, pid, deaths>>

InspectMain(p, k) ==
    /\ k \in StartKey /\ At(p, k, "inspect")
    /\ Goto(p, k, "insert")
    /\ UNCHANGED <<stores, mend, pid, deaths>>

InsertCandidate(p, k) ==
    LET i == call[p][k].id IN
    /\ At(p, k, "insert")
    /\ cand[i] = NoTask
    /\ cand' = [cand EXCEPT ![i] = [NoTask EXCEPT !.status = "creating", !.key = k]]
    /\ Goto(p, k, "create")
    /\ UNCHANGED <<req, point, tree, ref, mend, pid, deaths>>

\* The worktree and its branch.  A refusal the registry can name is a verdict:
\* the head of main moved, an unsafe configuration, or a scope that does not
\* match once the worktree is there.  Any other failure is none.
CreateWorktree(p, k) ==
    LET i == call[p][k].id IN
    /\ At(p, k, "create")
    /\ \E made \in BOOLEAN, next \in {"activate", "fail", "idle"} :
          /\ next = "activate" => made
          /\ tree' = IF made THEN [tree EXCEPT ![i] = 1] ELSE tree
          /\ IF next = "idle" THEN Return(p, k) ELSE Goto(p, k, next)
    /\ UNCHANGED <<req, cand, point, ref, mend, pid, deaths>>

\* A row changes only from the row it was read as.
transition(i, status) ==
    cand' = [cand EXCEPT ![i].status = status, ![i].rev = @ + 1]

Activate(p, k) ==
    LET i == call[p][k].id IN
    /\ At(p, k, "activate")
    /\ IF cand[i].status = "creating"
       THEN transition(i, "active") /\ Goto(p, k, "settle")
       ELSE Return(p, k) /\ UNCHANGED cand
    /\ UNCHANGED <<req, point, tree, ref, mend, pid, deaths>>

FailCandidate(p, k) ==
    LET i == call[p][k].id IN
    /\ At(p, k, "fail")
    /\ IF cand[i].status = "creating" THEN transition(i, "failed")
       ELSE UNCHANGED cand
    /\ Goto(p, k, "verdict")
    /\ UNCHANGED <<req, point, tree, ref, mend, pid, deaths>>

-----------------------------------------------------------------------------
(* Recovery of a row whose creation was interrupted.                       *)

ownerAlive(n) == \E p \in Proc : pid[p] = n

\* A guard by age alone, with no look at who is at work.
GuardedByAge(i) == FALSE

\* A row is left alone while a live process owns the reservation of its id.
Guarded(i) == \E k \in StartKey : /\ req[k].state = "pending"
                                  /\ req[k].id = i
                                  /\ ownerAlive(req[k].owner)

ReconcileReads(p, i) ==
    /\ mend[p] = 0
    /\ cand[i].status = "creating"
    /\ ~Guarded(i)
    /\ mend' = [mend EXCEPT ![p] = i]
    /\ UNCHANGED <<stores, call, pid, deaths>>

\* Decided by the worktree on disk; one that cannot be read counts as none.
ReconcileWrites(p) ==
    LET i == mend[p] IN
    /\ i # 0
    /\ IF cand[i].status = "creating"
       THEN \/ tree[i] = 1 /\ transition(i, "active")
            \/ transition(i, "failed")
       ELSE UNCHANGED cand
    /\ mend' = [mend EXCEPT ![p] = 0]
    /\ UNCHANGED <<req, point, tree, ref, call, pid, deaths>>

-----------------------------------------------------------------------------
(* checkpoint and complete                                                 *)

\* The row of an earlier attempt is the answer.
FindsRecord(k, i, t) == /\ point[i] # NoPoint
                        /\ k \in CompleteKey => cand[t].completion = i

RecordFinds(p, k) ==
    LET c == call[p][k] IN
    /\ k \notin StartKey /\ At(p, k, "reserved")
    /\ \/ FindsRecord(k, c.id, c.task) /\ Goto(p, k, "settle")
       \/ ~FindsRecord(k, c.id, c.task) /\ c.replay /\ Return(p, k)
       \/ /\ ~FindsRecord(k, c.id, c.task) /\ ~c.replay
          /\ call' = [call EXCEPT ![p][k].step = "inspect",
                                  ![p][k].rev = IF cand[c.task].status = "active"
                                                THEN cand[c.task].rev ELSE 0]
    /\ UNCHANGED <<stores, mend, pid, deaths>>

\* Clean, on its own branch; the head it has is the head that is recorded.
InspectCandidate(p, k) ==
    LET c == call[p][k] IN
    /\ k \notin StartKey /\ At(p, k, "inspect")
    /\ c.rev # 0
    /\ call' = [call EXCEPT ![p][k].step = IF k \in CompleteKey THEN "preview"
                                           ELSE "ref",
                            ![p][k].head = tree[c.task]]
    /\ UNCHANGED <<stores, mend, pid, deaths>>

\* The snapshot the owner will be asked about is still the one that was read.
PreviewSnapshot(p, k) ==
    LET c == call[p][k] IN
    /\ At(p, k, "preview")
    /\ tree[c.task] = c.head
    /\ Goto(p, k, "ref")
    /\ UNCHANGED <<stores, mend, pid, deaths>>

\* A checkpoint ref made without looking for one that is there.
RefWithoutLooking(p, k) ==
    LET c == call[p][k] IN
    /\ At(p, k, "ref")
    /\ ref' = [ref EXCEPT ![c.id] = c.head]
    /\ Goto(p, k, "record")
    /\ UNCHANGED <<req, cand, point, tree, mend, pid, deaths>>

\* The ref comes before the row.  One that names this head is adopted; one that
\* names another is a verdict.
CreateCheckpointRef(p, k) ==
    LET c == call[p][k] IN
    /\ At(p, k, "ref")
    /\ IF ref[c.id] \in {0, c.head}
       THEN ref' = [ref EXCEPT ![c.id] = c.head] /\ Goto(p, k, "record")
       ELSE UNCHANGED ref /\ Goto(p, k, "verdict")
    /\ UNCHANGED <<req, cand, point, tree, mend, pid, deaths>>

\* Nobody else wrote the task since it was read.
RecordFits(p, k) ==
    LET c == call[p][k] IN
    /\ point[c.id] = NoPoint
    /\ cand[c.task].status = "active"
    /\ cand[c.task].rev = c.rev

\* The task's row once the record i of k is made about it.
Recorded(row, k, i) ==
    IF k \in CompleteKey
    THEN [row EXCEPT !.rev = @ + 1, !.status = "completed", !.completion = i]
    ELSE [row EXCEPT !.rev = @ + 1]

InsertCheckpoint(p, k) ==
    LET c == call[p][k] IN
    /\ At(p, k, "record")
    /\ IF RecordFits(p, k)
       THEN /\ point' = [point EXCEPT ![c.id] = [key |-> k, task |-> c.task,
                                                 head |-> c.head]]
            /\ cand' = [cand EXCEPT ![c.task] = Recorded(cand[c.task], k, c.id)]
            /\ Goto(p, k, "settle")
       ELSE UNCHANGED <<point, cand>> /\ Return(p, k)
    /\ UNCHANGED <<req, tree, ref, mend, pid, deaths>>

-----------------------------------------------------------------------------
\* An agent commits in the worktree of an active candidate.
AgentCommits(i) ==
    /\ cand[i].status = "active"
    /\ tree[i] \in 1..(MaxHead - 1)
    /\ tree' = [tree EXCEPT ![i] = @ + 1]
    /\ UNCHANGED <<req, cand, point, ref, call, mend, pid, deaths>>

\* A seat's process dies; the seat comes back as another process.
Die(p) ==
    /\ deaths < MaxDeaths
    /\ deaths' = deaths + 1
    /\ pid' = [pid EXCEPT ![p] = Cardinality(Proc) + deaths + 1]
    /\ call' = [call EXCEPT ![p] = [k \in Key |-> NoCall]]
    /\ mend' = [mend EXCEPT ![p] = 0]
    /\ UNCHANGED stores

\* A request names the task it is about; start names none.
Asked(p, k) ==
    \/ k \in StartKey /\ BeginRequest(p, k, 0)
    \/ k \notin StartKey /\ \E t \in Id : cand[t] # NoTask /\ BeginRequest(p, k, t)

Goes(p, k) ==
    \/ SettleSucceeded(p, k) \/ SettleFailedVerdict(p, k)
    \/ StartFinds(p, k) \/ Recovering(p, k) \/ InspectMain(p, k)
    \/ InsertCandidate(p, k) \/ CreateWorktree(p, k) \/ Activate(p, k)
    \/ FailCandidate(p, k) \/ RecordFinds(p, k) \/ InspectCandidate(p, k)
    \/ PreviewSnapshot(p, k) \/ CreateCheckpointRef(p, k)
    \/ InsertCheckpoint(p, k) \/ Abort(p, k) \/ Break(p, k)

Reconcile(p) == ReconcileWrites(p) \/ \E i \in Id : ReconcileReads(p, i)

Next == \/ \E p \in Proc : \/ \E k \in Key : Asked(p, k) \/ Goes(p, k)
                           \/ Reconcile(p)
                           \/ Die(p)
        \/ \E i \in Id : AgentCommits(i)

Spec == Init /\ [][Next]_vars

\* Calls end, and every process keeps asking for the room's status, at moments
\* that have nothing to do with the requests.
FairSpec == /\ Spec
            /\ \A p \in Proc : SF_vars(Reconcile(p))
            /\ \A p \in Proc, k \in Key : WF_vars(Goes(p, k))
=============================================================================
