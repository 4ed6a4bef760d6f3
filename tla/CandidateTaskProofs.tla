------------------------- MODULE CandidateTaskProofs -------------------------
(***************************************************************************)
(* Theorems about the candidate ledger, for every number of processes,     *)
(* keys, ids, heads and deaths.  The inductive invariant ties every row to *)
(* the one key whose reservation minted its id (OwnId, TaskOfKey,          *)
(* PointOfKey), and says of a call what it may rely on at each of its      *)
(* steps: the reservation it answers for, what it read, what is there when *)
(* it answers, when it is alone with its reservation, and what shields the *)
(* row it is creating.                                                     *)
(***************************************************************************)
EXTENDS CandidateTaskProps, FiniteSetTheorems, TLAPS

-----------------------------------------------------------------------------
(* The inductive invariant.                                                *)

Busy(p, k) == call[p][k].step # "idle"
Open(k) == req[k].state # "none"
Working(p, k) == call[p][k].step \in {"create", "activate", "fail"}
Decided(i) == cand[i].status \in {"active", "completed", "failed"}

\* The tables.
OwnId == \A k \in Key : Open(k) =>
    /\ req[k].id \in Id
    /\ \A l \in Key : Open(l) /\ req[l].id = req[k].id => l = k
TaskOfKey == \A i \in Id : cand[i] # NoTask =>
    /\ cand[i].status # "none" /\ cand[i].key \in Key
    /\ Open(cand[i].key) /\ req[cand[i].key].id = i
PointOfKey == \A i \in Id : point[i] # NoPoint =>
    /\ point[i].head # 0 /\ point[i].key \in Key
    /\ Open(point[i].key) /\ req[point[i].key].id = i
TreeThere == \A i \in Id : cand[i].status \in {"active", "completed"} => tree[i] # 0
RowDecided == \A k \in StartKey :
    req[k].state \in {"succeeded", "failed"} => Decided(req[k].id)
OwnersLive == deaths = 0 => \A k \in Key : Open(k) => ownerAlive(req[k].owner)
MendThere == \A p \in Proc : mend[p] # 0 => cand[mend[p]] # NoTask
Tables == /\ OwnId /\ TaskOfKey /\ PointOfKey /\ TreeThere /\ RowDecided
          /\ OwnersLive /\ MendThere /\ SuccessIsThere /\ RecoveryReady

\* The reservation a call answers for, and the operation it runs.
Linked(p, k) ==
    /\ Open(k) /\ call[p][k].id = req[k].id
    /\ k \notin StartKey => call[p][k].task \in Id
    /\ call[p][k].step \in {"preview", "ref", "record"} => k \notin StartKey
    /\ call[p][k].step \in {"insert", "create", "activate", "fail"} => k \in StartKey
    /\ call[p][k].replay => call[p][k].step \in {"reserved", "recovering", "settle",
                                                 "verdict"}
    /\ call[p][k].fresh => ~call[p][k].replay
    /\ deaths = 0 /\ call[p][k].prior # 0 => ownerAlive(call[p][k].prior)

\* What it has read, or made, is there.
Reads(p, k) ==
    /\ call[p][k].rev # 0 => k \notin StartKey /\ tree[call[p][k].task] # 0
    /\ call[p][k].step \in {"preview", "ref", "record"} => call[p][k].head # 0
    /\ call[p][k].step = "record" => ref[call[p][k].id] = call[p][k].head
    /\ call[p][k].step = "activate" => tree[call[p][k].id] # 0
    /\ call[p][k].step = "settle" => Made(k)
    /\ k \in StartKey /\ call[p][k].step \in {"settle", "verdict"} =>
          Decided(call[p][k].id)

\* A reservation nobody has taken over is one call's, and nothing is made yet.
Alone(p, k) == call[p][k].fresh /\ req[k].holder = p =>
    /\ \A q \in Proc : q # p => ~Busy(q, k)
    /\ call[p][k].step \in {"reserved", "inspect", "preview"} =>
          \A i \in Id : cand[i].key # k /\ point[i].key # k

\* One call creates, and its row is shielded while it holds the reservation.
Shielded(p, k) ==
    /\ Working(p, k) => /\ cand[call[p][k].id].status # "none"
                        /\ \A q \in Proc : Working(q, k) => q = p
    /\ req[k].holder = p /\ ~call[p][k].replay =>
          req[k].state = "pending" /\ req[k].owner = pid[p]
    /\ /\ call[p][k].step \in {"create", "activate"}
       /\ cand[call[p][k].id].status = "creating"
       /\ req[k].holder = p \/ deaths = 0
       => \A q \in Proc : mend[q] # call[p][k].id

CallInv(p, k) == Busy(p, k) => /\ Linked(p, k) /\ Reads(p, k)
                               /\ Alone(p, k) /\ Shielded(p, k)

IInv == /\ TypeOK /\ Tables
        /\ \A p \in Proc, k \in Key : CallInv(p, k)

-----------------------------------------------------------------------------
(* Facts the proof keeps needing.                                          *)

\* What the types of the tables say of one entry.
LEMMA Typed ==
    ASSUME TypeOK
    PROVE  /\ \A k \in Key : req[k] \in Request
           /\ \A i \in Id : /\ cand[i] \in TaskRow /\ point[i] \in PointRow
                            /\ tree[i] \in 0..MaxHead /\ ref[i] \in 0..MaxHead
           /\ \A p \in Proc : /\ mend[p] \in {0} \cup Id /\ pid[p] \in Pid
                              /\ \A k \in Key : call[p][k] \in Call
           /\ deaths \in 0..MaxDeaths
  BY DEF TypeOK

\* The empty rows are rows.
LEMMA Blank ==
    /\ NoRequest \in Request /\ NoTask \in TaskRow /\ NoPoint \in PointRow
    /\ NoCall \in Call
    /\ Cardinality(Proc) \in Nat
    /\ NONE \notin Key /\ NONE \notin Proc /\ 0 \notin Id /\ MaxHead \in Nat \ {0}
    /\ MaxDeaths \in Nat
  BY CandidateAssumption, FS_CardinalityType
     DEF Request, TaskRow, PointRow, Call, NoRequest, NoTask, NoPoint, NoCall, Step, Id,
         Key

\* What is made stays made.
MadeGrows ==
    /\ \A i \in Id : cand[i].status \in {"active", "completed"} =>
          cand'[i].status \in {"active", "completed"} /\ cand'[i].key = cand[i].key
    /\ \A i \in Id : point[i] # NoPoint => point'[i] = point[i]
LEMMA MadeStays ==
    ASSUME NEW k \in Key, MadeGrows, Made(k)
    PROVE  Made(k)'
  BY Blank DEF MadeGrows, Made, NoPoint

\* A call that changes only its own entry keeps the invariant when what it
\* now relies on is there.
Others(p, k) == \A q \in Proc, l \in Key :
                    q # p \/ l # k => call'[q][l] = call[q][l]
LEMMA CallOnly ==
    ASSUME IInv, NEW p \in Proc, NEW k \in Key,
           UNCHANGED <<stores, mend, pid, deaths>>,
           Others(p, k), call' \in [Proc -> [Key -> Call]],
           Busy(p, k), Working(p, k)' => Working(p, k),
           CallInv(p, k)'
    PROVE  IInv'
<1>1. TypeOK'
  BY DEF IInv, TypeOK, stores
<1>2. Tables'
  BY DEF IInv, Tables, OwnId, TaskOfKey, PointOfKey, TreeThere, RowDecided, OwnersLive,
         MendThere, SuccessIsThere, RecoveryReady, Made, Open, Decided, ownerAlive,
         stores
<1>3. ASSUME NEW q \in Proc, NEW l \in Key, q # p \/ l # k
      PROVE  CallInv(q, l)'
  <2>1. SUFFICES ASSUME Busy(q, l)'
                 PROVE  (Linked(q, l) /\ Reads(q, l) /\ Alone(q, l) /\ Shielded(q, l))'
    BY DEF CallInv
  <2>2. call'[q][l] = call[q][l]
    BY <1>3 DEF Others
  <2>3. Linked(q, l) /\ Reads(q, l) /\ Alone(q, l) /\ Shielded(q, l)
    BY <2>1, <2>2 DEF IInv, CallInv, Busy
  <2>4. Linked(q, l)' /\ Reads(q, l)'
    BY <2>2, <2>3 DEF Linked, Reads, Open, ownerAlive, Made, Decided, stores
  <2>5. Alone(q, l)'
    BY <2>2, <2>3 DEF Alone, Busy, Others, stores
  <2>6. Shielded(q, l)'
    BY <2>2, <2>3 DEF Shielded, Working, Others, stores
  <2> QED
    BY <2>4, <2>5, <2>6
<1> QED
  BY <1>1, <1>2, <1>3 DEF IInv

\* Two calls about one id run one key.
LEMMA SameKey ==
    ASSUME IInv, NEW p \in Proc, NEW k \in Key, NEW q \in Proc, NEW l \in Key,
           Busy(p, k), Busy(q, l), call[p][k].id = call[q][l].id
    PROVE  k = l
  BY DEF IInv, Tables, OwnId, CallInv, Linked

\* A call that ends keeps the invariant whatever it was.
LEMMA Ends ==
    ASSUME IInv, NEW p \in Proc, NEW k \in Key, Busy(p, k),
           UNCHANGED <<stores, mend, pid, deaths>>, Return(p, k)
    PROVE  IInv'
<1>1. call' \in [Proc -> [Key -> Call]] /\ Others(p, k) /\ call'[p][k] = NoCall
  BY Blank DEF IInv, TypeOK, Return, Others
<1> QED
  BY <1>1, CallOnly DEF CallInv, Busy, Working, NoCall

-----------------------------------------------------------------------------
(* Every step keeps the invariant: the ledger.                             *)

\* A call that has just taken, or read, the reservation of its key.
Begins(p, k, t) ==
    /\ Others(p, k)
    /\ call'[p][k].step = "reserved" /\ call'[p][k].task = t
    /\ call'[p][k].rev = 0
    /\ UNCHANGED <<cand, point, tree, ref, mend, pid, deaths>>
    /\ \A l \in Key : l # k => req'[l] = req[l]
Mints(p, k, i) ==
    /\ req'[k].state = "pending" /\ req'[k].holder = p
    /\ req'[k].owner = pid[p] /\ req'[k].id = i
    /\ call'[p][k].id = i /\ call'[p][k].fresh /\ ~call'[p][k].replay
    /\ call'[p][k].prior = 0
Adopts(p, k) ==
    /\ req'[k].state = "pending" /\ req'[k].holder = p
    /\ req'[k].owner = pid[p] /\ req'[k].id = req[k].id
    /\ call'[p][k].id = req[k].id /\ ~call'[p][k].fresh /\ ~call'[p][k].replay
    /\ call'[p][k].prior = req[k].owner
Replays(p, k) ==
    /\ UNCHANGED req
    /\ call'[p][k].id = req[k].id /\ ~call'[p][k].fresh /\ call'[p][k].replay
    /\ call'[p][k].prior = 0

\* The first of its key: nothing is there under the key or the id.
LEMMA MintKeeps ==
    ASSUME IInv, NEW p \in Proc, NEW k \in Key, NEW t, NEW i \in Id,
           k \notin StartKey => t \in Id,
           ~Busy(p, k), req[k].state = "none", Free(i),
           TypeOK', Begins(p, k, t), Mints(p, k, i)
    PROVE  IInv'
<1>3. Tables'
  <2>1. OwnId'
    BY DEF IInv, Tables, OwnId, Open, Free, Begins, Mints
  <2>2. TaskOfKey' /\ PointOfKey' /\ TreeThere' /\ MendThere' /\ RecoveryReady'
    BY DEF IInv, Tables, TaskOfKey, PointOfKey, TreeThere, MendThere, RecoveryReady,
           Open, Begins, Mints
  <2>3. RowDecided' /\ SuccessIsThere'
    BY DEF IInv, Tables, RowDecided, SuccessIsThere, Decided, Made, Key, Begins, Mints
  <2>4. OwnersLive'
    BY DEF IInv, Tables, OwnersLive, Open, ownerAlive, Begins, Mints
  <2> QED
    BY <2>1, <2>2, <2>3, <2>4 DEF Tables
<1>4. \A q \in Proc : ~Busy(q, k)
  BY DEF IInv, CallInv, Linked, Open
<1>5. \A j \in Id : cand[j].key # k /\ point[j].key # k
  BY Blank DEF IInv, Tables, TaskOfKey, PointOfKey, Open, NoTask, NoPoint
<1>6. CallInv(p, k)'
  <2>1. Linked(p, k)' /\ Reads(p, k)' /\ Shielded(p, k)'
    BY DEF Linked, Open, Reads, Shielded, Working, Begins, Mints
  <2>3. Alone(p, k)'
    BY <1>4, <1>5 DEF Alone, Busy, Others, Begins, Mints
  <2> QED
    BY <2>1, <2>3 DEF CallInv
<1>7. ASSUME NEW q \in Proc, NEW l \in Key, q # p \/ l # k
      PROVE  CallInv(q, l)'
  <2>1. SUFFICES ASSUME Busy(q, l)'
                 PROVE  (Linked(q, l) /\ Reads(q, l) /\ Alone(q, l) /\ Shielded(q, l))'
    BY DEF CallInv
  <2>2. call'[q][l] = call[q][l]
    BY <1>7 DEF Others, Begins
  <2>3. l # k
    BY <2>1, <2>2, <1>4 DEF Busy
  <2>4. Linked(q, l) /\ Reads(q, l) /\ Alone(q, l) /\ Shielded(q, l)
    BY <2>1, <2>2 DEF IInv, CallInv, Busy
  <2>5. Linked(q, l)' /\ Reads(q, l)'
    BY <2>2, <2>3, <2>4 DEF Linked, Reads, Open, ownerAlive, Made, Decided, Begins
  <2>6. Alone(q, l)'
    BY <2>2, <2>3, <2>4 DEF Alone, Busy, Others, Begins
  <2>7. Shielded(q, l)'
    BY <2>2, <2>3, <2>4 DEF Shielded, Working, Others, Begins
  <2> QED
    BY <2>5, <2>6, <2>7
<1> QED
  BY <1>3, <1>6, <1>7 DEF IInv

\* A write of the holder, of the state or of the owner of a reservation that
\* stays open keeps the invariant of every other call.
LEMMA ElsewhereOnWrite ==
    ASSUME IInv, NEW p \in Proc, NEW k \in Key, NEW q \in Proc, NEW l \in Key,
           q # p \/ l # k, Others(p, k),
           UNCHANGED <<cand, point, tree, ref, mend, pid, deaths>>,
           \A m \in Key : m # k => req'[m] = req[m],
           req'[k] = req[k] \/ req'[k].holder = p,
           req'[k].id = req[k].id, Open(k)', Working(p, k)' => Working(p, k),
           \/ req'[k].holder = p
           \/ Busy(p, k)
           \/ ~Busy(p, k)'
           \/ req[k].state # "pending"
    PROVE  CallInv(q, l)'
<1>1. SUFFICES ASSUME Busy(q, l)'
               PROVE  (Linked(q, l) /\ Reads(q, l) /\ Alone(q, l) /\ Shielded(q, l))'
  BY DEF CallInv
<1>2. call'[q][l] = call[q][l]
  BY DEF Others
<1>3. Linked(q, l) /\ Reads(q, l) /\ Alone(q, l) /\ Shielded(q, l)
  BY <1>1, <1>2 DEF IInv, CallInv, Busy
<1>4. Linked(q, l)' /\ Reads(q, l)'
  BY <1>2, <1>3 DEF Linked, Reads, Open, ownerAlive, Made, Decided
<1>5. req'[l].holder = q => req'[l] = req[l]
  OBVIOUS
<1>6. Alone(q, l)'
  BY <1>2, <1>3, <1>5 DEF Alone, Busy, Others, Linked, Shielded
<1>7. Shielded(q, l)'
  BY <1>2, <1>3, <1>5 DEF Shielded, Working, Others
<1> QED
  BY <1>4, <1>6, <1>7

\* The next call of a key takes over its reservation and the token with it.
LEMMA AdoptKeeps ==
    ASSUME IInv, NEW p \in Proc, NEW k \in Key, NEW t,
           k \notin StartKey => t \in Id,
           ~Busy(p, k), req[k].state = "pending",
           TypeOK', Begins(p, k, t), Adopts(p, k)
    PROVE  IInv'
<1>4. Tables'
  <2>1. OwnId'
    BY DEF IInv, Tables, OwnId, Open, Begins, Adopts
  <2>2. TaskOfKey' /\ PointOfKey' /\ TreeThere' /\ MendThere' /\ RecoveryReady'
    BY DEF IInv, Tables, TaskOfKey, PointOfKey, TreeThere, MendThere,
           RecoveryReady, Open, Begins, Adopts
  <2>3. RowDecided' /\ SuccessIsThere'
    BY DEF IInv, Tables, RowDecided, SuccessIsThere, Decided, Made, Key, Begins, Adopts
  <2>4. OwnersLive'
    BY DEF IInv, Tables, OwnersLive, Open, ownerAlive, Begins, Adopts
  <2> QED
    BY <2>1, <2>2, <2>3, <2>4 DEF Tables
<1>5. CallInv(p, k)'
  <2>1. deaths = 0 => ownerAlive(req[k].owner)
    BY DEF IInv, Tables, OwnersLive, Open
  <2>2. Linked(p, k)'
    BY <2>1 DEF Linked, Open, ownerAlive, Begins, Adopts
  <2>3. Reads(p, k)' /\ Alone(p, k)' /\ Shielded(p, k)'
    BY DEF Reads, Alone, Shielded, Working, Begins, Adopts
  <2> QED
    BY <2>2, <2>3 DEF CallInv
<1>6. ASSUME NEW q \in Proc, NEW l \in Key, q # p \/ l # k
      PROVE  CallInv(q, l)'
  <2>1. Open(k)' /\ ~Working(p, k)'
    BY DEF Open, Working, Adopts, Begins
  <2> QED
    BY <1>6, <2>1, ElsewhereOnWrite DEF Adopts, Begins
<1> QED
  BY <1>4, <1>5, <1>6 DEF IInv

\* A replay of an answered request reads its answer.
LEMMA ReplayKeeps ==
    ASSUME IInv, NEW p \in Proc, NEW k \in Key, NEW t,
           k \notin StartKey => t \in Id,
           ~Busy(p, k), req[k].state = "succeeded",
           TypeOK', Begins(p, k, t), Replays(p, k)
    PROVE  IInv'
<1>3. Tables'
  BY DEF IInv, Tables, OwnId, TaskOfKey, PointOfKey, TreeThere, RowDecided, OwnersLive,
         MendThere, SuccessIsThere, RecoveryReady, Made, Open, Decided, ownerAlive,
         Begins, Replays
<1>4. CallInv(p, k)'
  BY DEF CallInv, Linked, Reads, Alone, Shielded, Working, Open, ownerAlive,
         Begins, Replays
<1>5. ASSUME NEW q \in Proc, NEW l \in Key, q # p \/ l # k
      PROVE  CallInv(q, l)'
  <2>1. Open(k)' /\ ~Working(p, k)'
    BY DEF Open, Working, Replays, Begins
  <2> QED
    BY <1>5, <2>1, ElsewhereOnWrite DEF Replays, Begins
<1> QED
  BY <1>3, <1>4, <1>5 DEF IInv

LEMMA BeginKeeps ==
    ASSUME IInv, NEW p \in Proc, NEW k \in Key, Asked(p, k)
    PROVE  IInv'
<1>1. PICK t \in {0} \cup Id : BeginRequest(p, k, t) /\ (k \notin StartKey => t \in Id)
  BY DEF Asked
<1>2. ~Busy(p, k)
  BY <1>1 DEF BeginRequest, At, Busy
<1>t. /\ TypeOK /\ pid[p] \in Pid /\ req[k] \in Request
      /\ req[k].owner \in {0} \cup Pid /\ req[k].id \in {0} \cup Id
  BY DEF IInv, TypeOK, Request
<1>u. UNCHANGED <<cand, point, tree, ref, mend, pid, deaths>>
  BY <1>1 DEF BeginRequest
<1>z. 0 \in 0..MaxHead /\ 0 \in Nat /\ "reserved" \in Step
  BY Blank DEF Step
<1>3. CASE req[k].state = "none"
  <2>1. PICK i \in Id :
            /\ Free(i)
            /\ req' = [req EXCEPT ![k] = [state |-> "pending", holder |-> p,
                                          owner |-> pid[p], id |-> i, task |-> t]]
            /\ call' = [call EXCEPT ![p][k] = Reserved(i, t, TRUE, FALSE, 0)]
    BY <1>1, <1>3 DEF BeginRequest
  <2>2. PICK c : c = Reserved(i, t, TRUE, FALSE, 0)
    OBVIOUS
  <2>3. call' = [call EXCEPT ![p][k] = c]
    BY <2>1, <2>2
  <2>4. PICK r : r = [state |-> "pending", holder |-> p, owner |-> pid[p],
                      id |-> i, task |-> t]
    OBVIOUS
  <2>5. /\ r \in Request /\ r.state = "pending" /\ r.holder = p
        /\ r.owner = pid[p] /\ r.id = i
    BY <2>4, <1>t DEF Request
  <2>6. /\ c \in Call /\ c.step = "reserved" /\ c.id = i /\ c.task = t
        /\ c.fresh = TRUE /\ c.replay = FALSE /\ c.prior = 0 /\ c.rev = 0
    BY <2>2, <1>z DEF Reserved, Call
  <2>7. req' = [req EXCEPT ![k] = r]
    BY <2>1, <2>4
  <2>8. TypeOK'
    BY <1>t, <1>u, <2>3, <2>5, <2>6, <2>7 DEF TypeOK
  <2>9. Begins(p, k, t) /\ Mints(p, k, i)
    BY <1>t, <1>u, <2>3, <2>5, <2>6, <2>7 DEF TypeOK, Begins, Mints, Others
  <2> QED
    BY <1>1, <1>2, <1>3, <2>1, <2>8, <2>9, MintKeeps
<1>4. CASE req[k].state = "pending"
  <2>1. /\ req' = [req EXCEPT ![k].holder = p, ![k].owner = pid[p]]
        /\ call' = [call EXCEPT ![p][k] = Reserved(req[k].id, t, FALSE, FALSE,
                                                   req[k].owner)]
    BY <1>1, <1>4 DEF BeginRequest
  <2>2. PICK c : c = Reserved(req[k].id, t, FALSE, FALSE, req[k].owner)
    OBVIOUS
  <2>3. call' = [call EXCEPT ![p][k] = c]
    BY <2>1, <2>2
  <2>4. PICK r : r = [req[k] EXCEPT !.holder = p, !.owner = pid[p]]
    OBVIOUS
  <2>5. /\ r \in Request /\ r.state = "pending" /\ r.holder = p
        /\ r.owner = pid[p] /\ r.id = req[k].id
    BY <2>4, <1>t, <1>4 DEF Request
  <2>6. /\ c \in Call /\ c.step = "reserved" /\ c.id = req[k].id /\ c.task = t
        /\ c.fresh = FALSE /\ c.replay = FALSE /\ c.prior = req[k].owner /\ c.rev = 0
    BY <2>2, <1>t, <1>z DEF Reserved, Call
  <2>7. req' = [req EXCEPT ![k] = r]
    BY <2>1, <2>4
  <2>8. TypeOK'
    BY <1>t, <1>u, <2>3, <2>5, <2>6, <2>7 DEF TypeOK
  <2>9. Begins(p, k, t) /\ Adopts(p, k)
    BY <1>t, <1>u, <2>3, <2>5, <2>6, <2>7 DEF TypeOK, Begins, Adopts, Others
  <2> QED
    BY <1>1, <1>2, <1>4, <2>8, <2>9, AdoptKeeps
<1>5. CASE req[k].state = "succeeded"
  <2>1. /\ UNCHANGED req
        /\ call' = [call EXCEPT ![p][k] = Reserved(req[k].id, t, FALSE, TRUE, 0)]
    BY <1>1, <1>5 DEF BeginRequest
  <2>2. PICK c : c = Reserved(req[k].id, t, FALSE, TRUE, 0)
    OBVIOUS
  <2>3. call' = [call EXCEPT ![p][k] = c]
    BY <2>1, <2>2
  <2>6. /\ c \in Call /\ c.step = "reserved" /\ c.id = req[k].id /\ c.task = t
        /\ c.fresh = FALSE /\ c.replay = TRUE /\ c.prior = 0 /\ c.rev = 0
    BY <2>2, <1>t, <1>z DEF Reserved, Call
  <2>8. TypeOK'
    <3>1. call' \in [Proc -> [Key -> Call]]
      BY <1>t, <2>3, <2>6 DEF TypeOK
    <3> QED
      BY <1>t, <1>u, <2>1, <3>1 DEF TypeOK
  <2>9. Others(p, k) /\ call'[p][k] = c
    BY <1>t, <2>3, <2>6 DEF TypeOK, Others
  <2>b. Begins(p, k, t) /\ Replays(p, k)
    BY <1>u, <2>1, <2>6, <2>9 DEF Begins, Replays
  <2> QED
    BY <1>1, <1>2, <1>5, <2>8, <2>b, ReplayKeeps
<1> QED
  BY <1>1, <1>3, <1>4, <1>5 DEF BeginRequest

-----------------------------------------------------------------------------
(* Every step keeps the invariant: a call that reads and goes on.          *)

\* The rest of a call's record stays as it moves.
SameBut(p, k, s) ==
    /\ Others(p, k) /\ call' \in [Proc -> [Key -> Call]]
    /\ call'[p][k].step = s /\ call'[p][k].id = call[p][k].id
    /\ call'[p][k].task = call[p][k].task /\ call'[p][k].fresh = call[p][k].fresh
    /\ call'[p][k].replay = call[p][k].replay /\ call'[p][k].prior = call[p][k].prior
LEMMA Moves ==
    ASSUME TypeOK, NEW p \in Proc, NEW k \in Key, NEW s \in Step, Goto(p, k, s)
    PROVE  /\ SameBut(p, k, s)
           /\ call'[p][k].rev = call[p][k].rev /\ call'[p][k].head = call[p][k].head
<1>1. PICK c : c = [call[p][k] EXCEPT !.step = s]
  OBVIOUS
<1>2. call[p][k] \in Call
  BY DEF TypeOK
<1>3. /\ c \in Call /\ c.step = s /\ c.id = call[p][k].id /\ c.task = call[p][k].task
      /\ c.fresh = call[p][k].fresh /\ c.replay = call[p][k].replay
      /\ c.prior = call[p][k].prior /\ c.rev = call[p][k].rev
      /\ c.head = call[p][k].head
  BY <1>1, <1>2 DEF Call
<1>4. call' = [call EXCEPT ![p][k] = c]
  BY <1>1 DEF Goto
<1>5. /\ Others(p, k) /\ call'[p][k] = c
      /\ call' \in [Proc -> [Key -> Call]]
  BY <1>3, <1>4 DEF TypeOK, Others
<1> QED
  BY <1>3, <1>5 DEF SameBut

LEMMA Stops ==
    ASSUME TypeOK, NEW p \in Proc, NEW k \in Key, Return(p, k)
    PROVE  /\ Others(p, k) /\ call' \in [Proc -> [Key -> Call]]
           /\ call'[p][k] = NoCall /\ ~Busy(p, k)' /\ ~Working(p, k)'
           /\ CallInv(p, k)'
<1>1. call' \in [Proc -> [Key -> Call]] /\ Others(p, k) /\ call'[p][k] = NoCall
  BY Blank DEF TypeOK, Return, Others
<1> QED
  BY <1>1 DEF CallInv, Busy, Working, NoCall

\* A call moves to a step that asks for nothing new.
LEMMA ReadsOn ==
    ASSUME IInv, NEW p \in Proc, NEW k \in Key, NEW s \in Step,
           UNCHANGED <<stores, mend, pid, deaths>>,
           Busy(p, k), SameBut(p, k, s), s \notin {"create", "activate", "fail", "idle"},
           s \in {"preview", "ref", "record"} => k \notin StartKey,
           s = "insert" => k \in StartKey,
           call[p][k].replay => s \in {"reserved", "recovering", "settle", "verdict"},
           s \in {"reserved", "inspect", "preview"} =>
               call[p][k].step \in {"reserved", "inspect", "preview"},
           Reads(p, k)'
    PROVE  IInv'
<1>1. Linked(p, k) /\ Alone(p, k) /\ Shielded(p, k)
  BY DEF IInv, CallInv
<1>2. Linked(p, k)'
  BY <1>1 DEF Linked, SameBut, Open, ownerAlive, stores
<1>3. Alone(p, k)'
  BY <1>1 DEF Alone, SameBut, Others, Busy, stores
<1>4. Shielded(p, k)' /\ ~Working(p, k)'
  BY <1>1 DEF Shielded, SameBut, Others, Working, stores
<1>5. CallInv(p, k)'
  BY <1>2, <1>3, <1>4 DEF CallInv
<1> QED
  BY <1>4, <1>5, CallOnly DEF SameBut

LEMMA StartFindsKeeps ==
    ASSUME IInv, NEW p \in Proc, NEW k \in Key, StartFinds(p, k)
    PROVE  IInv'
<1>1. /\ UNCHANGED <<stores, mend, pid, deaths>> /\ TypeOK
      /\ k \in StartKey /\ call[p][k].step = "reserved" /\ Busy(p, k)
  BY DEF StartFinds, IInv, At, Busy
<1>2. Linked(p, k) /\ Reads(p, k) /\ call[p][k].id \in Id
  BY <1>1 DEF IInv, CallInv, Linked, Tables, OwnId
<1>3. CASE Return(p, k)
  BY <1>1, <1>3, Ends
<1>4. ASSUME NEW s \in {"recovering", "inspect", "verdict", "settle"}, Goto(p, k, s),
             s = "verdict" => cand[call[p][k].id].status = "failed",
             s = "settle" => cand[call[p][k].id].status = "active",
             s = "inspect" => ~call[p][k].replay
      PROVE  IInv'
  <2>1. SameBut(p, k, s) /\ call'[p][k].rev = call[p][k].rev
    BY <1>1, <1>4, Moves DEF Step
  <2>2. s = "settle" => Made(k)
    <3>1. cand[call[p][k].id].status = "active" => cand[call[p][k].id] # NoTask
      BY DEF NoTask
    <3>2. cand[call[p][k].id].status = "active" => cand[call[p][k].id].key = k
      BY <3>1, <1>1, <1>2 DEF IInv, Tables, TaskOfKey, OwnId, Linked
    <3> QED
      BY <3>2, <1>2, <1>4 DEF Made
  <2>3. Made(k)' = Made(k)
    BY <1>1 DEF Made, stores
  <2>4. Reads(p, k)'
    BY <1>1, <1>2, <1>4, <2>1, <2>2, <2>3 DEF Reads, SameBut, Decided, stores
  <2> QED
    BY <1>1, <1>4, <2>1, <2>4, ReadsOn DEF Step
<1> QED
  BY <1>3, <1>4 DEF StartFinds

LEMMA InspectMainKeeps ==
    ASSUME IInv, NEW p \in Proc, NEW k \in Key, InspectMain(p, k)
    PROVE  IInv'
<1>1. /\ UNCHANGED <<stores, mend, pid, deaths>> /\ TypeOK
      /\ k \in StartKey /\ call[p][k].step = "inspect" /\ Busy(p, k)
      /\ Goto(p, k, "insert")
  BY DEF InspectMain, IInv, At, Busy
<1>2. Reads(p, k) /\ Linked(p, k)
  BY <1>1 DEF IInv, CallInv
<1>3. SameBut(p, k, "insert") /\ call'[p][k].rev = call[p][k].rev
  BY <1>1, Moves DEF Step
<1>4. Reads(p, k)'
  BY <1>1, <1>2, <1>3 DEF Reads, SameBut, stores
<1>5. ~call[p][k].replay
  BY <1>1, <1>2 DEF Linked
<1> QED
  BY <1>1, <1>3, <1>4, <1>5, ReadsOn DEF Step

LEMMA RecordFindsKeeps ==
    ASSUME IInv, NEW p \in Proc, NEW k \in Key, RecordFinds(p, k)
    PROVE  IInv'
<1>1. /\ UNCHANGED <<stores, mend, pid, deaths>> /\ TypeOK
      /\ k \notin StartKey /\ call[p][k].step = "reserved" /\ Busy(p, k)
  BY DEF RecordFinds, IInv, At, Busy
<1>2. Linked(p, k) /\ Reads(p, k) /\ call[p][k].id \in Id /\ call[p][k].task \in Id
  BY <1>1 DEF IInv, CallInv, Linked, Tables, OwnId
<1>3. CASE Return(p, k)
  BY <1>1, <1>3, Ends
<1>4. CASE FindsRecord(k, call[p][k].id, call[p][k].task) /\ Goto(p, k, "settle")
  <2>1. SameBut(p, k, "settle") /\ call'[p][k].rev = call[p][k].rev
    BY <1>1, <1>4, Moves DEF Step
  <2>2. point[call[p][k].id].key = k
    BY <1>2, <1>4 DEF FindsRecord, IInv, Tables, PointOfKey, OwnId, Linked
  <2>3. Made(k)'
    BY <1>1, <1>2, <2>2 DEF Made, stores
  <2>4. Reads(p, k)'
    BY <1>1, <1>2, <2>1, <2>3 DEF Reads, SameBut, stores
  <2> QED
    BY <1>1, <2>1, <2>4, ReadsOn DEF Step
<1>5. ASSUME NEW r \in Nat, r # 0 => cand[call[p][k].task].status = "active",
             ~call[p][k].replay,
             call' = [call EXCEPT ![p][k].step = "inspect", ![p][k].rev = r]
      PROVE  IInv'
  <2>1. PICK c : c = [call[p][k] EXCEPT !.step = "inspect", !.rev = r]
    OBVIOUS
  <2>2. call[p][k] \in Call
    BY <1>1 DEF TypeOK
  <2>3. /\ c \in Call /\ c.step = "inspect" /\ c.id = call[p][k].id
        /\ c.task = call[p][k].task /\ c.fresh = call[p][k].fresh
        /\ c.replay = call[p][k].replay /\ c.prior = call[p][k].prior /\ c.rev = r
    BY <2>1, <2>2, <1>5 DEF Call, Step
  <2>4. call' = [call EXCEPT ![p][k] = c]
    BY <2>1, <1>5
  <2>5. /\ Others(p, k) /\ call'[p][k] = c
        /\ call' \in [Proc -> [Key -> Call]]
    BY <1>1, <2>3, <2>4 DEF TypeOK, Others
  <2>6. SameBut(p, k, "inspect") /\ call'[p][k].rev = r
    BY <2>3, <2>5 DEF SameBut
  <2>7. r # 0 => tree[call[p][k].task] # 0
    BY <1>2, <1>5 DEF IInv, Tables, TreeThere
  <2>8. Reads(p, k)'
    BY <1>1, <2>6, <2>7 DEF Reads, SameBut, stores
  <2> QED
    BY <1>1, <1>5, <2>6, <2>8, ReadsOn DEF Step
<1>6. \A t \in Id : cand[t].rev \in Nat
  BY <1>1 DEF TypeOK, TaskRow
<1>7. CASE /\ ~call[p][k].replay
           /\ call' = [call EXCEPT ![p][k].step = "inspect",
                          ![p][k].rev = IF cand[call[p][k].task].status = "active"
                                        THEN cand[call[p][k].task].rev ELSE 0]
  <2>1. PICK r \in Nat : r = IF cand[call[p][k].task].status = "active"
                             THEN cand[call[p][k].task].rev ELSE 0
    BY <1>2, <1>6
  <2>2. call' = [call EXCEPT ![p][k].step = "inspect", ![p][k].rev = r]
    BY <1>7, <2>1
  <2>3. r # 0 => cand[call[p][k].task].status = "active"
    BY <2>1
  <2> QED
    BY <1>5, <1>7, <2>2, <2>3
<1> QED
  BY <1>3, <1>4, <1>7 DEF RecordFinds

LEMMA InspectCandidateKeeps ==
    ASSUME IInv, NEW p \in Proc, NEW k \in Key, InspectCandidate(p, k)
    PROVE  IInv'
<1>1. /\ UNCHANGED <<stores, mend, pid, deaths>> /\ TypeOK
      /\ k \notin StartKey /\ call[p][k].step = "inspect" /\ Busy(p, k)
      /\ call[p][k].rev # 0
  BY DEF InspectCandidate, IInv, At, Busy
<1>2. Linked(p, k) /\ Reads(p, k) /\ call[p][k].task \in Id
  BY <1>1 DEF IInv, CallInv, Linked
<1>3. PICK s \in {"preview", "ref"}, h \in 0..MaxHead :
          /\ h = tree[call[p][k].task]
          /\ call' = [call EXCEPT ![p][k].step = s, ![p][k].head = h]
  <2>1. tree[call[p][k].task] \in 0..MaxHead
    BY <1>1, <1>2 DEF TypeOK
  <2> QED
    BY <2>1 DEF InspectCandidate
<1>4. PICK c : c = [call[p][k] EXCEPT !.step = s, !.head = h]
  OBVIOUS
<1>5. call[p][k] \in Call
  BY <1>1 DEF TypeOK
<1>6. /\ c \in Call /\ c.step = s /\ c.id = call[p][k].id
      /\ c.task = call[p][k].task /\ c.fresh = call[p][k].fresh
      /\ c.replay = call[p][k].replay /\ c.prior = call[p][k].prior
      /\ c.rev = call[p][k].rev /\ c.head = h
  BY <1>4, <1>5 DEF Call, Step
<1>7. call' = [call EXCEPT ![p][k] = c]
  BY <1>3, <1>4
<1>8. /\ Others(p, k) /\ call'[p][k] = c
      /\ call' \in [Proc -> [Key -> Call]]
  BY <1>1, <1>6, <1>7 DEF TypeOK, Others
<1>9. /\ SameBut(p, k, s) /\ call'[p][k].rev = call[p][k].rev
      /\ call'[p][k].head = h
  BY <1>6, <1>8 DEF SameBut
<1>10. Reads(p, k)'
  BY <1>1, <1>2, <1>3, <1>9 DEF Reads, SameBut, stores
<1>11. ~call[p][k].replay
  BY <1>1, <1>2 DEF Linked
<1> QED
  BY <1>1, <1>9, <1>10, <1>11, ReadsOn DEF Step

LEMMA PreviewSnapshotKeeps ==
    ASSUME IInv, NEW p \in Proc, NEW k \in Key, PreviewSnapshot(p, k)
    PROVE  IInv'
<1>1. /\ UNCHANGED <<stores, mend, pid, deaths>> /\ TypeOK
      /\ call[p][k].step = "preview" /\ Busy(p, k) /\ Goto(p, k, "ref")
  BY DEF PreviewSnapshot, IInv, At, Busy
<1>2. Reads(p, k) /\ Linked(p, k)
  BY <1>1 DEF IInv, CallInv
<1>3. /\ SameBut(p, k, "ref") /\ call'[p][k].rev = call[p][k].rev
      /\ call'[p][k].head = call[p][k].head
  BY <1>1, Moves DEF Step
<1>4. Reads(p, k)'
  BY <1>1, <1>2, <1>3 DEF Reads, SameBut, stores
<1>5. ~call[p][k].replay /\ k \notin StartKey
  BY <1>1, <1>2 DEF Linked
<1> QED
  BY <1>1, <1>3, <1>4, <1>5, ReadsOn DEF Step

LEMMA BreakKeeps ==
    ASSUME IInv, NEW p \in Proc, NEW k \in Key, Break(p, k)
    PROVE  IInv'
<1>1. Busy(p, k) /\ Return(p, k) /\ UNCHANGED <<stores, mend, pid, deaths>>
  BY DEF Break, Busy
<1> QED
  BY <1>1, Ends

-----------------------------------------------------------------------------
(* Every step keeps the invariant: a call that ends by writing the ledger. *)

\* The holder settles its reservation, or leaves it as it is.
LEMMA SettleKeeps ==
    ASSUME IInv, NEW p \in Proc, NEW k \in Key, NEW v \in {"succeeded", "failed"},
           Busy(p, k), settleRequest(p, k, v), Return(p, k),
           UNCHANGED <<cand, point, tree, ref, mend, pid, deaths>>,
           v = "succeeded" => Made(k),
           k \in StartKey => Decided(call[p][k].id)
    PROVE  IInv'
<1>t. TypeOK /\ Linked(p, k) /\ req[k] \in Request
  BY DEF IInv, CallInv, TypeOK
<1>1. /\ Others(p, k) /\ call' \in [Proc -> [Key -> Call]]
      /\ ~Busy(p, k)' /\ ~Working(p, k)' /\ CallInv(p, k)'
  BY <1>t, Stops
<1>2. PICK r : r = [req[k] EXCEPT !.state = v]
  OBVIOUS
<1>3. /\ r \in Request /\ r.state = v /\ r.holder = req[k].holder
      /\ r.owner = req[k].owner /\ r.id = req[k].id
  BY <1>t, <1>2 DEF Request
<1>4. req' = req \/ (req[k].holder = p /\ req' = [req EXCEPT ![k] = r])
  BY <1>2 DEF settleRequest
<1>5. /\ req' \in [Key -> Request]
      /\ \A l \in Key : l # k => req'[l] = req[l]
      /\ req'[k] = req[k] \/ (req[k].holder = p /\ req'[k] = r)
  BY <1>t, <1>3, <1>4 DEF TypeOK
<1>6. /\ \A l \in Key : /\ req'[l].id = req[l].id /\ req'[l].owner = req[l].owner
                        /\ Open(l)' = Open(l)
      /\ req'[k].holder = req[k].holder
      /\ \A l \in Key : l # k => req'[l].state = req[l].state
      /\ req'[k].state = req[k].state \/ req'[k].state = v
  BY <1>3, <1>5, <1>t DEF Open, Linked
<1>7. TypeOK'
  BY <1>t, <1>1, <1>5 DEF TypeOK
<1>8. Tables'
  <2>1. OwnId' /\ TaskOfKey' /\ PointOfKey'
    BY <1>6 DEF IInv, Tables, OwnId, TaskOfKey, PointOfKey
  <2>2. TreeThere' /\ MendThere' /\ RecoveryReady'
    BY DEF IInv, Tables, TreeThere, MendThere, RecoveryReady
  <2>3. RowDecided'
    BY <1>6, <1>t DEF IInv, Tables, RowDecided, Decided, Linked, Key
  <2>4. SuccessIsThere'
    BY <1>6 DEF IInv, Tables, SuccessIsThere, Made
  <2>5. OwnersLive'
    BY <1>6 DEF IInv, Tables, OwnersLive, ownerAlive
  <2> QED
    BY <2>1, <2>2, <2>3, <2>4, <2>5 DEF Tables
<1>9. ASSUME NEW q \in Proc, NEW l \in Key, q # p \/ l # k
      PROVE  CallInv(q, l)'
  <2>1. Open(k)' /\ (req'[k] = req[k] \/ req'[k].holder = p)
    BY <1>5, <1>6, <1>t DEF Linked
  <2> QED
    BY <1>9, <1>1, <1>5, <1>6, <2>1, ElsewhereOnWrite
<1> QED
  BY <1>7, <1>8, <1>9, <1>1 DEF IInv

LEMMA SettleSucceededKeeps ==
    ASSUME IInv, NEW p \in Proc, NEW k \in Key, SettleSucceeded(p, k)
    PROVE  IInv'
<1>1. Busy(p, k) /\ call[p][k].step = "settle"
  BY DEF SettleSucceeded, At, Busy
<1>2. Made(k) /\ (k \in StartKey => Decided(call[p][k].id))
  BY <1>1 DEF IInv, CallInv, Reads
<1> QED
  BY <1>1, <1>2, SettleKeeps DEF SettleSucceeded

LEMMA SettleFailedKeeps ==
    ASSUME IInv, NEW p \in Proc, NEW k \in Key, SettleFailedVerdict(p, k)
    PROVE  IInv'
<1>1. Busy(p, k) /\ call[p][k].step = "verdict"
  BY DEF SettleFailedVerdict, At, Busy
<1>2. k \in StartKey => Decided(call[p][k].id)
  BY <1>1 DEF IInv, CallInv, Reads
<1> QED
  BY <1>1, <1>2, SettleKeeps DEF SettleFailedVerdict

\* The row is another's work: its owner comes back.
LEMMA RecoveringKeeps ==
    ASSUME IInv, NEW p \in Proc, NEW k \in Key, Recovering(p, k)
    PROVE  IInv'
<1>0. /\ Busy(p, k) /\ Return(p, k)
      /\ UNCHANGED <<cand, point, tree, ref, mend, pid, deaths>>
  BY DEF Recovering, At, Busy
<1>t. TypeOK /\ Linked(p, k) /\ req[k] \in Request /\ call[p][k] \in Call
  BY <1>0 DEF IInv, CallInv, TypeOK
<1>1. /\ Others(p, k) /\ call' \in [Proc -> [Key -> Call]]
      /\ ~Busy(p, k)' /\ ~Working(p, k)' /\ CallInv(p, k)'
  BY <1>0, <1>t, Stops
<1>2. PICK r : r = [req[k] EXCEPT !.owner = call[p][k].prior]
  OBVIOUS
<1>p. call[p][k].prior \in {0} \cup Pid
  BY <1>t DEF Call
<1>3. /\ r \in Request /\ r.state = req[k].state /\ r.holder = req[k].holder
      /\ r.owner = call[p][k].prior /\ r.id = req[k].id
  BY <1>t, <1>p, <1>2 DEF Request
<1>4. req' = req \/ /\ req[k].holder = p /\ req' = [req EXCEPT ![k] = r]
                    /\ call[p][k].prior # 0
  BY <1>2 DEF Recovering, restoreOwnerPid
<1>5. /\ req' \in [Key -> Request]
      /\ \A l \in Key : l # k => req'[l] = req[l]
      /\ req'[k] = req[k] \/ /\ req[k].holder = p /\ req'[k] = r
                             /\ call[p][k].prior # 0
  BY <1>t, <1>3, <1>4 DEF TypeOK
<1>6. /\ \A l \in Key : /\ req'[l].id = req[l].id /\ req'[l].state = req[l].state
                        /\ Open(l)' = Open(l)
      /\ req'[k].holder = req[k].holder
      /\ \A l \in Key : l # k => req'[l].owner = req[l].owner
      /\ \/ req'[k].owner = req[k].owner
         \/ req'[k].owner = call[p][k].prior /\ call[p][k].prior # 0
  BY <1>3, <1>5, <1>t DEF Open
<1>7. TypeOK'
  BY <1>0, <1>t, <1>1, <1>5 DEF TypeOK
<1>8. Tables'
  <2>1. OwnId' /\ TaskOfKey' /\ PointOfKey'
    BY <1>0, <1>6 DEF IInv, Tables, OwnId, TaskOfKey, PointOfKey
  <2>2. TreeThere' /\ MendThere' /\ RecoveryReady'
    BY <1>0 DEF IInv, Tables, TreeThere, MendThere, RecoveryReady
  <2>3. RowDecided' /\ SuccessIsThere'
    BY <1>0, <1>6 DEF IInv, Tables, RowDecided, SuccessIsThere, Decided, Made, Key
  <2>4. OwnersLive'
    BY <1>0, <1>6, <1>t DEF IInv, Tables, OwnersLive, ownerAlive, Linked
  <2> QED
    BY <2>1, <2>2, <2>3, <2>4 DEF Tables
<1>9. ASSUME NEW q \in Proc, NEW l \in Key, q # p \/ l # k
      PROVE  CallInv(q, l)'
  <2>1. Open(k)' /\ (req'[k] = req[k] \/ req'[k].holder = p)
    BY <1>5, <1>6, <1>t DEF Linked
  <2> QED
    BY <1>9, <1>0, <1>1, <1>5, <1>6, <2>1, ElsewhereOnWrite
<1> QED
  BY <1>7, <1>8, <1>9, <1>1 DEF IInv

\* Whoever takes the reservation away is the only call of its key, and leaves
\* nothing behind.
LEMMA AbortKeeps ==
    ASSUME IInv, NEW p \in Proc, NEW k \in Key, Abort(p, k)
    PROVE  IInv'
<1>0. /\ Busy(p, k) /\ Return(p, k) /\ call[p][k].step \in {"inspect", "preview"}
      /\ UNCHANGED <<cand, point, tree, ref, mend, pid, deaths>>
  BY DEF Abort, Busy
<1>t. TypeOK /\ Linked(p, k) /\ Alone(p, k)
  BY <1>0 DEF IInv, CallInv
<1>1. /\ Others(p, k) /\ call' \in [Proc -> [Key -> Call]]
      /\ ~Busy(p, k)' /\ ~Working(p, k)' /\ CallInv(p, k)'
  BY <1>0, <1>t, Stops
<1>2. CASE req' = req
  BY <1>0, <1>2, Ends DEF stores
<1>3. CASE /\ call[p][k].fresh /\ req[k].holder = p
           /\ req' = [req EXCEPT ![k] = NoRequest]
  <2>1. /\ req' \in [Key -> Request]
        /\ \A l \in Key : l # k => req'[l] = req[l]
        /\ ~Open(k)' /\ req'[k].state = "none"
    BY <1>t, <1>3, Blank DEF TypeOK, Open, NoRequest
  <2>2. /\ \A q \in Proc : q # p => ~Busy(q, k)
        /\ \A i \in Id : cand[i].key # k /\ point[i].key # k
    BY <1>0, <1>3, <1>t DEF Alone
  <2>3. TypeOK'
    BY <1>0, <1>t, <1>1, <2>1 DEF TypeOK
  <2>4. OwnId' /\ TaskOfKey' /\ PointOfKey'
    BY <1>0, <2>1, <2>2 DEF IInv, Tables, OwnId, TaskOfKey, PointOfKey, Open
  <2>5. TreeThere' /\ MendThere' /\ RecoveryReady'
    BY <1>0 DEF IInv, Tables, TreeThere, MendThere, RecoveryReady
  <2>6. RowDecided' /\ SuccessIsThere'
    BY <1>0, <2>1 DEF IInv, Tables, RowDecided, SuccessIsThere, Decided, Made, Key
  <2>7. OwnersLive'
    BY <1>0, <2>1 DEF IInv, Tables, OwnersLive, ownerAlive, Open
  <2>8. ASSUME NEW q \in Proc, NEW l \in Key, q # p \/ l # k
        PROVE  CallInv(q, l)'
    <3>1. SUFFICES ASSUME Busy(q, l)'
                   PROVE  (Linked(q, l) /\ Reads(q, l) /\ Alone(q, l) /\ Shielded(q, l))'
      BY DEF CallInv
    <3>2. call'[q][l] = call[q][l]
      BY <2>8, <1>1 DEF Others
    <3>3. l # k
      BY <3>1, <3>2, <2>8, <2>2 DEF Busy
    <3>4. Linked(q, l) /\ Reads(q, l) /\ Alone(q, l) /\ Shielded(q, l)
      BY <3>1, <3>2 DEF IInv, CallInv, Busy
    <3>5. Linked(q, l)' /\ Reads(q, l)'
      BY <1>0, <3>2, <3>3, <3>4, <2>1 DEF Linked, Reads, Open, ownerAlive, Made, Decided
    <3>6. Alone(q, l)' /\ Shielded(q, l)'
      BY <1>0, <1>1, <3>2, <3>3, <3>4, <2>1 DEF Alone, Shielded, Working, Busy, Others
    <3> QED
      BY <3>5, <3>6
  <2> QED
    BY <2>3, <2>4, <2>5, <2>6, <2>7, <2>8, <1>1 DEF IInv, Tables
<1> QED
  BY <1>2, <1>3 DEF Abort

-----------------------------------------------------------------------------
(* Every step keeps the invariant: rows, worktrees and refs.               *)

\* What is written only adds to what the calls rely on.
RowsGrow ==
    /\ MadeGrows /\ UNCHANGED <<req, pid, deaths>>
    /\ \A i \in Id : /\ tree[i] # 0 => tree'[i] # 0
                     /\ ref[i] # 0 => ref'[i] = ref[i]
                     /\ Decided(i) => Decided(i)'
                     /\ cand[i].status # "none" => cand'[i].status # "none"
    /\ \A p \in Proc : mend'[p] \in {0, mend[p]}
LEMMA ElsewhereOnRows ==
    ASSUME IInv, RowsGrow, NEW q \in Proc, NEW l \in Key, call'[q][l] = call[q][l],
           \A r \in Proc : Busy(r, l)' => Busy(r, l),
           Working(q, l) => \A r \in Proc : Working(r, l)' => Working(r, l),
           call[q][l].fresh /\ req[l].holder = q => \A i \in Id :
               /\ cand'[i].key = l => cand[i].key = l
               /\ point'[i].key = l => point[i].key = l,
           Working(q, l) /\ cand'[call[q][l].id].status = "creating" =>
               cand[call[q][l].id].status = "creating"
    PROVE  CallInv(q, l)'
<1>1. SUFFICES ASSUME Busy(q, l)'
               PROVE  (Linked(q, l) /\ Reads(q, l) /\ Alone(q, l) /\ Shielded(q, l))'
  BY DEF CallInv
<1>2. /\ Linked(q, l) /\ Reads(q, l) /\ Alone(q, l) /\ Shielded(q, l)
      /\ call[q][l].id \in Id
  BY <1>1 DEF IInv, CallInv, Busy, Linked, Tables, OwnId
<1>3. Linked(q, l)'
  BY <1>2 DEF Linked, RowsGrow, Open, ownerAlive
<1>4. Made(l) => Made(l)'
  BY MadeStays DEF RowsGrow
<1>5. Reads(q, l)'
  BY <1>2, <1>4 DEF Reads, Linked, RowsGrow
<1>6. Alone(q, l)'
  BY <1>2 DEF Alone, RowsGrow
<1>7. Shielded(q, l)'
  <2>1. Working(q, l)' => Working(q, l)
    BY DEF Working
  <2>2. Working(q, l)' => /\ cand'[call'[q][l].id].status # "none"
                          /\ \A r \in Proc : Working(r, l)' => r = q
    BY <1>2, <2>1 DEF Shielded, RowsGrow
  <2>3. req'[l].holder = q /\ ~call'[q][l].replay =>
          req'[l].state = "pending" /\ req'[l].owner = pid'[q]
    BY <1>2 DEF Shielded, RowsGrow
  <2>4. ASSUME call'[q][l].step \in {"create", "activate"},
               cand'[call'[q][l].id].status = "creating",
               req'[l].holder = q \/ deaths' = 0,
               NEW r \in Proc
        PROVE  mend'[r] # call'[q][l].id
    <3>1. mend[r] # call[q][l].id
      BY <1>2, <2>4 DEF Shielded, RowsGrow, Working
    <3>2. call[q][l].id # 0
      BY <1>2, Blank
    <3> QED
      BY <3>1, <3>2 DEF RowsGrow
  <2> QED
    BY <2>2, <2>3, <2>4 DEF Shielded
<1> QED
  BY <1>3, <1>5, <1>6, <1>7

\* The same of a call that was under way and of the other calls: no other call
\* of its key is alone with the reservation.
LEMMA OthersOnRows ==
    ASSUME IInv, RowsGrow, NEW p \in Proc, NEW k \in Key, Others(p, k), Busy(p, k),
           Working(p, k)' => \/ Working(p, k)
                             \/ \A q \in Proc : ~Working(q, k),
           \A i \in Id, m \in Key : m # k => /\ cand'[i].key = m => cand[i].key = m
                                             /\ point'[i].key = m => point[i].key = m,
           \A q \in Proc, l \in Key :
               Working(q, l) /\ cand'[call[q][l].id].status = "creating" =>
               cand[call[q][l].id].status = "creating",
           NEW q \in Proc, NEW l \in Key, q # p \/ l # k
    PROVE  CallInv(q, l)'
<1>1. CASE ~Busy(q, l)
  BY <1>1 DEF CallInv, Busy, Others
<1>2. CASE Busy(q, l)
  <2>1. call'[q][l] = call[q][l]
    BY DEF Others
  <2>2. \A r \in Proc : Busy(r, l)' => Busy(r, l)
    BY DEF Others, Busy
  <2>3. Working(q, l) => \A r \in Proc : Working(r, l)' => Working(r, l)
    BY DEF Others, Working
  <2>4. call[q][l].fresh /\ req[l].holder = q => l # k
    BY <1>2 DEF IInv, CallInv, Alone
  <2> QED
    BY <2>1, <2>2, <2>3, <2>4, ElsewhereOnRows
<1> QED
  BY <1>1, <1>2

\* The same where no call moves.
LEMMA CallsOnRows ==
    ASSUME IInv, RowsGrow, UNCHANGED call,
           \A i \in Id, m \in Key : /\ cand'[i].key = m => cand[i].key = m
                                    /\ point'[i].key = m => point[i].key = m,
           \A i \in Id : cand'[i].status = "creating" => cand[i].status = "creating",
           NEW q \in Proc, NEW l \in Key
    PROVE  CallInv(q, l)'
<1>1. CASE ~Busy(q, l)
  BY <1>1 DEF CallInv, Busy
<1>2. CASE Busy(q, l)
  <2>1. call[q][l].id \in Id
    BY <1>2 DEF IInv, CallInv, Linked, Tables, OwnId
  <2> QED
    BY <2>1, ElsewhereOnRows DEF Busy, Working
<1> QED
  BY <1>1, <1>2

\* A row changes its status: it keeps its key, and what is decided stays.
Turns(i, s) ==
    /\ cand' \in [Id -> TaskRow] /\ \A j \in Id : j # i => cand'[j] = cand[j]
    /\ cand'[i].status = s /\ cand'[i].key = cand[i].key
LEMMA TransitionTurns ==
    ASSUME TypeOK, NEW i \in Id, NEW s \in {"active", "failed"}, transition(i, s)
    PROVE  Turns(i, s)
<1>1. cand[i] \in TaskRow
  BY DEF TypeOK
<1>2. PICK n \in Nat : n = cand[i].rev + 1
  BY <1>1 DEF TaskRow
<1>3. PICK r : r = [cand[i] EXCEPT !.status = s, !.rev = n]
  OBVIOUS
<1>4. cand' = [cand EXCEPT ![i] = r]
  BY <1>2, <1>3 DEF transition
<1>5. r \in TaskRow /\ r.status = s /\ r.key = cand[i].key
  BY <1>1, <1>3 DEF TaskRow
<1> QED
  BY <1>4, <1>5 DEF TypeOK, Turns

\* A creation that is decided, by its own call or by a recovery.
LEMMA TurnKeeps ==
    ASSUME IInv, NEW i \in Id, NEW s \in {"active", "failed"}, Turns(i, s),
           cand[i].status = "creating", s = "active" => tree[i] # 0,
           UNCHANGED <<req, point, tree, ref, pid, deaths>>,
           \A p \in Proc : mend'[p] \in {0, mend[p]}
    PROVE  /\ RowsGrow /\ Tables'
           /\ \A j \in Id, m \in Key : /\ cand'[j].key = m => cand[j].key = m
                                       /\ point'[j].key = m => point[j].key = m
           /\ \A j \in Id : cand'[j].status = "creating" => cand[j].status = "creating"
<1>1. RowsGrow
  BY DEF RowsGrow, MadeGrows, Turns, Decided
<1>2. cand[i] # NoTask
  BY DEF NoTask
<1>3. OwnId' /\ PointOfKey' /\ RecoveryReady' /\ OwnersLive'
  BY DEF IInv, Tables, OwnId, PointOfKey, RecoveryReady, OwnersLive, Open, ownerAlive
<1>4. TaskOfKey'
  BY <1>2 DEF IInv, Tables, TaskOfKey, Turns, Open
<1>5. TreeThere'
  BY DEF IInv, Tables, TreeThere, Turns
<1>6. RowDecided'
  <2>1. \A k \in StartKey : req[k].state \in {"succeeded", "failed"} => req[k].id \in Id
    BY DEF IInv, Tables, OwnId, Open, Key
  <2> QED
    BY <1>1, <2>1 DEF IInv, Tables, RowDecided, RowsGrow
<1>7. MendThere'
  <2>1. cand'[i] # NoTask
    BY DEF Turns, NoTask
  <2>2. \A p \in Proc : mend[p] # 0 => mend[p] \in Id
    BY DEF IInv, TypeOK
  <2> QED
    BY <2>1, <2>2, <1>1, Blank DEF IInv, Tables, MendThere, Turns, RowsGrow
<1>8. SuccessIsThere'
  BY <1>1, MadeStays DEF IInv, Tables, SuccessIsThere, RowsGrow
<1> QED
  BY <1>1, <1>3, <1>4, <1>5, <1>6, <1>7, <1>8 DEF Tables, Turns

LEMMA InsertCandidateKeeps ==
    ASSUME IInv, NEW p \in Proc, NEW k \in Key, InsertCandidate(p, k)
    PROVE  IInv'
<1>0. /\ Busy(p, k) /\ call[p][k].step = "insert" /\ Goto(p, k, "create")
      /\ cand[call[p][k].id] = NoTask
      /\ UNCHANGED <<req, point, tree, ref, mend, pid, deaths>>
  BY DEF InsertCandidate, At, Busy
<1>t. /\ TypeOK /\ Linked(p, k) /\ Reads(p, k) /\ Alone(p, k) /\ Shielded(p, k)
      /\ call[p][k].id \in Id
  BY <1>0 DEF IInv, CallInv, Linked, Tables, OwnId
<1>1. PICK i \in Id : i = call[p][k].id
  BY <1>t
<1>2. PICK r : r = [NoTask EXCEPT !.status = "creating", !.key = k]
  OBVIOUS
<1>3. r \in TaskRow /\ r.status = "creating" /\ r.key = k /\ r # NoTask
  BY <1>2, Blank DEF TaskRow, NoTask
<1>4. /\ cand' \in [Id -> TaskRow] /\ cand'[i] = r
      /\ \A j \in Id : j # i => cand'[j] = cand[j]
  <2>1. cand' = [cand EXCEPT ![i] = r]
    BY <1>1, <1>2 DEF InsertCandidate
  <2> QED
    BY <2>1, <1>3, <1>t DEF TypeOK
<1>5. /\ SameBut(p, k, "create") /\ call'[p][k].rev = call[p][k].rev
      /\ call'[p][k].head = call[p][k].head
  BY <1>0, <1>t, Moves DEF Step
<1>6. cand[i].status = "none" /\ cand[i].key = NONE
  BY <1>0, <1>1 DEF NoTask
<1>7. RowsGrow
  BY <1>0, <1>3, <1>4, <1>6 DEF RowsGrow, MadeGrows, Decided
<1>8. TypeOK'
  BY <1>0, <1>t, <1>4, <1>5 DEF TypeOK, SameBut
<1>9. \A q \in Proc : ~Working(q, k) /\ mend[q] # i
  <2>1. ASSUME NEW q \in Proc, Working(q, k)
        PROVE  FALSE
    <3>1. Busy(q, k) /\ cand[call[q][k].id].status # "none" /\ call[q][k].id = i
      BY <2>1, <1>1, <1>t DEF IInv, CallInv, Busy, Working, Shielded, Linked
    <3> QED
      BY <3>1, <1>6
  <2>2. \A q \in Proc : mend[q] # i
    BY <1>0, <1>1, Blank DEF IInv, Tables, MendThere
  <2> QED
    BY <2>1, <2>2
<1>10. Tables'
  <2>1. OwnId' /\ PointOfKey' /\ RecoveryReady' /\ OwnersLive'
    BY <1>0 DEF IInv, Tables, OwnId, PointOfKey, RecoveryReady, OwnersLive, Open, ownerAlive
  <2>2. TaskOfKey'
    BY <1>0, <1>1, <1>3, <1>4, <1>t DEF IInv, Tables, TaskOfKey, Open, Linked
  <2>3. TreeThere'
    BY <1>0, <1>3, <1>4 DEF IInv, Tables, TreeThere
  <2>4. RowDecided'
    <3>1. \A l \in StartKey : req[l].state \in {"succeeded", "failed"} => req[l].id \in Id
      BY DEF IInv, Tables, OwnId, Open, Key
    <3> QED
      BY <1>7, <3>1 DEF IInv, Tables, RowDecided, RowsGrow
  <2>5. MendThere'
    BY <1>0, <1>t, <1>3, <1>4 DEF IInv, Tables, MendThere, TypeOK
  <2>6. SuccessIsThere'
    BY <1>7, MadeStays DEF IInv, Tables, SuccessIsThere, RowsGrow
  <2> QED
    BY <2>1, <2>2, <2>3, <2>4, <2>5, <2>6 DEF Tables
<1>11. CallInv(p, k)'
  <2>1. Linked(p, k)'
    BY <1>0, <1>t, <1>5 DEF Linked, SameBut, Open, ownerAlive
  <2>2. Reads(p, k)'
    BY <1>0, <1>t, <1>5 DEF Reads, SameBut
  <2>3. Alone(p, k)'
    BY <1>0, <1>t, <1>5 DEF Alone, SameBut, Others, Busy
  <2>4. Shielded(p, k)'
    BY <1>0, <1>t, <1>5, <1>9, <1>1, <1>3, <1>4 DEF Shielded, SameBut, Others, Working
  <2> QED
    BY <2>1, <2>2, <2>3, <2>4 DEF CallInv
<1>12. ASSUME NEW q \in Proc, NEW l \in Key, q # p \/ l # k
       PROVE  CallInv(q, l)'
  <2>1. \A j \in Id, m \in Key : m # k => /\ cand'[j].key = m => cand[j].key = m
                                          /\ point'[j].key = m => point[j].key = m
    BY <1>0, <1>3, <1>4
  <2>2. ASSUME NEW r2 \in Proc, NEW m \in Key, Working(r2, m),
               cand'[call[r2][m].id].status = "creating"
        PROVE  cand[call[r2][m].id].status = "creating"
    <3>1. Busy(r2, m) /\ call[r2][m].id \in Id
      BY <2>2 DEF Working, Busy, IInv, CallInv, Linked, Tables, OwnId
    <3>2. call[r2][m].id # i
      BY <2>2, <3>1, <1>0, <1>1, <1>9, SameKey
    <3> QED
      BY <2>2, <3>1, <3>2, <1>4
  <2> QED
    BY <1>0, <1>5, <1>7, <1>9, <1>12, <2>1, <2>2, OthersOnRows DEF SameBut
<1> QED
  BY <1>8, <1>10, <1>11, <1>12 DEF IInv

LEMMA CreateWorktreeKeeps ==
    ASSUME IInv, NEW p \in Proc, NEW k \in Key, CreateWorktree(p, k)
    PROVE  IInv'
<1>0. /\ Busy(p, k) /\ call[p][k].step = "create" /\ Working(p, k)
      /\ UNCHANGED <<req, cand, point, ref, mend, pid, deaths>>
  BY DEF CreateWorktree, At, Busy, Working
<1>t. /\ TypeOK /\ Linked(p, k) /\ Reads(p, k) /\ Alone(p, k) /\ Shielded(p, k)
      /\ call[p][k].id \in Id
  BY <1>0 DEF IInv, CallInv, Linked, Tables, OwnId
<1>1. PICK made \in BOOLEAN, next \in {"activate", "fail", "idle"} :
          /\ next = "activate" => made
          /\ tree' = IF made THEN [tree EXCEPT ![call[p][k].id] = 1] ELSE tree
          /\ IF next = "idle" THEN Return(p, k) ELSE Goto(p, k, next)
  BY DEF CreateWorktree
<1>2. /\ tree' \in [Id -> 0..MaxHead]
      /\ \A i \in Id : tree[i] # 0 => tree'[i] # 0
      /\ next = "activate" => tree'[call[p][k].id] # 0
  BY <1>1, <1>t, Blank DEF TypeOK
<1>3. RowsGrow
  BY <1>0, <1>2 DEF RowsGrow, MadeGrows, Decided
<1>4. Tables'
  <2>1. OwnId' /\ TaskOfKey' /\ PointOfKey' /\ RecoveryReady' /\ OwnersLive' /\ MendThere'
    BY <1>0 DEF IInv, Tables, OwnId, TaskOfKey, PointOfKey, RecoveryReady, OwnersLive,
                MendThere, Open, ownerAlive
  <2>2. TreeThere' /\ RowDecided' /\ SuccessIsThere'
    BY <1>0, <1>2 DEF IInv, Tables, TreeThere, RowDecided, Decided, SuccessIsThere, Made
  <2> QED
    BY <2>1, <2>2 DEF Tables
<1>5. /\ Others(p, k) /\ call' \in [Proc -> [Key -> Call]]
      /\ CallInv(p, k)' /\ (Working(p, k)' => Working(p, k))
  <2>1. CASE next = "idle"
    BY <1>0, <1>1, <1>t, <2>1, Stops
  <2>2. CASE next # "idle"
    <3>1. /\ SameBut(p, k, next) /\ call'[p][k].rev = call[p][k].rev
          /\ call'[p][k].head = call[p][k].head
      BY <1>1, <1>t, <2>2, Moves DEF Step
    <3>2. Linked(p, k)'
      BY <1>0, <1>t, <2>2, <3>1 DEF Linked, SameBut, Open, ownerAlive
    <3>3. Reads(p, k)'
      BY <1>0, <1>2, <1>t, <2>2, <3>1 DEF Reads, Linked, SameBut
    <3>4. Alone(p, k)'
      BY <1>0, <1>t, <2>2, <3>1 DEF Alone, SameBut, Others, Busy
    <3>5. Shielded(p, k)'
      BY <1>0, <1>t, <2>2, <3>1 DEF Shielded, SameBut, Others, Working
    <3> QED
      BY <1>0, <3>1, <3>2, <3>3, <3>4, <3>5 DEF CallInv, SameBut
  <2> QED
    BY <2>1, <2>2
<1>6. TypeOK'
  BY <1>0, <1>2, <1>5, <1>t DEF TypeOK
<1>7. ASSUME NEW q \in Proc, NEW l \in Key, q # p \/ l # k
      PROVE  CallInv(q, l)'
  BY <1>0, <1>3, <1>5, <1>7, OthersOnRows
<1> QED
  BY <1>4, <1>5, <1>6, <1>7 DEF IInv

\* A creation is decided by its own call: what it relies on is the decision.
LEMMA ActivateKeeps ==
    ASSUME IInv, NEW p \in Proc, NEW k \in Key, Activate(p, k)
    PROVE  IInv'
<1>0. /\ Busy(p, k) /\ call[p][k].step = "activate"
      /\ UNCHANGED <<req, point, tree, ref, mend, pid, deaths>>
  BY DEF Activate, At, Busy
<1>t. /\ TypeOK /\ Linked(p, k) /\ Reads(p, k) /\ Alone(p, k) /\ Shielded(p, k)
      /\ call[p][k].id \in Id
  BY <1>0 DEF IInv, CallInv, Linked, Tables, OwnId
<1>1. CASE cand[call[p][k].id].status # "creating"
  BY <1>0, <1>1, Ends DEF Activate, stores
<1>2. CASE cand[call[p][k].id].status = "creating"
  <2>1. PICK i \in Id : i = call[p][k].id
    BY <1>t
  <2>2. Turns(i, "active") /\ Goto(p, k, "settle")
    BY <1>2, <1>t, <2>1, TransitionTurns DEF Activate
  <2>3. /\ RowsGrow /\ Tables'
        /\ \A j \in Id, m \in Key : /\ cand'[j].key = m => cand[j].key = m
                                    /\ point'[j].key = m => point[j].key = m
        /\ \A j \in Id : cand'[j].status = "creating" => cand[j].status = "creating"
    BY <1>0, <1>2, <1>t, <2>1, <2>2, TurnKeeps DEF Reads
  <2>4. /\ SameBut(p, k, "settle") /\ call'[p][k].rev = call[p][k].rev
    BY <1>t, <2>2, Moves DEF Step
  <2>5. TypeOK'
    BY <1>0, <1>t, <2>2, <2>4 DEF TypeOK, SameBut, Turns
  <2>6. cand[i].key = k
    <3>1. cand[i] # NoTask
      BY <1>2, <2>1 DEF NoTask
    <3> QED
      BY <3>1, <1>t, <2>1 DEF IInv, Tables, TaskOfKey, OwnId, Linked
  <2>7. CallInv(p, k)'
    <3>1. Linked(p, k)'
      BY <1>0, <1>t, <2>4 DEF Linked, SameBut, Open, ownerAlive
    <3>2. Made(k)' /\ Decided(i)'
      BY <2>2, <2>6 DEF Made, Decided, Turns
    <3>3. Reads(p, k)'
      BY <1>0, <1>t, <2>1, <2>4, <3>2 DEF Reads, SameBut
    <3>4. Alone(p, k)' /\ Shielded(p, k)'
      BY <1>0, <1>t, <2>4 DEF Alone, Shielded, SameBut, Others, Busy, Working
    <3> QED
      BY <3>1, <3>3, <3>4 DEF CallInv
  <2>8. ASSUME NEW q \in Proc, NEW l \in Key, q # p \/ l # k
        PROVE  CallInv(q, l)'
    <3>1. ~Working(p, k)' /\ Others(p, k)
      BY <2>4 DEF SameBut, Working
    <3>2. \A r \in Proc, m \in Key : Working(r, m) => call[r][m].id \in Id
      BY DEF IInv, CallInv, Linked, Tables, OwnId, Busy, Working
    <3> QED
      BY <1>0, <2>3, <2>8, <3>1, <3>2, OthersOnRows
  <2> QED
    BY <2>3, <2>5, <2>7, <2>8 DEF IInv
<1> QED
  BY <1>1, <1>2

LEMMA FailCandidateKeeps ==
    ASSUME IInv, NEW p \in Proc, NEW k \in Key, FailCandidate(p, k)
    PROVE  IInv'
<1>0. /\ Busy(p, k) /\ call[p][k].step = "fail" /\ Working(p, k)
      /\ Goto(p, k, "verdict")
      /\ UNCHANGED <<req, point, tree, ref, mend, pid, deaths>>
  BY DEF FailCandidate, At, Busy, Working
<1>t. /\ TypeOK /\ Linked(p, k) /\ Reads(p, k) /\ Alone(p, k) /\ Shielded(p, k)
      /\ call[p][k].id \in Id
  BY <1>0 DEF IInv, CallInv, Linked, Tables, OwnId
<1>1. PICK i \in Id : i = call[p][k].id
  BY <1>t
<1>2. /\ SameBut(p, k, "verdict") /\ call'[p][k].rev = call[p][k].rev
  BY <1>0, <1>t, Moves DEF Step
<1>3. CASE cand[i].status # "creating"
  <2>1. UNCHANGED stores
    BY <1>0, <1>1, <1>3 DEF FailCandidate, stores
  <2>2. Decided(i)
    <3>1. cand[i].status \in {"none", "creating", "active", "completed", "failed"}
      BY <1>t DEF TypeOK, TaskRow
    <3> QED
      BY <3>1, <1>0, <1>1, <1>3, <1>t DEF Shielded, Decided
  <2>3. Reads(p, k)'
    BY <1>0, <1>t, <1>1, <1>2, <2>1, <2>2 DEF Reads, SameBut, Decided, stores
  <2>4. ~call[p][k].replay
    BY <1>0, <1>t DEF Linked
  <2> QED
    BY <1>0, <1>2, <2>1, <2>3, <2>4, ReadsOn DEF Step
<1>4. CASE cand[i].status = "creating"
  <2>2. Turns(i, "failed")
    BY <1>1, <1>4, <1>t, TransitionTurns DEF FailCandidate
  <2>3. /\ RowsGrow /\ Tables'
        /\ \A j \in Id, m \in Key : /\ cand'[j].key = m => cand[j].key = m
                                    /\ point'[j].key = m => point[j].key = m
        /\ \A j \in Id : cand'[j].status = "creating" => cand[j].status = "creating"
    BY <1>0, <1>4, <2>2, TurnKeeps
  <2>5. TypeOK'
    BY <1>0, <1>t, <2>2, <1>2 DEF TypeOK, SameBut, Turns
  <2>7. CallInv(p, k)'
    <3>1. Linked(p, k)'
      BY <1>0, <1>t, <1>2 DEF Linked, SameBut, Open, ownerAlive
    <3>2. Decided(i)'
      BY <2>2 DEF Decided, Turns
    <3>3. Reads(p, k)'
      BY <1>0, <1>t, <1>1, <1>2, <3>2 DEF Reads, SameBut
    <3>4. Alone(p, k)' /\ Shielded(p, k)'
      BY <1>0, <1>t, <1>2 DEF Alone, Shielded, SameBut, Others, Busy, Working
    <3> QED
      BY <3>1, <3>3, <3>4 DEF CallInv
  <2>8. ASSUME NEW q \in Proc, NEW l \in Key, q # p \/ l # k
        PROVE  CallInv(q, l)'
    <3>1. ~Working(p, k)' /\ Others(p, k)
      BY <1>2 DEF SameBut, Working
    <3>2. \A r \in Proc, m \in Key : Working(r, m) => call[r][m].id \in Id
      BY DEF IInv, CallInv, Linked, Tables, OwnId, Busy, Working
    <3> QED
      BY <1>0, <2>3, <2>8, <3>1, <3>2, OthersOnRows
  <2> QED
    BY <2>3, <2>5, <2>7, <2>8 DEF IInv
<1> QED
  BY <1>3, <1>4

LEMMA CreateCheckpointRefKeeps ==
    ASSUME IInv, NEW p \in Proc, NEW k \in Key, CreateCheckpointRef(p, k)
    PROVE  IInv'
<1>0. /\ Busy(p, k) /\ call[p][k].step = "ref" /\ ~Working(p, k)
      /\ UNCHANGED <<req, cand, point, tree, mend, pid, deaths>>
  BY DEF CreateCheckpointRef, At, Busy, Working
<1>t. /\ TypeOK /\ Linked(p, k) /\ Reads(p, k) /\ Alone(p, k) /\ Shielded(p, k)
      /\ call[p][k].id \in Id /\ k \notin StartKey /\ call[p][k].head # 0
      /\ call[p][k].head \in 0..MaxHead /\ ~call[p][k].replay
  <2>1. /\ TypeOK /\ Linked(p, k) /\ Reads(p, k) /\ Alone(p, k) /\ Shielded(p, k)
    BY <1>0 DEF IInv, CallInv
  <2> QED
    BY <2>1, <1>0 DEF IInv, Linked, Reads, Tables, OwnId, TypeOK, Call
<1>1. PICK i \in Id, h \in 1..MaxHead : i = call[p][k].id /\ h = call[p][k].head
  BY <1>t, Blank
<1>2. CASE ref[i] \notin {0, h}
  <2>1. Goto(p, k, "verdict") /\ UNCHANGED stores
    BY <1>0, <1>1, <1>2 DEF CreateCheckpointRef, stores
  <2>2. SameBut(p, k, "verdict") /\ call'[p][k].rev = call[p][k].rev
    BY <1>t, <2>1, Moves DEF Step
  <2>3. Reads(p, k)'
    BY <1>0, <1>t, <2>1, <2>2 DEF Reads, SameBut, stores
  <2> QED
    BY <1>0, <1>t, <2>1, <2>2, <2>3, ReadsOn DEF Step
<1>3. CASE ref[i] \in {0, h}
  <2>1. Goto(p, k, "record") /\ ref' = [ref EXCEPT ![i] = h]
    BY <1>1, <1>3 DEF CreateCheckpointRef
  <2>2. /\ SameBut(p, k, "record") /\ call'[p][k].rev = call[p][k].rev
        /\ call'[p][k].head = h
    BY <1>1, <1>t, <2>1, Moves DEF Step
  <2>3. /\ ref' \in [Id -> 0..MaxHead] /\ ref'[i] = h
        /\ \A j \in Id : ref[j] # 0 => ref'[j] = ref[j]
    BY <1>3, <1>t, <2>1 DEF TypeOK
  <2>4. RowsGrow
    BY <1>0, <2>3 DEF RowsGrow, MadeGrows, Decided
  <2>5. TypeOK'
    BY <1>0, <1>t, <2>2, <2>3 DEF TypeOK, SameBut
  <2>6. Tables'
    <3>1. OwnId' /\ TaskOfKey' /\ PointOfKey' /\ TreeThere' /\ OwnersLive' /\ MendThere'
      BY <1>0 DEF IInv, Tables, OwnId, TaskOfKey, PointOfKey, TreeThere, OwnersLive,
                  MendThere, Open, ownerAlive
    <3>2. RowDecided' /\ SuccessIsThere'
      BY <1>0 DEF IInv, Tables, RowDecided, Decided, SuccessIsThere, Made
    <3>3. RecoveryReady'
      BY <1>0, <2>3 DEF IInv, Tables, PointOfKey, RecoveryReady
    <3> QED
      BY <3>1, <3>2, <3>3 DEF Tables
  <2>7. CallInv(p, k)'
    <3>1. Linked(p, k)'
      BY <1>0, <1>t, <2>2 DEF Linked, SameBut, Open, ownerAlive
    <3>2. Reads(p, k)'
      BY <1>0, <1>1, <1>t, <2>2, <2>3 DEF Reads, SameBut
    <3>3. Alone(p, k)' /\ Shielded(p, k)'
      BY <1>0, <1>t, <2>2 DEF Alone, Shielded, SameBut, Others, Busy, Working
    <3> QED
      BY <3>1, <3>2, <3>3 DEF CallInv
  <2>8. ASSUME NEW q \in Proc, NEW l \in Key, q # p \/ l # k
        PROVE  CallInv(q, l)'
    <3>1. ~Working(p, k)' /\ Others(p, k)
      BY <2>2 DEF SameBut, Working
    <3> QED
      BY <1>0, <2>4, <2>8, <3>1, OthersOnRows
  <2> QED
    BY <2>5, <2>6, <2>7, <2>8 DEF IInv
<1> QED
  BY <1>2, <1>3

LEMMA InsertCheckpointKeeps ==
    ASSUME IInv, NEW p \in Proc, NEW k \in Key, InsertCheckpoint(p, k)
    PROVE  IInv'
<1>0. /\ Busy(p, k) /\ call[p][k].step = "record" /\ ~Working(p, k)
      /\ UNCHANGED <<req, tree, ref, mend, pid, deaths>>
  BY DEF InsertCheckpoint, At, Busy, Working
<1>1. CASE ~RecordFits(p, k)
  BY <1>0, <1>1, Ends DEF InsertCheckpoint, stores
<1>2. CASE RecordFits(p, k)
  <2>t. /\ TypeOK /\ Linked(p, k) /\ Reads(p, k) /\ Alone(p, k) /\ Shielded(p, k)
        /\ call[p][k].id \in Id /\ k \notin StartKey /\ call[p][k].head # 0
        /\ call[p][k].head \in 0..MaxHead /\ call[p][k].task \in Id
    <3>1. /\ TypeOK /\ Linked(p, k) /\ Reads(p, k) /\ Alone(p, k) /\ Shielded(p, k)
      BY <1>0 DEF IInv, CallInv
    <3> QED
      BY <3>1, <1>0 DEF IInv, Linked, Reads, Tables, OwnId, TypeOK, Call
  <2>1. PICK i \in Id, h \in 0..MaxHead, t \in Id :
            i = call[p][k].id /\ h = call[p][k].head /\ t = call[p][k].task
    BY <2>t
  <2>2. /\ Goto(p, k, "settle") /\ cand[t].status = "active" /\ point[i] = NoPoint
        /\ point' = [point EXCEPT ![i] = [key |-> k, task |-> t, head |-> h]]
        /\ cand' = [cand EXCEPT ![t] = Recorded(cand[t], k, i)]
    BY <1>2, <2>1 DEF InsertCheckpoint, RecordFits
  <2>3. /\ point' \in [Id -> PointRow] /\ point'[i].key = k /\ point'[i].head = h
        /\ \A j \in Id : j # i => point'[j] = point[j]
    <3>1. PICK r : r = [key |-> k, task |-> t, head |-> h]
      OBVIOUS
    <3>2. r \in PointRow /\ r.key = k /\ r.head = h
      BY <3>1 DEF PointRow
    <3>3. point' = [point EXCEPT ![i] = r]
      BY <2>2, <3>1
    <3> QED
      BY <3>2, <3>3, <2>t DEF TypeOK
  <2>4. /\ cand' \in [Id -> TaskRow] /\ cand'[t].key = cand[t].key
        /\ cand'[t].status \in {"active", "completed"}
        /\ \A j \in Id : j # t => cand'[j] = cand[j]
    <3>1. cand[t] \in TaskRow
      BY <2>t DEF TypeOK
    <3>2. PICK n \in Nat : n = cand[t].rev + 1
      BY <3>1 DEF TaskRow
    <3>3. PICK r : r = Recorded(cand[t], k, i)
      OBVIOUS
    <3>4. r \in TaskRow /\ r.key = cand[t].key /\ r.status \in {"active", "completed"}
      <4>1. r = IF k \in CompleteKey
                THEN [cand[t] EXCEPT !.rev = n, !.status = "completed", !.completion = i]
                ELSE [cand[t] EXCEPT !.rev = n]
        BY <3>2, <3>3 DEF Recorded
      <4> QED
        BY <3>1, <4>1, <2>2 DEF TaskRow
    <3>5. cand' = [cand EXCEPT ![t] = r]
      BY <3>3, <2>2
    <3> QED
      BY <3>4, <3>5, <2>t DEF TypeOK
  <2>5. /\ SameBut(p, k, "settle") /\ call'[p][k].rev = call[p][k].rev
    BY <2>t, <2>2, Moves DEF Step
  <2>6. RowsGrow
    BY <1>0, <2>2, <2>3, <2>4 DEF RowsGrow, MadeGrows, Decided
  <2>7. TypeOK'
    BY <1>0, <2>t, <2>3, <2>4, <2>5 DEF TypeOK, SameBut
  <2>8. Tables'
    <3>1. OwnId' /\ OwnersLive'
      BY <1>0 DEF IInv, Tables, OwnId, OwnersLive, Open, ownerAlive
    <3>2. TaskOfKey'
      <4>1. cand[t] # NoTask
        BY <2>2 DEF NoTask
      <4> QED
        BY <1>0, <2>4, <4>1 DEF IInv, Tables, TaskOfKey, Open
    <3>3. PointOfKey'
      BY <1>0, <2>3, <2>1, <2>t DEF IInv, Tables, PointOfKey, Linked, Open
    <3>4. TreeThere'
      BY <1>0, <2>2, <2>4 DEF IInv, Tables, TreeThere
    <3>5. RowDecided'
      <4>1. \A l \in StartKey : req[l].state \in {"succeeded", "failed"} => req[l].id \in Id
        BY DEF IInv, Tables, OwnId, Open, Key
      <4> QED
        BY <2>6, <4>1 DEF IInv, Tables, RowDecided, RowsGrow
    <3>6. MendThere'
      <4>1. cand'[t] # NoTask
        BY <2>4 DEF NoTask
      <4> QED
        BY <1>0, <2>4, <4>1 DEF IInv, Tables, MendThere, TypeOK
    <3>7. SuccessIsThere'
      BY <2>6, MadeStays DEF IInv, Tables, SuccessIsThere, RowsGrow
    <3>8. RecoveryReady'
      BY <1>0, <2>1, <2>3, <2>t DEF IInv, Tables, RecoveryReady, Reads
    <3> QED
      BY <3>1, <3>2, <3>3, <3>4, <3>5, <3>6, <3>7, <3>8 DEF Tables
  <2>9. CallInv(p, k)'
    <3>1. Linked(p, k)'
      BY <1>0, <2>t, <2>5 DEF Linked, SameBut, Open, ownerAlive
    <3>2. Made(k)'
      BY <2>3 DEF Made
    <3>3. Reads(p, k)'
      BY <1>0, <2>t, <2>5, <3>2 DEF Reads, SameBut
    <3>4. Alone(p, k)' /\ Shielded(p, k)'
      BY <1>0, <2>t, <2>5 DEF Alone, Shielded, SameBut, Others, Busy, Working
    <3> QED
      BY <3>1, <3>3, <3>4 DEF CallInv
  <2>10. ASSUME NEW q \in Proc, NEW l \in Key, q # p \/ l # k
         PROVE  CallInv(q, l)'
    <3>1. ~Working(p, k)' /\ Others(p, k)
      BY <2>5 DEF SameBut, Working
    <3>2. \A r \in Proc, m \in Key : Working(r, m) => call[r][m].id \in Id
      BY DEF IInv, CallInv, Linked, Tables, OwnId, Busy, Working
    <3>3. \A j \in Id, m \in Key : m # k => /\ cand'[j].key = m => cand[j].key = m
                                            /\ point'[j].key = m => point[j].key = m
      BY <2>3, <2>4
    <3>4. \A j \in Id : cand'[j].status = "creating" => cand[j].status = "creating"
      BY <2>4
    <3> QED
      BY <1>0, <2>6, <2>10, <3>1, <3>2, <3>3, <3>4, OthersOnRows
  <2> QED
    BY <2>7, <2>8, <2>9, <2>10 DEF IInv
<1> QED
  BY <1>1, <1>2

-----------------------------------------------------------------------------
(* Every step keeps the invariant: recovery, agents and deaths.            *)

\* A row whose live owner creates it is guarded, so it is not read for repair.
LEMMA ReconcileReadsKeeps ==
    ASSUME IInv, NEW p \in Proc, NEW i \in Id, ReconcileReads(p, i)
    PROVE  IInv'
<1>0. /\ cand[i].status = "creating" /\ ~Guarded(i) /\ TypeOK
      /\ UNCHANGED <<stores, call, pid, deaths>>
      /\ mend' = [mend EXCEPT ![p] = i]
  BY DEF ReconcileReads, IInv
<1>1. mend' \in [Proc -> {0} \cup Id] /\ \A q \in Proc : mend'[q] \in {mend[q], i}
  BY <1>0 DEF TypeOK
<1>2. TypeOK'
  BY <1>0, <1>1 DEF TypeOK, stores
<1>3. Tables'
  <2>1. OwnId' /\ TaskOfKey' /\ PointOfKey' /\ TreeThere' /\ RowDecided' /\ OwnersLive'
        /\ SuccessIsThere' /\ RecoveryReady'
    BY <1>0 DEF IInv, Tables, OwnId, TaskOfKey, PointOfKey, TreeThere, RowDecided,
                OwnersLive, SuccessIsThere, RecoveryReady, Made, Open, Decided, ownerAlive,
                stores
  <2>2. cand[i] # NoTask
    BY <1>0 DEF NoTask
  <2>3. MendThere'
    BY <1>0, <1>1, <2>2 DEF IInv, Tables, MendThere, stores
  <2> QED
    BY <2>1, <2>3 DEF Tables
<1>4. ASSUME NEW q \in Proc, NEW l \in Key, Busy(q, l),
             call[q][l].step \in {"create", "activate"}, call[q][l].id = i,
             req[l].holder = q \/ deaths = 0
      PROVE  FALSE
  <2>1. Linked(q, l) /\ Shielded(q, l)
    BY <1>4 DEF IInv, CallInv
  <2>2. l \in StartKey /\ req[l].id = i /\ Open(l) /\ ~call[q][l].replay
    BY <1>4, <2>1 DEF Linked
  <2>3. CASE req[l].holder = q
    <3>1. req[l].state = "pending" /\ ownerAlive(req[l].owner)
      BY <2>1, <2>2, <2>3 DEF Shielded, ownerAlive
    <3> QED
      BY <3>1, <2>2, <1>0 DEF Guarded
  <2>4. CASE deaths = 0
    <3>1. req[l].state \in {"pending", "succeeded", "failed"}
      BY <1>0, <2>2 DEF TypeOK, Request, Open
    <3>2. req[l].state = "pending"
      BY <3>1, <1>0, <2>2 DEF IInv, Tables, RowDecided, Decided
    <3>3. ownerAlive(req[l].owner)
      BY <2>4, <2>2 DEF IInv, Tables, OwnersLive
    <3> QED
      BY <3>2, <3>3, <2>2, <1>0 DEF Guarded
  <2> QED
    BY <1>4, <2>3, <2>4
<1>5. ASSUME NEW q \in Proc, NEW l \in Key
      PROVE  CallInv(q, l)'
  <2>1. SUFFICES ASSUME Busy(q, l)'
                 PROVE  (Linked(q, l) /\ Reads(q, l) /\ Alone(q, l) /\ Shielded(q, l))'
    BY DEF CallInv
  <2>2. Busy(q, l) /\ Linked(q, l) /\ Reads(q, l) /\ Alone(q, l) /\ Shielded(q, l)
    BY <2>1, <1>0 DEF IInv, CallInv, Busy
  <2>3. Linked(q, l)' /\ Reads(q, l)' /\ Alone(q, l)'
    BY <1>0, <2>2 DEF Linked, Reads, Alone, Open, ownerAlive, Made, Decided, Busy, stores
  <2>4. Shielded(q, l)'
    BY <1>0, <1>1, <1>4, <2>2 DEF Shielded, Working, stores
  <2> QED
    BY <2>3, <2>4
<1> QED
  BY <1>2, <1>3, <1>5 DEF IInv

LEMMA ReconcileWritesKeeps ==
    ASSUME IInv, NEW p \in Proc, ReconcileWrites(p)
    PROVE  IInv'
<1>0. /\ UNCHANGED <<req, point, tree, ref, call, pid, deaths>> /\ TypeOK
      /\ mend' = [mend EXCEPT ![p] = 0] /\ mend[p] # 0
  BY DEF ReconcileWrites, IInv
<1>1. PICK i \in Id : i = mend[p]
  BY <1>0 DEF TypeOK
<1>2. mend' \in [Proc -> {0} \cup Id] /\ \A q \in Proc : mend'[q] \in {0, mend[q]}
  BY <1>0 DEF TypeOK
<1>3. CASE cand[i].status = "creating"
  <2>1. PICK s \in {"active", "failed"} : transition(i, s) /\ (s = "active" => tree[i] # 0)
    BY <1>1, <1>3 DEF ReconcileWrites
  <2>2. Turns(i, s)
    BY <1>0, <2>1, TransitionTurns
  <2>3. /\ RowsGrow /\ Tables'
        /\ \A j \in Id, m \in Key : /\ cand'[j].key = m => cand[j].key = m
                                    /\ point'[j].key = m => point[j].key = m
        /\ \A j \in Id : cand'[j].status = "creating" => cand[j].status = "creating"
    BY <1>0, <1>2, <1>3, <2>1, <2>2, TurnKeeps
  <2>4. TypeOK'
    BY <1>0, <1>2, <2>2 DEF TypeOK, Turns
  <2>5. \A q \in Proc, l \in Key : CallInv(q, l)'
    BY <1>0, <2>3, CallsOnRows
  <2> QED
    BY <2>3, <2>4, <2>5 DEF IInv
<1>4. CASE cand[i].status # "creating"
  <2>1. UNCHANGED cand
    BY <1>1, <1>4 DEF ReconcileWrites
  <2>2. RowsGrow
    BY <1>0, <1>2, <2>1 DEF RowsGrow, MadeGrows, Decided
  <2>3. TypeOK'
    BY <1>0, <1>2, <2>1 DEF TypeOK
  <2>4. Tables'
    <3>1. OwnId' /\ TaskOfKey' /\ PointOfKey' /\ TreeThere' /\ RowDecided' /\ OwnersLive'
          /\ SuccessIsThere' /\ RecoveryReady'
      BY <1>0, <2>1 DEF IInv, Tables, OwnId, TaskOfKey, PointOfKey, TreeThere, RowDecided,
                        OwnersLive, SuccessIsThere, RecoveryReady, Made, Open, Decided,
                        ownerAlive
    <3>2. MendThere'
      BY <1>2, <2>1 DEF IInv, Tables, MendThere
    <3> QED
      BY <3>1, <3>2 DEF Tables
  <2>5. \A q \in Proc, l \in Key : CallInv(q, l)'
    BY <1>0, <2>1, <2>2, CallsOnRows
  <2> QED
    BY <2>3, <2>4, <2>5 DEF IInv
<1> QED
  BY <1>3, <1>4

LEMMA AgentCommitsKeeps ==
    ASSUME IInv, NEW i \in Id, AgentCommits(i)
    PROVE  IInv'
<1>0. /\ UNCHANGED <<req, cand, point, ref, call, mend, pid, deaths>> /\ TypeOK
      /\ tree[i] \in 1..(MaxHead - 1) /\ tree' = [tree EXCEPT ![i] = tree[i] + 1]
  BY DEF AgentCommits, IInv
<1>1. /\ tree' \in [Id -> 0..MaxHead]
      /\ \A j \in Id : tree[j] # 0 => tree'[j] # 0
  BY <1>0, Blank DEF TypeOK
<1>2. RowsGrow
  BY <1>0, <1>1 DEF RowsGrow, MadeGrows, Decided, TypeOK
<1>3. TypeOK'
  BY <1>0, <1>1 DEF TypeOK
<1>4. Tables'
  <2>1. OwnId' /\ TaskOfKey' /\ PointOfKey' /\ RowDecided' /\ OwnersLive' /\ MendThere'
        /\ SuccessIsThere' /\ RecoveryReady'
    BY <1>0 DEF IInv, Tables, OwnId, TaskOfKey, PointOfKey, RowDecided, OwnersLive,
                MendThere, SuccessIsThere, RecoveryReady, Made, Open, Decided, ownerAlive
  <2>2. TreeThere'
    BY <1>0, <1>1 DEF IInv, Tables, TreeThere
  <2> QED
    BY <2>1, <2>2 DEF Tables
<1>5. \A q \in Proc, l \in Key : CallInv(q, l)'
  BY <1>0, <1>2, CallsOnRows
<1> QED
  BY <1>3, <1>4, <1>5 DEF IInv

\* A process that dies leaves its calls; a row it was creating is no longer
\* shielded, and the other processes hold what they held.
LEMMA DieKeeps ==
    ASSUME IInv, NEW p \in Proc, Die(p)
    PROVE  IInv'
<1>0. /\ UNCHANGED <<req, cand, point, tree, ref>> /\ TypeOK
      /\ deaths < MaxDeaths /\ deaths' = deaths + 1
      /\ pid' = [pid EXCEPT ![p] = Cardinality(Proc) + deaths + 1]
      /\ call' = [call EXCEPT ![p] = [k \in Key |-> NoCall]]
      /\ mend' = [mend EXCEPT ![p] = 0]
  BY DEF Die, stores, IInv
<1>1. /\ deaths' \in 0..MaxDeaths /\ deaths' # 0
      /\ Cardinality(Proc) + deaths + 1 \in Pid
  BY <1>0, Blank DEF TypeOK, Pid
<1>2. /\ pid' \in [Proc -> Pid] /\ \A q \in Proc : q # p => pid'[q] = pid[q]
      /\ call' \in [Proc -> [Key -> Call]]
      /\ \A q \in Proc : q # p => call'[q] = call[q]
      /\ \A k \in Key : call'[p][k] = NoCall
      /\ mend' \in [Proc -> {0} \cup Id] /\ \A q \in Proc : mend'[q] \in {0, mend[q]}
  BY <1>0, <1>1, Blank DEF TypeOK
<1>3. TypeOK'
  BY <1>0, <1>1, <1>2 DEF TypeOK
<1>4. Tables'
  <2>1. OwnId' /\ TaskOfKey' /\ PointOfKey' /\ TreeThere' /\ RowDecided'
        /\ SuccessIsThere' /\ RecoveryReady'
    BY <1>0 DEF IInv, Tables, OwnId, TaskOfKey, PointOfKey, TreeThere, RowDecided,
                SuccessIsThere, RecoveryReady, Made, Open, Decided
  <2>2. OwnersLive' /\ MendThere'
    BY <1>0, <1>1, <1>2 DEF IInv, Tables, OwnersLive, MendThere
  <2> QED
    BY <2>1, <2>2 DEF Tables
<1>5. ASSUME NEW q \in Proc, NEW l \in Key
      PROVE  CallInv(q, l)'
  <2>0. \A k \in Key : ~Busy(p, k)' /\ ~Working(p, k)'
    BY <1>2 DEF Busy, Working, NoCall
  <2>1. SUFFICES ASSUME Busy(q, l)'
                 PROVE  (Linked(q, l) /\ Reads(q, l) /\ Alone(q, l) /\ Shielded(q, l))'
    BY DEF CallInv
  <2>2. /\ q # p /\ call'[q] = call[q] /\ pid'[q] = pid[q]
        /\ \A r \in Proc : /\ Busy(r, l)' => Busy(r, l)
                           /\ Working(r, l)' => Working(r, l)
    BY <2>0, <2>1, <1>2 DEF Busy, Working
  <2>3. /\ Busy(q, l) /\ Linked(q, l) /\ Reads(q, l) /\ Alone(q, l) /\ Shielded(q, l)
        /\ call[q][l].id \in Id
    BY <2>1, <2>2 DEF IInv, CallInv, Busy, Linked, Tables, OwnId
  <2>4. Linked(q, l)' /\ Reads(q, l)'
    BY <1>0, <1>1, <2>2, <2>3 DEF Linked, Reads, Open, Made, Decided
  <2>5. Alone(q, l)'
    BY <1>0, <2>2, <2>3 DEF Alone
  <2>6. Shielded(q, l)'
    <3>1. Working(q, l)' => /\ cand'[call'[q][l].id].status # "none"
                            /\ \A r \in Proc : Working(r, l)' => r = q
      BY <1>0, <2>2, <2>3 DEF Shielded
    <3>2. req'[l].holder = q /\ ~call'[q][l].replay =>
            req'[l].state = "pending" /\ req'[l].owner = pid'[q]
      BY <1>0, <2>2, <2>3 DEF Shielded
    <3>3. call[q][l].id # 0
      BY <2>3, Blank
    <3>4. (/\ call'[q][l].step \in {"create", "activate"}
           /\ cand'[call'[q][l].id].status = "creating"
           /\ req'[l].holder = q \/ deaths' = 0)
          => \A r \in Proc : mend'[r] # call'[q][l].id
      BY <1>0, <1>1, <1>2, <2>2, <2>3, <3>3 DEF Shielded
    <3> QED
      BY <3>1, <3>2, <3>4 DEF Shielded
  <2> QED
    BY <2>4, <2>5, <2>6
<1> QED
  BY <1>3, <1>4, <1>5 DEF IInv

-----------------------------------------------------------------------------
(* The theorems.                                                           *)

LEMMA Start == Init => IInv
<1>1. SUFFICES ASSUME Init PROVE IInv
  OBVIOUS
<1>2. TypeOK
  <2>1. 1..Cardinality(Proc) \subseteq Pid /\ 0 \in 0..MaxDeaths /\ 0 \in 0..MaxHead
    BY Blank DEF Pid
  <2> QED
    BY <1>1, <2>1, Blank DEF Init, TypeOK
<1>3. /\ \A k \in Key : ~Open(k)
      /\ \A i \in Id : cand[i] = NoTask /\ point[i] = NoPoint
      /\ \A p \in Proc : mend[p] = 0 /\ \A k \in Key : ~Busy(p, k)
  BY <1>1 DEF Init, Open, Busy, NoRequest, NoCall
<1>4. Tables
  <2>1. \A i \in Id : cand[i].status = "none"
    BY <1>3 DEF NoTask
  <2>2. \A k \in Key : req[k].state = "none"
    BY <1>3 DEF Open
  <2> QED
    BY <1>3, <2>1, <2>2 DEF Tables, OwnId, TaskOfKey, PointOfKey, TreeThere, RowDecided,
         OwnersLive, MendThere, SuccessIsThere, RecoveryReady, Key
<1> QED
  BY <1>2, <1>3, <1>4 DEF IInv, CallInv

LEMMA GoesKeeps ==
    ASSUME IInv, NEW p \in Proc, NEW k \in Key, Goes(p, k)
    PROVE  IInv'
  BY SettleSucceededKeeps, SettleFailedKeeps, StartFindsKeeps, RecoveringKeeps,
     InspectMainKeeps, InsertCandidateKeeps, CreateWorktreeKeeps, ActivateKeeps,
     FailCandidateKeeps, RecordFindsKeeps, InspectCandidateKeeps, PreviewSnapshotKeeps,
     CreateCheckpointRefKeeps, InsertCheckpointKeeps, AbortKeeps, BreakKeeps
  DEF Goes

LEMMA Stays ==
    ASSUME IInv, UNCHANGED vars
    PROVE  IInv'
<1>1. TypeOK'
  BY DEF IInv, TypeOK, vars
<1>2. Tables'
  BY DEF IInv, Tables, OwnId, TaskOfKey, PointOfKey, TreeThere, RowDecided, OwnersLive,
         MendThere, SuccessIsThere, RecoveryReady, Made, Open, Decided, ownerAlive, vars
<1>3. ASSUME NEW p \in Proc, NEW k \in Key PROVE CallInv(p, k)'
  BY DEF IInv, CallInv, Linked, Reads, Alone, Shielded, Busy, Working, Open, Made,
         Decided, ownerAlive, vars
<1> QED
  BY <1>1, <1>2, <1>3 DEF IInv

\* IInv is an invariant: it holds at the start and every step keeps it.
THEOREM Invariant == Spec => []IInv
<1>1. IInv /\ [Next]_vars => IInv'
  <2>1. SUFFICES ASSUME IInv, [Next]_vars PROVE IInv'
    OBVIOUS
  <2>2. ASSUME NEW p \in Proc, NEW k \in Key, Asked(p, k) PROVE IInv'
    BY <2>1, <2>2, BeginKeeps
  <2>3. ASSUME NEW p \in Proc, NEW k \in Key, Goes(p, k) PROVE IInv'
    BY <2>1, <2>3, GoesKeeps
  <2>4. ASSUME NEW p \in Proc, Reconcile(p) PROVE IInv'
    BY <2>1, <2>4, ReconcileReadsKeeps, ReconcileWritesKeeps DEF Reconcile
  <2>5. ASSUME NEW p \in Proc, Die(p) PROVE IInv'
    BY <2>1, <2>5, DieKeeps
  <2>6. ASSUME NEW i \in Id, AgentCommits(i) PROVE IInv'
    BY <2>1, <2>6, AgentCommitsKeeps
  <2>7. CASE UNCHANGED vars
    BY <2>1, <2>7, Stays
  <2> QED
    BY <2>1, <2>2, <2>3, <2>4, <2>5, <2>6, <2>7 DEF Next
<1> QED
  BY Start, <1>1, PTL DEF Spec

\* The tables and the calls keep their types: every id that is minted, every
\* owner and every head is one of the instance's.
THEOREM TypeCorrect == Spec => []TypeOK
<1>1. IInv => TypeOK
  BY DEF IInv
<1> QED
  BY Invariant, <1>1, PTL

\* A client request makes one candidate or one checkpoint, in however many
\* processes it is repeated: each row belongs to the key whose reservation
\* minted its id.
THEOREM OneArtifactHolds == Spec => []OneArtifact
<1>1. IInv => OneArtifact
  <2>1. SUFFICES ASSUME IInv, NEW k \in Key, NEW i \in Id, NEW j \in Id,
                        \/ cand[i].key = k /\ cand[j].key = k
                        \/ point[i].key = k /\ point[j].key = k
                 PROVE  i = j
    BY DEF OneArtifact
  <2>2. CASE cand[i].key = k /\ cand[j].key = k
    <3>1. cand[i] # NoTask /\ cand[j] # NoTask
      BY <2>2, Blank DEF NoTask
    <3> QED
      BY <2>1, <2>2, <3>1 DEF IInv, Tables, TaskOfKey
  <2>3. CASE point[i].key = k /\ point[j].key = k
    <3>1. point[i] # NoPoint /\ point[j] # NoPoint
      BY <2>3, Blank DEF NoPoint
    <3> QED
      BY <2>1, <2>3, <3>1 DEF IInv, Tables, PointOfKey
  <2> QED
    BY <2>1, <2>2, <2>3
<1> QED
  BY Invariant, <1>1, PTL

\* A request that is answered with success has its candidate or checkpoint.
THEOREM SuccessHolds == Spec => []SuccessIsThere
<1>1. IInv => SuccessIsThere
  BY DEF IInv, Tables
<1> QED
  BY Invariant, <1>1, PTL

\* A recorded checkpoint can be gone back to: its ref is there and names its head.
THEOREM RecoveryReadyHolds == Spec => []RecoveryReady
<1>1. IInv => RecoveryReady
  BY DEF IInv, Tables
<1> QED
  BY Invariant, <1>1, PTL

\* A candidate somebody is creating is not failed by anybody else, while its
\* creator holds the reservation or nobody has died: only its own call or a
\* recovery fails a row, and a recovery reads no guarded row.
THEOREM CreatorHolds == Spec => CreatorUndisturbed
<1>1. ASSUME IInv, Next, NEW i \in Id, NEW p \in Proc, NEW k \in StartKey,
             call[p][k].step \in {"create", "activate"}, call[p][k].id = i,
             call'[p][k] = call[p][k], cand[i].status = "creating",
             req[k].holder = p \/ deaths = 0
      PROVE  cand'[i].status # "failed"
  <2>k. k \in Key /\ TypeOK
    BY <1>1 DEF Key, IInv
  <2>0. Busy(p, k) /\ Working(p, k) /\ Shielded(p, k)
    BY <1>1, <2>k DEF Busy, Working, IInv, CallInv
  <2>u. CASE UNCHANGED cand
    BY <1>1, <2>u
  <2>1. ASSUME NEW q \in Proc, NEW l \in Key, InsertCandidate(q, l)
        PROVE  cand'[i].status # "failed"
    <3>1. /\ cand[call[q][l].id] = NoTask
          /\ cand' = [cand EXCEPT ![call[q][l].id] =
                         [NoTask EXCEPT !.status = "creating", !.key = l]]
      BY <2>1 DEF InsertCandidate
    <3>2. call[q][l].id # i
      BY <1>1, <3>1 DEF NoTask
    <3> QED
      BY <1>1, <2>k, <3>1, <3>2 DEF TypeOK
  <2>2. ASSUME NEW q \in Proc, NEW l \in Key, Activate(q, l)
        PROVE  cand'[i].status # "failed"
    <3>1. Busy(q, l) /\ call[q][l].id \in Id
      BY <1>1, <2>2 DEF Activate, At, Busy, IInv, CallInv, Linked, Tables, OwnId
    <3>2. PICK j \in Id : j = call[q][l].id
      BY <3>1
    <3>3. UNCHANGED cand \/ Turns(j, "active")
      BY <2>k, <2>2, <3>2, TransitionTurns DEF Activate
    <3> QED
      BY <1>1, <3>3 DEF Turns
  <2>3. ASSUME NEW q \in Proc, NEW l \in Key, FailCandidate(q, l)
        PROVE  cand'[i].status # "failed"
    <3>1. /\ Busy(q, l) /\ Working(q, l) /\ call[q][l].id \in Id
          /\ call[q][l].step = "fail" /\ Goto(q, l, "verdict")
      BY <1>1, <2>3 DEF FailCandidate, At, Busy, Working, IInv, CallInv, Linked, Tables,
                        OwnId
    <3>2. PICK j \in Id : j = call[q][l].id
      BY <3>1
    <3>3. UNCHANGED cand \/ Turns(j, "failed")
      BY <2>k, <2>3, <3>2, TransitionTurns DEF FailCandidate
    <3>4. j # i
      BY <1>1, <2>0, <2>k, <3>1, <3>2, SameKey DEF Shielded
    <3> QED
      BY <1>1, <3>3, <3>4 DEF Turns
  <2>4. ASSUME NEW q \in Proc, NEW l \in Key, InsertCheckpoint(q, l)
        PROVE  cand'[i].status # "failed"
    <3>1. CASE UNCHANGED cand
      BY <1>1, <3>1
    <3>2. CASE /\ cand[call[q][l].task].status = "active"
               /\ cand' = [cand EXCEPT ![call[q][l].task] =
                              Recorded(cand[call[q][l].task], l, call[q][l].id)]
      BY <1>1, <2>k, <3>2 DEF TypeOK
    <3> QED
      BY <2>4, <3>1, <3>2 DEF InsertCheckpoint, RecordFits
  <2>5. ASSUME NEW q \in Proc, ReconcileWrites(q)
        PROVE  cand'[i].status # "failed"
    <3>1. PICK j \in Id : j = mend[q] /\ j # i
      BY <1>1, <2>0, <2>5, <2>k DEF ReconcileWrites, TypeOK, Shielded
    <3>2. UNCHANGED cand \/ Turns(j, "active") \/ Turns(j, "failed")
      BY <2>k, <2>5, <3>1, TransitionTurns DEF ReconcileWrites
    <3> QED
      BY <1>1, <3>1, <3>2 DEF Turns
  <2>6. ASSUME NEW q \in Proc, NEW l \in Key, Goes(q, l)
        PROVE  cand'[i].status # "failed"
    <3>1. \/ UNCHANGED cand \/ InsertCandidate(q, l) \/ Activate(q, l)
          \/ FailCandidate(q, l) \/ InsertCheckpoint(q, l)
      BY <2>6 DEF Goes, SettleSucceeded, SettleFailedVerdict, StartFinds, Recovering,
             InspectMain, CreateWorktree, RecordFinds, InspectCandidate, PreviewSnapshot,
             CreateCheckpointRef, Abort, Break, stores
    <3> QED
      BY <2>u, <2>1, <2>2, <2>3, <2>4, <3>1
  <2>7. ASSUME NEW q \in Proc, NEW l \in Key, Asked(q, l)
        PROVE  UNCHANGED cand
    BY <2>7 DEF Asked, BeginRequest
  <2>8. ASSUME NEW q \in Proc, NEW j \in Id, ReconcileReads(q, j)
        PROVE  UNCHANGED cand
    BY <2>8 DEF ReconcileReads, stores
  <2>9. ASSUME NEW q \in Proc, Die(q)
        PROVE  UNCHANGED cand
    BY <2>9 DEF Die, stores
  <2>10. ASSUME NEW j \in Id, AgentCommits(j)
         PROVE  UNCHANGED cand
    BY <2>10 DEF AgentCommits
  <2> QED
    BY <1>1, <2>u, <2>5, <2>6, <2>7, <2>8, <2>9, <2>10 DEF Next, Reconcile
<1>2. IInv /\ [Next]_vars =>
        [\A i \in Id, p \in Proc, k \in StartKey :
            (/\ call[p][k].step \in {"create", "activate"} /\ call[p][k].id = i
             /\ call'[p][k] = call[p][k] /\ cand[i].status = "creating"
             /\ req[k].holder = p \/ deaths = 0)
            => cand'[i].status # "failed"]_vars
  BY <1>1
<1> QED
  BY Invariant, <1>2, PTL DEF Spec, CreatorUndisturbed
=============================================================================
