-------------------------- MODULE WriterLeaseProofs --------------------------
(***************************************************************************)
(* Theorems about the writer lease for every number of GUI processes,      *)
(* calls, delegations, worktrees and leases.  The inductive invariant has  *)
(* a part for the task row (TaskInv), the section each process is in       *)
(* (SectionInv), the take-over (ApplyInv), who holds a capability of the   *)
(* active lease (HoldInv) and what a call may still do (CallInv).          *)
(***************************************************************************)
EXTENDS WriterLeaseProps, TLAPS

-----------------------------------------------------------------------------
(* The inductive invariant.                                                *)

Drawn == 1..(next - 1)   \* the leases that exist

TaskInv ==
    /\ StoreConsistent
    /\ active # 0 => phase = "open"
    /\ phase # "none" => tree \in Trees

\* The lease a section began with exists, and has ended if it is being tidied.
SectionInv ==
    \A g \in Guis :
        /\ gop[g].step \notin {"idle", "remove"} => gop[g].old \in Drawn
        /\ gop[g].step = "children" => gop[g].old # active
        /\ gop[g].step = "run" => gop[g].r \in Calls
        /\ gop[g].step = "delegate" => gop[g].c \in Children
        /\ making[g].step # "none" => making[g].tree \in Trees

\* One process at a time is in a take-over, and it knows what it did.
ApplyInv ==
    /\ \A g \in Guis :
        /\ apply[g] # "none" => phase = "applying"
        /\ apply[g] = "done" => project = "new"
    /\ \A g, h \in Guis : apply[g] # "none" /\ apply[h] # "none" => g = h
    /\ AppliedMeansNew

\* A call is past its last write once its lease has ended.
CallInv ==
    \A r \in Calls :
        /\ call[r].agent # "none" => call[r].epoch \in Drawn
        /\ call[r].late > 0 => /\ call[r].late = 1
                               /\ call[r].agent \in {"none", "up"}
                               /\ call[r].epoch \in Drawn \ {active}

Running(r) == call[r].step \in {"going", "aborted"}

\* A section that is about to let somebody write.
Acting(o) == o.step = "delegate" \/ (o.step = "run" /\ o.c \notin Readers)

\* One process holds the capability of a lease, or is about to; who acts under
\* the active lease, or is about to, belongs to that process.
HoldInv ==
    /\ \A g \in Guis : caps[g] \subseteq Drawn /\ gop[g].new \in Drawn \cup {0}
    /\ \A g, h \in Guis : caps[g] \cap caps[h] # {} => g = h
    /\ \A g, h \in Guis : gop[g].new # 0 =>
          gop[g].new \notin caps[h] /\ (gop[h].new = gop[g].new => g = h)
    /\ \A g \in Guis, c \in Children : c \in dcaps[g] =>
          /\ child[c].parent \in Drawn
          /\ child[c].parent = active => active \in caps[g]
    /\ \A g \in Guis :
          /\ gop[g].step = "run" => g \notin busy
          /\ Acting(gop[g]) /\ gop[g].old = active => active \in caps[g]

\* A delegation is inserted once.
FreshInv ==
    /\ \A g \in Guis : \A c \in dcaps[g] : child[c].state # "none"
    /\ \A g \in Guis :
          gop[g].step = "delegate" => child[gop[g].c].state = "none"
    /\ \A g, h \in Guis :
          /\ gop[g].step = "delegate" /\ gop[h].step = "delegate"
          /\ gop[g].c = gop[h].c
          => g = h

\* A process runs one call at a time, and holds the lease it runs under.
RunInv ==
    /\ \A r \in Calls : Running(r) =>
          /\ call[r].gui \in busy
          /\ call[r].epoch \in Drawn
          /\ call[r].epoch = active /\ call[r].c \notin Readers =>
                active \in caps[call[r].gui]
    /\ \A r, s \in Calls :
          Running(r) /\ Running(s) /\ call[r].gui = call[s].gui => r = s

IInv ==
    /\ TypeOK /\ TaskInv /\ SectionInv /\ ApplyInv
    /\ CallInv /\ HoldInv /\ FreshInv /\ RunInv

-----------------------------------------------------------------------------
(* Which actions write which part of the state.                            *)

\* The task row moves only by a grant, a switch, an end or a take-over.
LEMMA WritersOfStore ==
    ASSUME [Next]_vars
    PROVE  \/ UNCHANGED storeVars
           \/ \E g \in Guis : \/ GrantNewTask(g) \/ GrantAgain(g) \/ Switch(g)
                              \/ Complete(g) \/ RevokeByActor(g)
                              \/ RevokeUnrecoverable(g) \/ BeginApply(g)
                              \/ FinishApply(g) \/ FailApply(g)
<1>1. UNCHANGED vars => UNCHANGED storeVars
  BY DEF vars, storeVars
<1>2. ASSUME NEW r \in Calls, CallStep(r) PROVE UNCHANGED storeVars
  BY <1>2 DEF CallStep, agentUnchanged, Heartbeat, CallEnds, AuthorizeWriter,
     ReadParent, AuthorizeChild, AgentWrites, AgentExits
<1>3. Stall => UNCHANGED storeVars
  BY DEF Stall
<1> QED
  BY <1>1, <1>2, <1>3 DEF Next, GuiStep, CreateTree, CleanupTree, RemoveAgent, Start,
     RevokeChildren, Delegate, CreateChild, ReadRun, BeginRun, Cancel, ApplyFiles,
     Crash

\* The calls: begun by a run, aborted by a cancel or the end of their lease,
\* lost with their process, and otherwise moved by their own steps.
LEMMA WritersOfCall ==
    ASSUME [Next]_vars
    PROVE  \/ UNCHANGED call
           \/ \E g \in Guis : \/ BeginRun(g) \/ Cancel(g) \/ RevokeChildren(g)
                              \/ Crash(g)
           \/ \E r \in Calls : CallStep(r)
<1>1. UNCHANGED vars \/ Stall => UNCHANGED call
  BY DEF vars, Stall
<1>2. ASSUME NEW g \in Guis,
             \/ CreateTree(g) \/ GrantNewTask(g) \/ CleanupTree(g) \/ GrantAgain(g)
             \/ Switch(g) \/ Complete(g) \/ RemoveAgent(g) \/ RevokeByActor(g)
             \/ Start(g) \/ RevokeUnrecoverable(g)
      PROVE  UNCHANGED call
  BY <1>2 DEF CreateTree, GrantNewTask, Grant, CleanupTree, GrantAgain, Switch,
     Complete, RemoveAgent, RevokeByActor, Start, RevokeUnrecoverable
<1>3. ASSUME NEW g \in Guis,
             \/ \E c \in Children : Delegate(g, c)
             \/ CreateChild(g)
             \/ \E r \in Calls, c \in Children \cup {NONE} : ReadRun(g, r, c)
             \/ BeginApply(g) \/ ApplyFiles(g) \/ FinishApply(g) \/ FailApply(g)
      PROVE  UNCHANGED call
  BY <1>3 DEF Delegate, CreateChild, ReadRun, BeginApply, ApplyFiles, FinishApply,
     FailApply, SettleApply
<1> QED
  BY <1>1, <1>2, <1>3 DEF Next, GuiStep

\* Sections and worktrees in the making.
LEMMA WritersOfSections ==
    ASSUME [Next]_vars
    PROVE  \/ UNCHANGED <<gop, making>>
           \/ \E g \in Guis :
                \/ CreateTree(g) \/ GrantNewTask(g) \/ CleanupTree(g)
                \/ Switch(g) \/ Complete(g) \/ RemoveAgent(g) \/ RevokeByActor(g)
                \/ Start(g) \/ RevokeUnrecoverable(g) \/ RevokeChildren(g)
                \/ \E c \in Children : Delegate(g, c)
                \/ CreateChild(g)
                \/ \E r \in Calls, c \in Children \cup {NONE} : ReadRun(g, r, c)
                \/ BeginRun(g) \/ Crash(g)
<1>1. UNCHANGED vars \/ Stall => UNCHANGED <<gop, making>>
  BY DEF vars, Stall
<1>2. ASSUME NEW r \in Calls, CallStep(r) PROVE UNCHANGED <<gop, making>>
  BY <1>2 DEF CallStep, agentUnchanged, Heartbeat, CallEnds, AuthorizeWriter,
     ReadParent, AuthorizeChild, AgentWrites, AgentExits
<1>3. ASSUME NEW g \in Guis,
             \/ GrantAgain(g) \/ Cancel(g)
             \/ BeginApply(g) \/ ApplyFiles(g) \/ FinishApply(g) \/ FailApply(g)
      PROVE  UNCHANGED <<gop, making>>
  BY <1>3 DEF GrantAgain, Grant, Cancel, BeginApply, ApplyFiles, FinishApply,
     FailApply, SettleApply
<1> QED
  BY <1>1, <1>2, <1>3 DEF Next, GuiStep

\* The take-over moves by its own steps, or is lost with its process.
LEMMA WritersOfApply ==
    ASSUME [Next]_vars
    PROVE  \/ UNCHANGED applyVars
           \/ \E g \in Guis : \/ BeginApply(g) \/ ApplyFiles(g) \/ FinishApply(g)
                              \/ FailApply(g) \/ Crash(g)
<1>1. UNCHANGED vars \/ Stall => UNCHANGED applyVars
  BY DEF vars, applyVars, Stall
<1>2. ASSUME NEW r \in Calls, CallStep(r) PROVE UNCHANGED applyVars
  BY <1>2 DEF CallStep, agentUnchanged, Heartbeat, CallEnds, AuthorizeWriter,
     ReadParent, AuthorizeChild, AgentWrites, AgentExits
<1>3. ASSUME NEW g \in Guis,
             \/ CreateTree(g) \/ GrantNewTask(g) \/ CleanupTree(g) \/ GrantAgain(g)
             \/ Switch(g) \/ Complete(g) \/ RemoveAgent(g) \/ RevokeByActor(g)
             \/ Start(g) \/ RevokeUnrecoverable(g)
      PROVE  UNCHANGED applyVars
  BY <1>3 DEF CreateTree, GrantNewTask, Grant, CleanupTree, GrantAgain, Switch,
     Complete, RemoveAgent, RevokeByActor, Start, RevokeUnrecoverable
<1>4. ASSUME NEW g \in Guis,
             \/ RevokeChildren(g)
             \/ \E c \in Children : Delegate(g, c)
             \/ CreateChild(g)
             \/ \E r \in Calls, c \in Children \cup {NONE} : ReadRun(g, r, c)
             \/ BeginRun(g) \/ Cancel(g)
      PROVE  UNCHANGED applyVars
  BY <1>4 DEF RevokeChildren, Delegate, CreateChild, ReadRun, BeginRun, Cancel
<1> QED
  BY <1>1, <1>2, <1>3, <1>4 DEF Next, GuiStep

-----------------------------------------------------------------------------
(* The task row.                                                           *)

\* The five moves of the task row.
Granted ==
    /\ active = 0 /\ phase \in {"none", "open"} /\ Draw
    /\ lease' = [lease EXCEPT ![next] = "active"]
    /\ phase' = "open" /\ tree' \in Trees
Switched ==
    /\ active # 0 /\ Draw
    /\ lease' = [lease EXCEPT ![active] = "revoked", ![next] = "active"]
    /\ UNCHANGED <<phase, tree>>
Ended == active # 0 /\ \E state \in {"revoked", "completed"} : EndLease(state)
Taken ==
    /\ active = 0 /\ phase = "open" /\ phase' = "applying"
    /\ UNCHANGED <<lease, next, active, tree>>
Handed ==
    /\ phase = "applying" /\ phase' \in {"open", "applied"}
    /\ UNCHANGED <<lease, next, active, tree>>

\* Every step of the system is one of them, or leaves the task row alone.
LEMMA StoreMoves ==
    ASSUME TaskInv, SectionInv, [Next]_vars
    PROVE  UNCHANGED storeVars \/ Granted \/ Switched \/ Ended \/ Taken \/ Handed
<1>1. ASSUME NEW g \in Guis, GrantNewTask(g)
      PROVE  UNCHANGED storeVars \/ Granted
  <2>1. making[g].tree \in Trees
    BY <1>1 DEF GrantNewTask, SectionInv
  <2> QED
    BY <1>1, <2>1 DEF GrantNewTask, Grant, Granted, TaskInv
<1>2. ASSUME NEW g \in Guis, GrantAgain(g) PROVE Granted
  BY <1>2 DEF GrantAgain, Grant, Granted, TaskInv
<1>3. ASSUME NEW g \in Guis, Switch(g) PROVE Switched
  BY <1>3 DEF Switch, Switched
<1>4. ASSUME NEW g \in Guis, Complete(g) PROVE Ended
  BY <1>4 DEF Complete, Ended
<1>5. ASSUME NEW g \in Guis, RevokeByActor(g) PROVE UNCHANGED storeVars \/ Ended
  BY <1>5 DEF RevokeByActor, Ended
<1>6. ASSUME NEW g \in Guis, RevokeUnrecoverable(g)
      PROVE  UNCHANGED storeVars \/ Ended
  <2>1. gop[g].old \in Drawn /\ gop[g].old # 0
    BY <1>6 DEF RevokeUnrecoverable, SectionInv, Drawn
  <2> QED
    BY <1>6, <2>1 DEF RevokeUnrecoverable, Ended
<1>7. ASSUME NEW g \in Guis, BeginApply(g) PROVE Taken
  BY <1>7 DEF BeginApply, Taken
<1>8. ASSUME NEW g \in Guis, FinishApply(g) \/ FailApply(g) PROVE Handed
  BY <1>8 DEF FinishApply, FailApply, SettleApply, Handed
<1> QED
  BY <1>1, <1>2, <1>3, <1>4, <1>5, <1>6, <1>7, <1>8, WritersOfStore

StoreTyped ==
    /\ lease \in [Epochs -> {"none", "active", "revoked", "completed"}]
    /\ next \in 1..(MaxEpoch + 1)
    /\ active \in 0..MaxEpoch
    /\ phase \in {"none", "open", "applying", "applied"}
    /\ tree \in Trees \cup {NONE}

\* The task row keeps its invariant, and a lease that has ended stays ended.
LEMMA TaskStep ==
    ASSUME StoreTyped, TaskInv, SectionInv, [Next]_vars
    PROVE  /\ TaskInv' /\ StoreTyped'
           /\ Drawn \subseteq Drawn'
           /\ active' = active \/ active' = 0 \/ active' \notin Drawn
           /\ active' # active => active \in Drawn \cup {0}
<1> USE WriterAssumption DEF StoreTyped, TaskInv, StoreConsistent, Drawn, Epochs
<1>1. CASE UNCHANGED storeVars
  BY <1>1 DEF storeVars
<1>2. CASE Granted
  BY <1>2 DEF Granted, Draw
<1>3. CASE Switched
  BY <1>3 DEF Switched, Draw
<1>4. CASE Ended
  BY <1>4 DEF Ended, EndLease
<1>5. CASE Taken
  BY <1>5 DEF Taken
<1>6. CASE Handed
  BY <1>6 DEF Handed
<1> QED
  BY <1>1, <1>2, <1>3, <1>4, <1>5, <1>6, StoreMoves

-----------------------------------------------------------------------------
(* The take-over.                                                          *)

\* No step finds two processes in a take-over, or ends one as applied that did
\* not apply its files.
LEMMA ApplyStep ==
    ASSUME ApplyInv, apply \in [Guis -> {"none", "going", "done", "failed"}],
           TaskInv, SectionInv, [Next]_vars
    PROVE  ApplyInv'
<1> USE DEF ApplyInv, AppliedMeansNew
<1>1. ASSUME UNCHANGED applyVars,
             phase' = phase \/ (phase \in {"none", "open"} /\ phase' = "open")
      PROVE  ApplyInv'
  BY <1>1 DEF applyVars
<1>2. ASSUME NEW g \in Guis, BeginApply(g) PROVE ApplyInv'
  BY <1>2 DEF BeginApply
<1>3. ASSUME NEW g \in Guis, ApplyFiles(g) PROVE ApplyInv'
  BY <1>3 DEF ApplyFiles, storeVars
<1>4. ASSUME NEW g \in Guis, FinishApply(g) PROVE ApplyInv'
  BY <1>4 DEF FinishApply, SettleApply
<1>5. ASSUME NEW g \in Guis, FailApply(g) PROVE ApplyInv'
  BY <1>5 DEF FailApply, SettleApply
<1>6. ASSUME NEW g \in Guis, Crash(g) PROVE ApplyInv'
  BY <1>6 DEF Crash, storeVars
<1>7. \/ phase' = phase \/ (phase \in {"none", "open"} /\ phase' = "open")
      \/ \E g \in Guis : BeginApply(g) \/ FinishApply(g) \/ FailApply(g)
  <2>1. ASSUME NEW g \in Guis,
               \/ GrantNewTask(g) \/ GrantAgain(g) \/ Switch(g) \/ Complete(g)
               \/ RevokeByActor(g) \/ RevokeUnrecoverable(g)
        PROVE  phase' = phase \/ (phase \in {"none", "open"} /\ phase' = "open")
    BY <2>1 DEF GrantNewTask, GrantAgain, Grant, Switch, Complete, RevokeByActor,
       RevokeUnrecoverable, EndLease, storeVars
  <2> QED
    BY <2>1, WritersOfStore DEF storeVars
<1> QED
  BY <1>1, <1>2, <1>3, <1>4, <1>5, <1>6, <1>7, WritersOfApply

-----------------------------------------------------------------------------
(* The sections.                                                           *)

\* Every section begins with a lease that exists.
LEMMA SectionStep ==
    ASSUME SectionInv, TaskInv, StoreTyped, gop \in [Guis -> Gop],
           making \in [Guis -> Making], caps \in [Guis -> SUBSET Epochs],
           [Next]_vars
    PROVE  SectionInv'
<1> DEFINE Sound(o) == /\ o.step \notin {"idle", "remove"} => o.old \in Drawn'
                       /\ o.step = "children" => o.old # active'
                       /\ o.step = "run" => o.r \in Calls
                       /\ o.step = "delegate" => o.c \in Children
           Kept(m) == m.step # "none" => m.tree \in Trees
<1>0. /\ active # 0 => active \in Drawn
      /\ Drawn \subseteq Drawn'
      /\ 0 \notin Drawn /\ next \notin Drawn
      /\ active' = active \/ active' = 0 \/ active' \notin Drawn
  BY TaskStep DEF TaskInv, StoreConsistent, StoreTyped, Drawn, Epochs
<1>1. \A g \in Guis : Sound(gop[g]) /\ Kept(making[g])
  BY <1>0 DEF SectionInv
<1>2. SUFFICES \A g \in Guis : Sound(gop'[g]) /\ Kept(making'[g])
  BY DEF SectionInv
<1>3. Sound(Idle) /\ Kept(NotMaking)
  BY DEF Idle, NotMaking
<1>4. CASE UNCHANGED <<gop, making>>
  BY <1>1, <1>4
<1>5. ASSUME NEW g \in Guis, CreateTree(g) \/ GrantNewTask(g) \/ CleanupTree(g)
      PROVE  \A h \in Guis : Sound(gop'[h]) /\ Kept(making'[h])
  BY <1>1, <1>3, <1>5 DEF CreateTree, GrantNewTask, Grant, CleanupTree, Making
<1>6. ASSUME NEW g \in Guis, NEW o, Sound(o), gop' = [gop EXCEPT ![g] = o],
             UNCHANGED making
      PROVE  \A h \in Guis : Sound(gop'[h]) /\ Kept(making'[h])
  BY <1>1, <1>6
<1>7. ASSUME NEW g \in Guis, Leave(g), making' = [making EXCEPT ![g] = NotMaking]
      PROVE  \A h \in Guis : Sound(gop'[h]) /\ Kept(making'[h])
  BY <1>1, <1>3, <1>7 DEF Leave
<1> DEFINE At(step, old, new) ==
      [Idle EXCEPT !.step = step, !.old = old, !.new = new]
<1>8. ASSUME NEW new, active # 0, active' # active
      PROVE  Sound(At("children", active, new))
  BY <1>0, <1>8 DEF Idle
<1>9. Sound(At("remove", 0, 0)) /\ (active # 0 => Sound(At("start", active, 0)))
  BY <1>0 DEF Idle
<1>10. ASSUME NEW c \in Children, active # 0
       PROVE  Sound([Idle EXCEPT !.step = "delegate", !.old = active, !.c = c])
  BY <1>0, <1>10 DEF Idle
<1>11. ASSUME NEW r \in Calls, NEW c, active # 0
       PROVE  Sound([Idle EXCEPT !.step = "run", !.old = active, !.r = r, !.c = c])
  BY <1>0, <1>11 DEF Idle
<1> HIDE DEF Sound, Kept
<1>12. ASSUME NEW g \in Guis,
              \/ Switch(g) \/ Complete(g) \/ RevokeByActor(g)
              \/ RevokeUnrecoverable(g)
       PROVE  \A h \in Guis : Sound(gop'[h]) /\ Kept(making'[h])
  <2>1. CASE Leave(g)
    BY <2>1, <1>3, <1>6, <1>12 DEF Leave, Switch, Complete, RevokeByActor,
       RevokeUnrecoverable
  <2>2. CASE ~ Leave(g)
    <3>1. gop[g].step = "start" => gop[g].old # 0
      BY <1>0 DEF SectionInv
    <3>2. \/ active' = next
          \/ active' = 0
      BY <2>2, <1>12 DEF Switch, Complete, RevokeByActor, RevokeUnrecoverable,
         EndLease, Draw
    <3>3. /\ active # 0 /\ active' # active /\ UNCHANGED making
          /\ \E new : gop' = [gop EXCEPT ![g] = At("children", active, new)]
      BY <1>0, <1>12, <2>2, <3>1, <3>2 DEF Switch, Complete, RevokeByActor,
         RevokeUnrecoverable, Enter
    <3> QED
      BY <3>3, <1>6, <1>8
  <2> QED
    BY <2>1, <2>2
<1>13. ASSUME NEW g \in Guis, RemoveAgent(g) \/ Start(g)
       PROVE  \A h \in Guis : Sound(gop'[h]) /\ Kept(making'[h])
  BY <1>1, <1>6, <1>9, <1>13 DEF RemoveAgent, Start, Enter
<1>14. ASSUME NEW g \in Guis,
              RevokeChildren(g) \/ CreateChild(g) \/ BeginRun(g)
       PROVE  \A h \in Guis : Sound(gop'[h]) /\ Kept(making'[h])
  BY <1>3, <1>6, <1>14 DEF RevokeChildren, CreateChild, BeginRun, Leave
<1>15. ASSUME NEW g \in Guis, NEW c \in Children, Delegate(g, c), active # 0
       PROVE  \A h \in Guis : Sound(gop'[h]) /\ Kept(making'[h])
  BY <1>6, <1>10, <1>15 DEF Delegate
<1>16. ASSUME NEW g \in Guis, NEW r \in Calls, NEW c \in Children \cup {NONE},
              ReadRun(g, r, c)
       PROVE  \A h \in Guis : Sound(gop'[h]) /\ Kept(making'[h])
  BY <1>6, <1>11, <1>16 DEF ReadRun
<1>17. ASSUME NEW g \in Guis, Crash(g)
       PROVE  \A h \in Guis : Sound(gop'[h]) /\ Kept(making'[h])
  BY <1>7, <1>17 DEF Crash
<1>18. ASSUME NEW g \in Guis, NEW c \in Children, Delegate(g, c)
       PROVE  active # 0
  BY <1>18 DEF Delegate, Epochs
<1> QED
  BY <1>2, <1>4, <1>5, <1>12, <1>13, <1>14, <1>15, <1>16, <1>17, <1>18,
     WritersOfSections

-----------------------------------------------------------------------------
(* The calls.                                                              *)

\* A call whose lease has ended has at most its last write behind it.
Fenced(k, drawn, a) ==
    /\ k.agent # "none" => k.epoch \in drawn
    /\ k.late > 0 => /\ k.late = 1
                     /\ k.agent \in {"none", "up"}
                     /\ k.epoch \in drawn \ {a}

\* No step lets a call whose lease has ended be cleared for another write.
LEMMA CallStepFenced ==
    ASSUME CallInv, SectionInv, TaskInv, StoreTyped, call \in [Calls -> Call],
           gop \in [Guis -> Gop], [Next]_vars
    PROVE  CallInv'
<1> DEFINE Sound(k) == Fenced(k, Drawn', active')
<1>0. /\ Drawn \subseteq Drawn'
      /\ active' = active \/ active' = 0 \/ active' \notin Drawn
      /\ 0 \notin Drawn
  BY TaskStep DEF Drawn, StoreTyped
<1>1. \A r \in Calls : Fenced(call[r], Drawn, active) /\ Sound(call[r])
  BY <1>0 DEF CallInv, Fenced
<1>2. SUFFICES \A r \in Calls : Sound(call'[r])
  BY DEF CallInv, Fenced
<1>3. Sound(NoCall)
  BY DEF NoCall, Fenced
<1>4. ASSUME NEW k \in Call, Sound(k) PROVE Sound(Settled(k))
  BY <1>3, <1>4 DEF Settled
<1>5. ASSUME NEW rs, Abort(rs) PROVE \A r \in Calls : Sound(call'[r])
  BY <1>1, <1>5 DEF Abort, Call, Fenced
<1>6. ASSUME NEW r \in Calls, NEW k, Sound(k), call' = [call EXCEPT ![r] = k]
      PROVE  \A s \in Calls : Sound(call'[s])
  BY <1>1, <1>6
<1>7. ASSUME NEW r \in Calls, NEW a \in {"none", "up", "parent", "cleared"},
             call[r].agent # "none", call[r].late = 0 \/ a \in {"none", "up"}
      PROVE  Sound([call[r] EXCEPT !.agent = a])
  BY <1>0, <1>1, <1>7 DEF Call, Fenced
<1>8. ASSUME NEW g \in Guis, BeginRun(g) PROVE \A r \in Calls : Sound(call'[r])
  <2>1. /\ gop[g].r \in Calls /\ gop[g].old \in Drawn
    BY <1>8 DEF BeginRun, SectionInv
  <2>2. Sound([step |-> "going", gui |-> g, epoch |-> gop[g].old,
               c |-> gop[g].c, agent |-> "up", late |-> 0])
    BY <1>0, <2>1 DEF Fenced
  <2> QED
    BY <1>1, <1>6, <1>8, <2>1, <2>2 DEF BeginRun
<1>9. ASSUME NEW g \in Guis, Cancel(g) \/ RevokeChildren(g)
      PROVE  \A r \in Calls : Sound(call'[r])
  BY <1>1, <1>5, <1>9 DEF Cancel, RevokeChildren
<1>10. ASSUME NEW g \in Guis, Crash(g) PROVE \A r \in Calls : Sound(call'[r])
  <2>1. \A r \in Calls : /\ [call[r] EXCEPT !.step = "over"] \in Call
                         /\ Sound([call[r] EXCEPT !.step = "over"])
    BY <1>1 DEF Call, Fenced
  <2>2. \A r \in Calls : \/ call'[r] = Settled([call[r] EXCEPT !.step = "over"])
                         \/ call'[r] = call[r]
    BY <1>10 DEF Crash
  <2> HIDE DEF Sound
  <2> QED
    BY <1>1, <1>4, <2>1, <2>2
<1>11. ASSUME NEW r \in Calls, CallEnds(r)
       PROVE  \A s \in Calls : Sound(call'[s])
  <2> DEFINE agent == IF call[r].step = "aborted" THEN "none" ELSE call[r].agent
             k == [call[r] EXCEPT !.step = "over", !.agent = agent]
  <2>1. k \in Call /\ Sound(k)
    BY <1>1 DEF Call, Fenced
  <2>2. call' = [call EXCEPT ![r] = Settled(k)]
    BY <1>11 DEF CallEnds
  <2> HIDE DEF k
  <2> QED
    BY <1>4, <1>6, <2>1, <2>2
<1>12. ASSUME NEW r \in Calls, AgentExits(r)
       PROVE  \A s \in Calls : Sound(call'[s])
  <2> DEFINE k == [call[r] EXCEPT !.agent = "none"]
  <2>1. k \in Call /\ Sound(k)
    BY <1>1 DEF Call, Fenced
  <2>2. call' = [call EXCEPT ![r] = Settled(k)]
    BY <1>12 DEF AgentExits
  <2> HIDE DEF k
  <2> QED
    BY <1>4, <1>6, <2>1, <2>2
<1>13. ASSUME NEW r \in Calls,
              AuthorizeWriter(r) \/ ReadParent(r) \/ AuthorizeChild(r)
       PROVE  \A s \in Calls : Sound(call'[s])
  <2>1. call[r].late = 0
    BY <1>1, <1>13 DEF AuthorizeWriter, ReadParent, AuthorizeChild, Fenced, Call
  <2>2. PICK a \in {"up", "parent", "cleared"} :
            call' = [call EXCEPT ![r] = [call[r] EXCEPT !.agent = a]]
    BY <1>13 DEF AuthorizeWriter, ReadParent, AuthorizeChild, Agent
  <2>3. call[r].agent # "none"
    BY <1>13 DEF AuthorizeWriter, ReadParent, AuthorizeChild
  <2>4. Sound([call[r] EXCEPT !.agent = a])
    BY <1>7, <2>1, <2>3
  <2> HIDE DEF Sound
  <2> QED
    BY <1>6, <2>2, <2>4
<1>14. ASSUME NEW r \in Calls, AgentWrites(r)
       PROVE  \A s \in Calls : Sound(call'[s])
  <2>1. call[r].late = 0 /\ call[r].epoch \in Drawn
    BY <1>1, <1>14 DEF AgentWrites, Fenced, Call
  <2> DEFINE k == [call[r] EXCEPT !.agent = "up", !.late = LateAfterWrite(r)]
  <2>2. call' = [call EXCEPT ![r] = k] /\ active' = active
    BY <1>14 DEF AgentWrites, agentUnchanged, storeVars
  <2>3. /\ k.agent = "up" /\ k.epoch = call[r].epoch
        /\ k.late = IF active = call[r].epoch THEN 0 ELSE 1
    BY <2>1 DEF Call, LateAfterWrite
  <2> HIDE DEF k
  <2>4. Sound(k)
    BY <1>0, <2>1, <2>2, <2>3 DEF Fenced
  <2> QED
    BY <1>6, <2>2, <2>4
<1>15. ASSUME NEW r \in Calls, Heartbeat(r) PROVE \A s \in Calls : Sound(call'[s])
  BY <1>1, <1>5, <1>15 DEF Heartbeat
<1> HIDE DEF Sound
<1> QED
  BY <1>1, <1>2, <1>8, <1>9, <1>10, <1>11, <1>12, <1>13, <1>14, <1>15,
     WritersOfCall DEF CallStep

-----------------------------------------------------------------------------
(* Who holds the capability.                                               *)

HoldTyped ==
    /\ gop \in [Guis -> Gop]
    /\ caps \in [Guis -> SUBSET Epochs]
    /\ dcaps \in [Guis -> SUBSET Children]
    /\ child \in [Children -> Child]
    /\ busy \subseteq Guis

\* What a section that begins must not upset.
MayEnter(g, o) ==
    /\ o.new = 0 \/ (o.new = next /\ next \in Drawn')
    /\ o.step = "run" => g \notin busy
    /\ Acting(o) => active' = active /\ active \in caps[g]

\* No capability, delegation or section changes; a controller may go.
Calm == UNCHANGED <<caps, dcaps, child, gop>> /\ busy' \subseteq busy

\* A process enters or leaves a section in which nobody is let to write yet,
\* unless it holds the active lease.
Enters ==
    /\ UNCHANGED <<caps, dcaps, child, busy>>
    /\ \E g \in Guis : \E o : /\ gop' = [gop EXCEPT ![g] = o]
                              /\ o.step # "delegate"
                              /\ MayEnter(g, o)

\* What each step does to capabilities, delegations and sections.
LEMMA HoldMoves ==
    ASSUME HoldTyped, HoldInv, TaskInv, StoreTyped, SectionInv, [Next]_vars
    PROVE  \/ Calm \/ Enters
           \/ \E g \in Guis : \E t, kept : active = 0 /\ Grant(g, t, kept)
           \/ \E g \in Guis : \/ CreateChild(g) \/ RevokeChildren(g)
                              \/ BeginRun(g) \/ Crash(g)
                              \/ \E c \in Children : Delegate(g, c)
<1>1. ASSUME NEW g \in Guis,
             \/ CreateTree(g) \/ CleanupTree(g) \/ Cancel(g) \/ BeginApply(g)
             \/ ApplyFiles(g) \/ FinishApply(g) \/ FailApply(g)
      PROVE  Calm
  BY <1>1 DEF CreateTree, CleanupTree, Cancel, BeginApply, ApplyFiles, FinishApply,
     FailApply, SettleApply, Calm, guiVars
<1>2. ASSUME NEW r \in Calls, CallStep(r) PROVE Calm
  BY <1>2 DEF CallStep, Heartbeat, CallEnds, AuthorizeWriter, ReadParent,
     AuthorizeChild, AgentWrites, AgentExits, agentUnchanged, Calm, guiVars
<1>3. Stall => Calm
  BY DEF Stall, Calm, guiVars
<1>4. UNCHANGED vars => Calm
  BY DEF vars, Calm
<1>5. ASSUME NEW g \in Guis, GrantNewTask(g)
      PROVE  Calm \/ \E t, kept : active = 0 /\ Grant(g, t, kept)
  BY <1>5 DEF GrantNewTask, Calm, guiVars, TaskInv
<1>6. ASSUME NEW g \in Guis, GrantAgain(g)
      PROVE  \E t, kept : active = 0 /\ Grant(g, t, kept)
  BY <1>6 DEF GrantAgain
<1>7. ASSUME NEW g \in Guis, Leave(g), UNCHANGED <<caps, dcaps, child, busy>>
      PROVE  Enters
  <2>1. MayEnter(g, Idle) /\ Idle.step # "delegate"
    BY DEF MayEnter, Idle, Acting
  <2> HIDE DEF Idle
  <2> QED
    BY <1>7, <2>1 DEF Leave, Enters
<1> DEFINE At(step, old, new) ==
      [Idle EXCEPT !.step = step, !.old = old, !.new = new]
<1>8. ASSUME NEW g \in Guis, NEW step \in {"children", "remove", "start"}, NEW old
      PROVE  MayEnter(g, At(step, old, 0)) /\ At(step, old, 0).step # "delegate"
  BY DEF MayEnter, Idle, Acting
<1>9. ASSUME NEW g \in Guis, Switch(g)
      PROVE  Enters
  <2>1. next \in Drawn'
    BY <1>9 DEF Switch, Draw, Drawn, StoreTyped, Epochs
  <2>2. MayEnter(g, At("children", active, next)) /\
        At("children", active, next).step # "delegate"
    BY <2>1 DEF MayEnter, Idle, Acting
  <2> QED
    BY <1>9, <2>2 DEF Switch, Enter, Enters, guiVars
<1>10. ASSUME NEW g \in Guis, Complete(g) \/ RemoveAgent(g) PROVE Enters
  BY <1>8, <1>10 DEF Complete, RemoveAgent, Enter, Enters, guiVars
<1>11. ASSUME NEW g \in Guis, RevokeByActor(g) \/ RevokeUnrecoverable(g) PROVE Enters
  <2>1. UNCHANGED <<caps, dcaps, child, busy>>
    BY <1>11 DEF RevokeByActor, RevokeUnrecoverable, guiVars
  <2>2. Leave(g) \/ \E old : Enter(g, "children", old, 0)
    BY <1>11 DEF RevokeByActor, RevokeUnrecoverable
  <2> QED
    BY <1>7, <1>8, <2>1, <2>2 DEF Enter, Enters
<1>12. ASSUME NEW g \in Guis, Start(g) PROVE Calm \/ Enters
  BY <1>8, <1>12 DEF Start, Enter, Enters, Calm, guiVars
<1>13. ASSUME NEW g \in Guis, NEW r \in Calls, NEW c \in Children \cup {NONE},
              ReadRun(g, r, c)
       PROVE  Enters
  <2> DEFINE o == [Idle EXCEPT !.step = "run", !.old = active, !.r = r, !.c = c]
  <2>1. o.new = 0 /\ o.step = "run" /\ o.c = c
    BY DEF Idle
  <2>2. g \notin busy /\ UNCHANGED <<caps, dcaps, child, busy, active>>
    BY <1>13 DEF ReadRun, guiVars, storeVars
  <2>3. c \notin Readers => active \in caps[g]
    BY <1>13 DEF ReadRun, MayRun, HoldInv, ActiveChildrenOf, ChildrenOf
  <2>4. MayEnter(g, o)
    BY <2>1, <2>2, <2>3 DEF MayEnter, Acting
  <2>5. gop' = [gop EXCEPT ![g] = o]
    BY <1>13 DEF ReadRun
  <2> HIDE DEF o
  <2> QED
    BY <2>1, <2>2, <2>4, <2>5 DEF Enters
<1> QED
  BY <1>1, <1>2, <1>3, <1>4, <1>5, <1>6, <1>9, <1>10, <1>11, <1>12, <1>13
  DEF Next, GuiStep

\* No step inserts a delegation twice.
LEMMA FreshStep ==
    ASSUME FreshInv, HoldTyped, HoldInv, TaskInv, StoreTyped, SectionInv, [Next]_vars
    PROVE  FreshInv'
<1> USE DEF FreshInv, HoldTyped
<1>1. ASSUME NEW g \in Guis, CreateChild(g) PROVE FreshInv'
  <2>1. /\ gop' = [gop EXCEPT ![g] = Idle] /\ gop[g].c \in Children
        /\ gop[g].step = "delegate" /\ Idle.step = "idle"
    BY <1>1 DEF CreateChild, Leave, SectionInv, Idle
  <2>2. CASE UNCHANGED <<child, dcaps>>
    BY <2>1, <2>2
  <2>3. CASE /\ child' = [child EXCEPT ![gop[g].c] = [state |-> "active",
                                                      parent |-> gop[g].old]]
             /\ dcaps' = dcaps \/ dcaps' = [dcaps EXCEPT ![g] = @ \cup {gop[g].c}]
    BY <2>1, <2>3
  <2> QED
    BY <1>1, <2>2, <2>3 DEF CreateChild
<1>2. ASSUME NEW g \in Guis, RevokeChildren(g) PROVE FreshInv'
  <2>1. /\ gop' = [gop EXCEPT ![g] = Idle] /\ Idle.step = "idle"
        /\ \A c \in Children : child'[c].state = "none" <=> child[c].state = "none"
        /\ \A h \in Guis : dcaps'[h] \subseteq dcaps[h]
    BY <1>2 DEF RevokeChildren, Leave, Idle, Child, ActiveChildrenOf
  <2> QED
    BY <2>1 DEF SectionInv
<1>3. ASSUME NEW g \in Guis, NEW c \in Children, Delegate(g, c) PROVE FreshInv'
  BY <1>3 DEF Delegate, guiVars, Idle
<1>4. ASSUME NEW g \in Guis, NEW o, o.step # "delegate", gop' = [gop EXCEPT ![g] = o],
             UNCHANGED child, \A h \in Guis : dcaps'[h] \subseteq dcaps[h]
      PROVE  FreshInv'
  BY <1>4
<1>5. Calm => FreshInv'
  BY DEF Calm
<1>6. Enters => FreshInv'
  BY <1>4 DEF Enters
<1>7. ASSUME NEW g \in Guis, NEW t, NEW kept, Grant(g, t, kept) PROVE FreshInv'
  BY <1>7 DEF Grant
<1>8. ASSUME NEW g \in Guis, BeginRun(g) \/ Crash(g) PROVE FreshInv'
  <2>1. /\ gop' = [gop EXCEPT ![g] = Idle] /\ Idle.step # "delegate"
        /\ UNCHANGED child
        /\ dcaps' = dcaps \/ dcaps' = [dcaps EXCEPT ![g] = {}]
    BY <1>8 DEF BeginRun, Crash, Leave, Idle
  <2> QED
    BY <2>1, <1>4
<1> QED
  BY <1>1, <1>2, <1>3, <1>5, <1>6, <1>7, <1>8, HoldMoves

\* No step leaves two processes with the capability of one lease.
LEMMA HoldStep ==
    ASSUME FreshInv, HoldInv, HoldTyped, SectionInv, TaskInv, StoreTyped, [Next]_vars
    PROVE  HoldInv'
<1>0. /\ Drawn \subseteq Drawn' /\ 0 \notin Drawn /\ next \notin Drawn
      /\ active' = active \/ active' = 0 \/ active' \notin Drawn
      /\ active # 0 => active \in Drawn
  BY TaskStep DEF TaskInv, StoreConsistent, Drawn, StoreTyped, Epochs
<1> USE DEF HoldInv, HoldTyped
<1>1. ASSUME UNCHANGED <<caps, dcaps, child, gop>>, busy' \subseteq busy PROVE HoldInv'
  BY <1>0, <1>1 DEF Acting, SectionInv
<1>2. ASSUME UNCHANGED <<caps, dcaps, child, busy>>, NEW g \in Guis, NEW o,
             MayEnter(g, o), gop' = [gop EXCEPT ![g] = o]
      PROVE  HoldInv'
  <2>1. /\ gop'[g] = o
        /\ \A h \in Guis : h # g => gop'[h] = gop[h]
    BY <1>2
  <2>2. /\ \A h \in Guis : caps'[h] \subseteq Drawn' /\ gop'[h].new \in Drawn' \cup {0}
        /\ \A h, i \in Guis : caps'[h] \cap caps'[i] # {} => h = i
    BY <1>0, <1>2, <2>1 DEF MayEnter
  <2>3. \A h, i \in Guis : gop'[h].new # 0 =>
          gop'[h].new \notin caps'[i] /\ (gop'[i].new = gop'[h].new => h = i)
    BY <1>0, <1>2, <2>1 DEF MayEnter
  <2>4. \A h \in Guis, c \in Children : c \in dcaps'[h] =>
          /\ child'[c].parent \in Drawn'
          /\ child'[c].parent = active' => active' \in caps'[h]
    BY <1>0, <1>2
  <2>5. \A h \in Guis :
          /\ gop'[h].step = "run" => h \notin busy'
          /\ Acting(gop'[h]) /\ gop'[h].old = active' => active' \in caps'[h]
    BY <1>0, <1>2, <2>1 DEF MayEnter, Acting, SectionInv
  <2> QED
    BY <2>2, <2>3, <2>4, <2>5
<1>4. ASSUME NEW g \in Guis, NEW t, NEW kept, active = 0, Grant(g, t, kept)
      PROVE  HoldInv'
  <2>1. /\ UNCHANGED <<gop, dcaps, child, busy>>
        /\ caps' = caps \/ caps' = [caps EXCEPT ![g] = caps[g] \cup {next}]
        /\ next \in Drawn' /\ active' = next
    BY <1>4, <1>0 DEF Grant, Draw, Drawn, StoreTyped, Epochs
  <2>2. \A h \in Guis : /\ caps[h] \subseteq caps'[h]
                        /\ caps'[h] \subseteq caps[h] \cup {next}
                        /\ h # g => caps'[h] = caps[h]
    BY <2>1
  <2>3. /\ \A h \in Guis : caps'[h] \subseteq Drawn' /\ gop'[h].new \in Drawn' \cup {0}
        /\ \A h, i \in Guis : caps'[h] \cap caps'[i] # {} => h = i
    BY <1>0, <2>1, <2>2
  <2>4. \A h, i \in Guis : gop'[h].new # 0 =>
          gop'[h].new \notin caps'[i] /\ (gop'[i].new = gop'[h].new => h = i)
    BY <1>0, <2>1, <2>2
  <2>5. \A h \in Guis, c \in Children : c \in dcaps'[h] =>
          /\ child'[c].parent \in Drawn'
          /\ child'[c].parent = active' => active' \in caps'[h]
    BY <1>0, <2>1
  <2>6. \A h \in Guis :
          /\ gop'[h].step = "run" => h \notin busy'
          /\ Acting(gop'[h]) /\ gop'[h].old = active' => active' \in caps'[h]
    BY <1>0, <2>1 DEF Acting, SectionInv
  <2> QED
    BY <2>3, <2>4, <2>5, <2>6
<1>5. ASSUME NEW g \in Guis, RevokeChildren(g) PROVE HoldInv'
  <2>1. /\ gop' = [gop EXCEPT ![g] = Idle] /\ active' = active /\ busy' = busy
        /\ gop[g].old # active /\ gop[g].old \in Drawn
        /\ \A c \in Children : child'[c].parent = child[c].parent
    BY <1>5 DEF RevokeChildren, Leave, storeVars, SectionInv, Child
  <2>2. /\ gop'[g] = Idle /\ Idle.new = 0 /\ Idle.step = "idle"
        /\ \A h \in Guis : h # g => gop'[h] = gop[h]
    BY <2>1 DEF Idle
  <2>3. CASE UNCHANGED <<caps, dcaps>>
    BY <1>0, <2>1, <2>2, <2>3 DEF Acting
  <2>4. CASE /\ caps' = [caps EXCEPT ![g] = (@ \ {gop[g].old}) \cup ({gop[g].new} \ {0})]
             /\ dcaps' = [dcaps EXCEPT ![g] = @ \ ChildrenOf(gop[g].old)]
    <3>1. /\ caps'[g] = (caps[g] \ {gop[g].old}) \cup ({gop[g].new} \ {0})
          /\ \A h \in Guis : h # g => caps'[h] = caps[h]
          /\ \A h \in Guis : dcaps'[h] \subseteq dcaps[h]
      BY <2>4
    <3>2. /\ \A h \in Guis : caps'[h] \subseteq Drawn' /\ gop'[h].new \in Drawn' \cup {0}
          /\ \A h, i \in Guis : caps'[h] \cap caps'[i] # {} => h = i
      BY <1>0, <2>2, <3>1
    <3>3. \A h, i \in Guis : gop'[h].new # 0 =>
            gop'[h].new \notin caps'[i] /\ (gop'[i].new = gop'[h].new => h = i)
      BY <1>0, <2>2, <3>1
    <3>4. \A h \in Guis, c \in Children : c \in dcaps'[h] =>
            /\ child'[c].parent \in Drawn'
            /\ child'[c].parent = active' => active' \in caps'[h]
      BY <1>0, <2>1, <3>1
    <3>5. \A h \in Guis :
            /\ gop'[h].step = "run" => h \notin busy'
            /\ Acting(gop'[h]) /\ gop'[h].old = active' => active' \in caps'[h]
      BY <1>0, <2>1, <2>2, <3>1 DEF Acting
    <3> QED
      BY <3>2, <3>3, <3>4, <3>5
  <2> QED
    BY <1>5, <2>3, <2>4 DEF RevokeChildren
<1>6. ASSUME NEW g \in Guis, CreateChild(g) PROVE HoldInv'
  <2>1. /\ gop' = [gop EXCEPT ![g] = Idle] /\ UNCHANGED <<active, next, caps, busy>>
        /\ gop[g].old \in Drawn /\ gop[g].c \in Children
        /\ gop[g].old = active => active \in caps[g]
    BY <1>6 DEF CreateChild, Leave, storeVars, SectionInv, Acting
  <2>2. /\ gop'[g] = Idle /\ Idle.new = 0 /\ Idle.step = "idle"
        /\ \A h \in Guis : h # g => gop'[h] = gop[h]
    BY <2>1 DEF Idle
  <2>3. CASE UNCHANGED <<child, dcaps>>
    BY <1>0, <2>1, <2>2, <2>3 DEF Acting
  <2>4. CASE /\ child' = [child EXCEPT ![gop[g].c] = [state |-> "active",
                                                      parent |-> gop[g].old]]
             /\ dcaps' = dcaps \/ dcaps' = [dcaps EXCEPT ![g] = @ \cup {gop[g].c}]
    <3>1. /\ child'[gop[g].c].parent = gop[g].old
          /\ \A c \in Children : c # gop[g].c => child'[c] = child[c]
          /\ \A h \in Guis : /\ h # g => dcaps'[h] = dcaps[h]
                             /\ dcaps'[h] \subseteq dcaps[h] \cup {gop[g].c}
      BY <2>1, <2>4
    <3>2. \A h \in Guis : h # g => gop[g].c \notin dcaps'[h]
      BY <1>6, <3>1 DEF FreshInv, CreateChild
    <3> QED
      BY <1>0, <2>1, <2>2, <3>1, <3>2 DEF Acting
  <2> QED
    BY <1>6, <2>3, <2>4 DEF CreateChild
<1>7. ASSUME NEW g \in Guis, BeginRun(g) PROVE HoldInv'
  <2>1. /\ gop' = [gop EXCEPT ![g] = Idle] /\ Idle.step = "idle" /\ Idle.new = 0
        /\ UNCHANGED <<caps, dcaps, child, active, next>>
        /\ busy' \subseteq busy \cup {g}
    BY <1>7 DEF BeginRun, Leave, Idle, storeVars
  <2> QED
    BY <1>0, <2>1 DEF Acting
<1>8. ASSUME NEW g \in Guis, Crash(g) PROVE HoldInv'
  <2>1. /\ gop' = [gop EXCEPT ![g] = Idle] /\ Idle.step = "idle" /\ Idle.new = 0
        /\ UNCHANGED <<child, active, next>> /\ busy' \subseteq busy
        /\ caps' = [caps EXCEPT ![g] = {}] /\ dcaps' = [dcaps EXCEPT ![g] = {}]
    BY <1>8 DEF Crash, Leave, Idle, storeVars
  <2> QED
    BY <1>0, <2>1 DEF Acting
<1>9. ASSUME NEW g \in Guis, NEW c \in Children, Delegate(g, c) PROVE HoldInv'
  <2> DEFINE o == [Idle EXCEPT !.step = "delegate", !.old = active, !.c = c]
  <2>1. MayEnter(g, o)
    BY <1>9 DEF Delegate, MayEnter, Idle, Acting, storeVars
  <2>2. gop' = [gop EXCEPT ![g] = o] /\ UNCHANGED <<caps, dcaps, child, busy>>
    BY <1>9 DEF Delegate, guiVars
  <2> HIDE DEF o
  <2> QED
    BY <1>2, <2>1, <2>2
<1> QED
  BY <1>1, <1>2, <1>4, <1>5, <1>6, <1>7, <1>8, <1>9, HoldMoves DEF Calm, Enters

-----------------------------------------------------------------------------
(* Who runs.                                                               *)

\* A call that runs on runs for the same process, lease and child.
Carries(k, new) ==
    new.step \in {"going", "aborted"} =>
        /\ k.step \in {"going", "aborted"}
        /\ new.gui = k.gui /\ new.epoch = k.epoch /\ new.c = k.c

\* No step starts a second call in a process, or one without the lease.
LEMMA RunStep ==
    ASSUME RunInv, HoldInv, HoldTyped, FreshInv, SectionInv, TaskInv, StoreTyped,
           call \in [Calls -> Call], [Next]_vars
    PROVE  RunInv'
<1>0. /\ Drawn \subseteq Drawn' /\ 0 \notin Drawn /\ next \notin Drawn
      /\ active' = active \/ active' = 0 \/ active' \notin Drawn
      /\ active # 0 => active \in Drawn
  BY TaskStep DEF TaskInv, StoreConsistent, Drawn, StoreTyped, Epochs
<1>1. ASSUME \A r \in Calls : Carries(call[r], call'[r]),
             \A r \in Calls : Running(r)' =>
                /\ call[r].gui \in busy'
                /\ active \in caps[call[r].gui] /\ active' = active =>
                      active \in caps'[call[r].gui]
      PROVE  RunInv'
  BY <1>0, <1>1 DEF RunInv, Running, Carries
<1>2. ASSUME \A r \in Calls : Carries(call[r], call'[r]), busy' = busy,
             \A g \in Guis : active' = active /\ active \in caps[g] =>
                                active \in caps'[g]
      PROVE  RunInv'
  <2>1. \A r \in Calls : Running(r)' => call[r].gui \in busy /\ call[r].gui \in Guis
    BY <1>2 DEF RunInv, Running, Carries, HoldTyped
  <2> QED
    BY <1>1, <1>2, <2>1
<1>3. ASSUME UNCHANGED <<call, busy>>,
             \A g \in Guis : active' = active /\ active \in caps[g] =>
                                active \in caps'[g]
      PROVE  RunInv'
  BY <1>2, <1>3 DEF Carries
<1>4. ASSUME NEW rs, Abort(rs), \A r \in Calls : r \in rs => Running(r)
      PROVE  \A r \in Calls : Carries(call[r], call'[r])
  BY <1>4 DEF Abort, Carries, Call, Running
<1>5. ASSUME NEW r \in Calls, NEW k, Carries(call[r], k), call' = [call EXCEPT ![r] = k]
      PROVE  \A s \in Calls : Carries(call[s], call'[s])
  BY <1>5 DEF Carries
<1>6. ASSUME NEW g \in Guis, BeginRun(g) PROVE RunInv'
  <2> DEFINE r == gop[g].r
             k == [step |-> "going", gui |-> g, epoch |-> gop[g].old,
                   c |-> gop[g].c, agent |-> "up", late |-> 0]
  <2>1. CASE UNCHANGED <<call, busy>>
    BY <1>3, <1>6, <2>1 DEF BeginRun
  <2>2. CASE call' = [call EXCEPT ![r] = k] /\ busy' = busy \cup {g}
    <3>1. /\ r \in Calls /\ gop[g].old \in Drawn /\ g \notin busy
          /\ gop[g].c \notin Readers /\ gop[g].old = active => active \in caps[g]
          /\ UNCHANGED <<active, next, caps>>
      BY <1>6 DEF BeginRun, SectionInv, HoldInv, Acting, storeVars
    <3>2. /\ k.gui = g /\ k.epoch = gop[g].old /\ k.c = gop[g].c
          /\ \A s \in Calls : call'[s] = IF s = r THEN k ELSE call[s]
      BY <2>2, <3>1
    <3> HIDE DEF r, k
    <3>3. \A s \in Calls : Running(s)' =>
            /\ call'[s].gui \in busy'
            /\ call'[s].epoch \in Drawn'
            /\ call'[s].epoch = active' /\ call'[s].c \notin Readers =>
                  active' \in caps'[call'[s].gui]
      BY <1>0, <2>2, <3>1, <3>2 DEF RunInv, Running
    <3>4. \A s \in Calls : s # r /\ Running(s)' => call'[s].gui # g
      BY <3>1, <3>2 DEF RunInv, Running
    <3>5. \A s, u \in Calls : Running(s)' /\ Running(u)' /\ call'[s].gui = call'[u].gui
                                => s = u
      BY <3>1, <3>2, <3>4 DEF RunInv, Running
    <3> QED
      BY <3>3, <3>5 DEF RunInv
  <2> QED
    BY <1>6, <2>1, <2>2 DEF BeginRun
<1>7. ASSUME NEW r \in Calls, CallEnds(r) PROVE RunInv'
  <2> DEFINE k == call'[r]
  <2>1. /\ k.step \in {"idle", "over"}
        /\ call' = [call EXCEPT ![r] = k]
        /\ UNCHANGED caps /\ busy \ {call[r].gui} \subseteq busy'
    BY <1>7 DEF CallEnds, Settled, NoCall, Call
  <2>2. \A s \in Calls : Carries(call[s], call'[s])
    BY <1>5, <2>1 DEF Carries
  <2>3. \A s \in Calls : Running(s)' => Running(s) /\ call[s].gui # call[r].gui
    BY <1>7, <2>1 DEF RunInv, Running, CallEnds, Served
  <2> QED
    BY <1>1, <2>1, <2>2, <2>3 DEF RunInv
<1>8. ASSUME NEW g \in Guis, Crash(g) PROVE RunInv'
  <2>1. \A r \in Calls : /\ Carries(call[r], call'[r])
                         /\ Running(r)' => call[r].gui # g
    BY <1>8 DEF Crash, Settled, NoCall, Carries, Call, Running
  <2>2. \A r \in Calls : Running(r)' => call[r].gui \in busy /\ call[r].gui \in Guis
    BY <2>1 DEF RunInv, Running, Carries, HoldTyped
  <2>3. busy' = busy \ {g} /\ caps' = [caps EXCEPT ![g] = {}]
    BY <1>8 DEF Crash
  <2>4. \A r \in Calls : Running(r)' =>
            call[r].gui \in busy' /\ caps'[call[r].gui] = caps[call[r].gui]
    BY <2>1, <2>2, <2>3 DEF HoldTyped
  <2> QED
    BY <1>1, <2>1, <2>4
<1>9. ASSUME NEW g \in Guis, RevokeChildren(g) PROVE RunInv'
  <2>1. gop[g].old # active /\ busy' = busy
    BY <1>9 DEF RevokeChildren, SectionInv
  <2>2. \A h \in Guis : active \in caps[h] => active \in caps'[h]
    BY <1>9, <2>1 DEF RevokeChildren, HoldTyped
  <2>3. \A r \in Calls : Carries(call[r], call'[r])
    BY <1>4, <1>9 DEF RevokeChildren, CallsUnder, Running, Carries
  <2> QED
    BY <1>2, <2>1, <2>2, <2>3
<1>10. ASSUME NEW g \in Guis, Cancel(g) PROVE RunInv'
  BY <1>2, <1>4, <1>10 DEF Cancel, CallsUnder, Running, guiVars
<1>11. ASSUME NEW r \in Calls, Heartbeat(r) PROVE RunInv'
  <2>1. UNCHANGED <<busy, caps>>
    BY <1>11 DEF Heartbeat, guiVars
  <2>2. \A s \in Calls : Carries(call[s], call'[s])
    BY <1>4, <1>11 DEF Heartbeat, Served, Running, Carries
  <2> QED
    BY <1>2, <2>1, <2>2
<1>12. ASSUME NEW r \in Calls,
              \/ AuthorizeWriter(r) \/ ReadParent(r) \/ AuthorizeChild(r)
              \/ AgentWrites(r) \/ AgentExits(r)
       PROVE  RunInv'
  <2>1. UNCHANGED <<busy, caps>>
    BY <1>12 DEF AuthorizeWriter, ReadParent, AuthorizeChild, AgentWrites, AgentExits,
       agentUnchanged, guiVars
  <2>2. \A a, l : /\ Carries(call[r], [call[r] EXCEPT !.agent = a])
                  /\ Carries(call[r], [call[r] EXCEPT !.agent = a, !.late = l])
                  /\ Carries(call[r], Settled([call[r] EXCEPT !.agent = a]))
    BY DEF Carries, Settled, NoCall, Call
  <2>3. \E k : Carries(call[r], k) /\ call' = [call EXCEPT ![r] = k]
    BY <1>12, <2>2 DEF AuthorizeWriter, ReadParent, AuthorizeChild, AgentWrites,
       AgentExits, Agent
  <2> QED
    BY <1>2, <1>5, <2>1, <2>3
<1>13. CASE UNCHANGED <<call, busy, caps>>
  BY <1>3, <1>13
<1>14. ASSUME NEW g \in Guis, NEW t, NEW kept, Grant(g, t, kept) PROVE RunInv'
  <2>1. UNCHANGED <<call, busy>>
    BY <1>14 DEF Grant
  <2>2. \A h \in Guis : active \in caps[h] => active \in caps'[h]
    BY <1>14 DEF Grant, HoldTyped
  <2> QED
    BY <1>3, <2>1, <2>2
<1>15. ASSUME NEW g \in Guis, GrantNewTask(g) \/ GrantAgain(g) PROVE RunInv'
  <2>1. UNCHANGED <<call, busy, caps>> \/ \E t, kept : Grant(g, t, kept)
    BY <1>15 DEF GrantNewTask, GrantAgain, guiVars
  <2> QED
    BY <1>13, <1>14, <2>1
<1>16. ASSUME NEW g \in Guis,
              \/ CreateTree(g) \/ CleanupTree(g) \/ Switch(g) \/ Complete(g)
              \/ RemoveAgent(g) \/ RevokeByActor(g) \/ Start(g)
              \/ RevokeUnrecoverable(g) \/ CreateChild(g)
              \/ BeginApply(g) \/ ApplyFiles(g) \/ FinishApply(g) \/ FailApply(g)
              \/ \E c \in Children : Delegate(g, c)
              \/ \E r \in Calls, c \in Children \cup {NONE} : ReadRun(g, r, c)
       PROVE  UNCHANGED <<call, busy, caps>>
  BY <1>16 DEF CreateTree, CleanupTree, Switch, Complete, RemoveAgent, RevokeByActor,
     Start, RevokeUnrecoverable, CreateChild, BeginApply, ApplyFiles, FinishApply,
     FailApply, SettleApply, Delegate, ReadRun, guiVars
<1>17. Stall \/ UNCHANGED vars => UNCHANGED <<call, busy, caps>>
  BY DEF Stall, guiVars, vars
<1> QED
  BY <1>6, <1>7, <1>8, <1>9, <1>10, <1>11, <1>12, <1>13, <1>15, <1>16, <1>17
  DEF Next, GuiStep, CallStep

-----------------------------------------------------------------------------
(* Types.                                                                  *)

\* The empty records have their types.
LEMMA RecordsTyped ==
    /\ Idle \in Gop /\ NotMaking \in Making /\ NoCall \in Call
    /\ \A k \in Call : Settled(k) \in Call
    /\ \A k \in Call, l \in 0..2 : [k EXCEPT !.agent = "up", !.late = l] \in Call
<1>1. 0 \in 0..MaxEpoch
  BY WriterAssumption
<1>2. Idle \in Gop
  BY <1>1 DEF Idle, Gop, Section
<1>3. NotMaking \in Making
  BY DEF NotMaking, Making
<1>4. NoCall \in Call
  BY <1>1 DEF NoCall, Call
<1>5. ASSUME NEW k \in Call, NEW l \in 0..2
      PROVE  [k EXCEPT !.agent = "up", !.late = l] \in Call
  <2>1. [k EXCEPT !.agent = "up"] \in Call
    BY DEF Call
  <2>2. \A m \in Call : [m EXCEPT !.late = l] \in Call
    BY DEF Call
  <2> QED
    BY <2>1, <2>2
<1>6. \A k \in Call : Settled(k) \in Call
  BY <1>4 DEF Settled
<1> QED
  BY <1>2, <1>3, <1>4, <1>5, <1>6

\* Sections and worktrees in the making keep their types.
LEMMA SectionTyped ==
    ASSUME TypeOK, SectionInv, StoreTyped', [Next]_vars
    PROVE  gop' \in [Guis -> Gop] /\ making' \in [Guis -> Making]
<1> USE DEF TypeOK
<1>1. ASSUME NEW g \in Guis, NEW step \in Section, NEW old \in 0..MaxEpoch,
             NEW new \in 0..MaxEpoch, Enter(g, step, old, new)
      PROVE  gop' \in [Guis -> Gop]
  <2>1. [Idle EXCEPT !.step = step, !.old = old, !.new = new] \in Gop
    BY DEF Idle, Gop
  <2> QED
    BY <1>1, <2>1 DEF Enter
<1>2. ASSUME NEW g \in Guis, Leave(g) PROVE gop' \in [Guis -> Gop]
  BY <1>2, RecordsTyped DEF Leave
<1>3. ASSUME NEW g \in Guis, CreateTree(g) \/ CleanupTree(g) \/ GrantNewTask(g)
      PROVE  gop' \in [Guis -> Gop] /\ making' \in [Guis -> Making]
  <2>1. gop' = gop
    BY <1>3 DEF CreateTree, CleanupTree, GrantNewTask, Grant
  <2>2. \A t \in Trees : [step |-> "made", tree |-> t] \in Making
    BY DEF Making
  <2>3. [making[g] EXCEPT !.step = "failed"] \in Making
    BY DEF Making
  <2>4. \E m \in Making : making' = [making EXCEPT ![g] = m]
    BY <1>3, <2>2, <2>3, RecordsTyped DEF CreateTree, CleanupTree, GrantNewTask
  <2> QED
    BY <2>1, <2>4
<1>4. ASSUME NEW g \in Guis, Switch(g) PROVE gop' \in [Guis -> Gop]
  BY <1>1, <1>4 DEF Switch, Draw, Epochs, Section
<1>5. ASSUME NEW g \in Guis, Complete(g) \/ RemoveAgent(g) PROVE gop' \in [Guis -> Gop]
  BY <1>1, <1>5, WriterAssumption DEF Complete, RemoveAgent, Section
<1>6. ASSUME NEW g \in Guis, RevokeByActor(g) \/ RevokeUnrecoverable(g)
      PROVE  gop' \in [Guis -> Gop]
  BY <1>1, <1>2, <1>6, WriterAssumption DEF RevokeByActor, RevokeUnrecoverable, Section
<1>7. ASSUME NEW g \in Guis, Start(g) PROVE gop' \in [Guis -> Gop]
  BY <1>1, <1>7, WriterAssumption DEF Start, Section
<1>8. ASSUME NEW g \in Guis,
             RevokeChildren(g) \/ CreateChild(g) \/ BeginRun(g) \/ Crash(g)
      PROVE  gop' \in [Guis -> Gop]
  BY <1>2, <1>8 DEF RevokeChildren, CreateChild, BeginRun, Crash
<1>9. ASSUME NEW g \in Guis, NEW c \in Children, Delegate(g, c)
      PROVE  gop' \in [Guis -> Gop]
  <2>1. [Idle EXCEPT !.step = "delegate", !.old = active, !.c = c] \in Gop
    BY RecordsTyped DEF Gop, Section
  <2> QED
    BY <1>9, <2>1 DEF Delegate
<1>10. ASSUME NEW g \in Guis, NEW r \in Calls, NEW c \in Children \cup {NONE},
              ReadRun(g, r, c)
      PROVE  gop' \in [Guis -> Gop]
  <2>1. [Idle EXCEPT !.step = "run", !.old = active, !.r = r, !.c = c] \in Gop
    BY RecordsTyped DEF Gop, Section
  <2> QED
    BY <1>10, <2>1 DEF ReadRun
<1>11. ASSUME NEW g \in Guis,
              \/ Switch(g) \/ Complete(g) \/ RemoveAgent(g) \/ RevokeByActor(g)
              \/ Start(g) \/ RevokeUnrecoverable(g) \/ RevokeChildren(g)
              \/ CreateChild(g) \/ BeginRun(g) \/ Crash(g)
              \/ \E c \in Children : Delegate(g, c)
              \/ \E r \in Calls, c \in Children \cup {NONE} : ReadRun(g, r, c)
       PROVE  making' = making \/ making' = [making EXCEPT ![g] = NotMaking]
  BY <1>11 DEF Switch, Complete, RemoveAgent, RevokeByActor, Start,
     RevokeUnrecoverable, RevokeChildren, CreateChild, BeginRun, Crash, Delegate,
     ReadRun
<1>12. ASSUME NEW g \in Guis,
              making' = making \/ making' = [making EXCEPT ![g] = NotMaking]
       PROVE  making' \in [Guis -> Making]
  BY <1>12, RecordsTyped
<1> QED
  BY <1>3, <1>4, <1>5, <1>6, <1>7, <1>8, <1>9, <1>10, <1>11, <1>12,
     WritersOfSections

\* Calls keep their types.
LEMMA CallTyped ==
    ASSUME TypeOK, SectionInv, CallInv, [Next]_vars
    PROVE  call' \in [Calls -> Call]
<1> USE DEF TypeOK
<1>1. ASSUME NEW rs, Abort(rs) PROVE call' \in [Calls -> Call]
  BY <1>1 DEF Abort, Call
<1>2. ASSUME NEW r \in Calls, NEW k \in Call, call' = [call EXCEPT ![r] = k]
      PROVE  call' \in [Calls -> Call]
  BY <1>2
<1>3. ASSUME NEW g \in Guis, Cancel(g) \/ RevokeChildren(g)
      PROVE  call' \in [Calls -> Call]
  BY <1>1, <1>3 DEF Cancel, RevokeChildren
<1>4. ASSUME NEW g \in Guis, BeginRun(g) PROVE call' \in [Calls -> Call]
  <2>1. [step |-> "going", gui |-> g, epoch |-> gop[g].old,
         c |-> gop[g].c, agent |-> "up", late |-> 0] \in Call
    BY DEF Gop, Call
  <2> QED
    BY <1>2, <1>4, <2>1 DEF BeginRun, SectionInv
<1>5. ASSUME NEW g \in Guis, Crash(g) PROVE call' \in [Calls -> Call]
  <2>1. \A r \in Calls : [call[r] EXCEPT !.step = "over"] \in Call
    BY DEF Call
  <2> QED
    BY <1>5, <2>1, RecordsTyped DEF Crash
<1>6. ASSUME NEW r \in Calls, Heartbeat(r) PROVE call' \in [Calls -> Call]
  BY <1>1, <1>6 DEF Heartbeat
<1>7. ASSUME NEW r \in Calls, CallEnds(r) \/ AgentExits(r)
      PROVE  call' \in [Calls -> Call]
  <2>1. \A a \in {"none", call[r].agent} :
            /\ [call[r] EXCEPT !.step = "over", !.agent = a] \in Call
            /\ [call[r] EXCEPT !.agent = a] \in Call
    BY DEF Call
  <2>2. \E k \in Call : call' = [call EXCEPT ![r] = Settled(k)]
    <3>1. CASE AgentExits(r)
      BY <2>1, <3>1 DEF AgentExits
    <3>2. CASE CallEnds(r)
      <4> DEFINE a == IF call[r].step = "aborted" THEN "none" ELSE call[r].agent
      <4>1. call' = [call EXCEPT
                ![r] = Settled([call[r] EXCEPT !.step = "over", !.agent = a])]
        BY <3>2 DEF CallEnds
      <4>2. a \in {"none", call[r].agent}
        OBVIOUS
      <4> HIDE DEF a
      <4> QED
        BY <2>1, <4>1, <4>2
    <3> QED
      BY <1>7, <3>1, <3>2
  <2> QED
    BY <1>2, <2>2, RecordsTyped
<1>8. ASSUME NEW r \in Calls, AuthorizeWriter(r) \/ ReadParent(r) \/ AuthorizeChild(r)
      PROVE  call' \in [Calls -> Call]
  <2>1. \A a \in {"up", "parent", "cleared"} : [call[r] EXCEPT !.agent = a] \in Call
    BY DEF Call
  <2> QED
    BY <1>2, <1>8, <2>1 DEF AuthorizeWriter, ReadParent, AuthorizeChild, Agent
<1>9. ASSUME NEW r \in Calls, AgentWrites(r) PROVE call' \in [Calls -> Call]
  <2>1. LateAfterWrite(r) \in 0..2
    BY DEF LateAfterWrite, Call
  <2>2. \A l \in 0..2 : [call[r] EXCEPT !.agent = "up", !.late = l] \in Call
    BY RecordsTyped
  <2> QED
    BY <1>2, <1>9, <2>1, <2>2 DEF AgentWrites
<1> QED
  BY <1>3, <1>4, <1>5, <1>6, <1>7, <1>8, <1>9, WritersOfCall DEF CallStep

\* Capabilities, delegations and controllers keep their types.
LEMMA HoldsTyped ==
    ASSUME TypeOK, HoldInv, SectionInv, TaskInv, StoreTyped, [Next]_vars
    PROVE  /\ caps' \in [Guis -> SUBSET Epochs]
           /\ dcaps' \in [Guis -> SUBSET Children]
           /\ child' \in [Children -> Child]
           /\ busy' \subseteq Guis
<1> USE DEF TypeOK
<1>0. Drawn \subseteq Epochs /\ HoldTyped
  <2>1. MaxEpoch \in Nat /\ next \in 1..(MaxEpoch + 1)
    BY WriterAssumption
  <2>2. Drawn \subseteq Epochs
    BY <2>1 DEF Drawn, Epochs
  <2> QED
    BY <2>2 DEF HoldTyped
<1>1. CASE Calm \/ Enters
  <2>1. UNCHANGED <<caps, dcaps, child>> /\ busy' \subseteq busy
    BY <1>1 DEF Calm, Enters
  <2> QED
    BY <2>1
<1>2. ASSUME NEW g \in Guis, NEW t, NEW kept, Grant(g, t, kept)
      PROVE  caps' \in [Guis -> SUBSET Epochs] /\ UNCHANGED <<dcaps, child, busy>>
  BY <1>2 DEF Grant, Draw
<1>3. ASSUME NEW g \in Guis, CreateChild(g)
      PROVE  /\ child' \in [Children -> Child] /\ dcaps' \in [Guis -> SUBSET Children]
             /\ UNCHANGED <<caps, busy>>
  <2>1. gop[g].c \in Children /\ gop[g].old \in 0..MaxEpoch
    BY <1>3 DEF CreateChild, SectionInv, Gop
  <2>2. [state |-> "active", parent |-> gop[g].old] \in Child
    BY <2>1 DEF Child
  <2> QED
    BY <1>3, <2>1, <2>2 DEF CreateChild
<1>4. ASSUME NEW g \in Guis, RevokeChildren(g)
      PROVE  /\ child' \in [Children -> Child] /\ dcaps' \in [Guis -> SUBSET Children]
             /\ caps' \in [Guis -> SUBSET Epochs] /\ UNCHANGED busy
  <2>1. \A c \in Children : [child[c] EXCEPT !.state = "revoked"] \in Child
    BY DEF Child
  <2>2. child' \in [Children -> Child] /\ busy' = busy
    BY <1>4, <2>1 DEF RevokeChildren
  <2>3. {gop[g].new} \ {0} \subseteq Epochs
    BY <1>0 DEF HoldInv
  <2>4. /\ caps' \in [Guis -> SUBSET Epochs]
        /\ dcaps' \in [Guis -> SUBSET Children]
    BY <1>4, <2>3 DEF RevokeChildren
  <2> QED
    BY <2>2, <2>4
<1>5. ASSUME NEW g \in Guis, BeginRun(g)
      PROVE  busy' \subseteq Guis /\ UNCHANGED <<caps, dcaps, child>>
  BY <1>5 DEF BeginRun
<1>6. ASSUME NEW g \in Guis, Crash(g)
      PROVE  /\ caps' \in [Guis -> SUBSET Epochs] /\ dcaps' \in [Guis -> SUBSET Children]
             /\ busy' \subseteq Guis /\ child' = child
  BY <1>6 DEF Crash
<1>7. ASSUME NEW g \in Guis, NEW c \in Children, Delegate(g, c)
      PROVE  UNCHANGED <<caps, dcaps, child, busy>>
  BY <1>7 DEF Delegate, guiVars
<1> QED
  BY <1>0, <1>1, <1>2, <1>3, <1>4, <1>5, <1>6, <1>7, HoldMoves

\* The variables that only a few actions write: the run lock, the worktrees,
\* which processes serve, and the take-over.
LEMMA RestTyped ==
    ASSUME TypeOK, SectionInv, [Next]_vars
    PROVE  /\ run' \in Calls \cup {NONE} /\ fresh' \in BOOLEAN
           /\ disk' \in [Trees -> {"absent", "clean", "dirty"}]
           /\ up' \subseteq Guis
           /\ apply' \in [Guis -> {"none", "going", "done", "failed"}]
           /\ project' \in {"old", "mixed", "new"}
<1> USE DEF TypeOK
<1>1. /\ apply' \in [Guis -> {"none", "going", "done", "failed"}]
      /\ project' \in {"old", "mixed", "new"}
  BY WritersOfApply DEF applyVars, BeginApply, ApplyFiles, FinishApply, FailApply,
     SettleApply, Crash
<1>2. ASSUME NEW g \in Guis, GuiStep(g)
      PROVE  run' \in Calls \cup {NONE} /\ fresh' \in BOOLEAN
  <2>1. BeginRun(g) => run' \in Calls \cup {NONE} /\ fresh' \in BOOLEAN
    BY DEF BeginRun, SectionInv, runVars
  <2>2. UNCHANGED runVars \/ RunSwept =>
            run' \in Calls \cup {NONE} /\ fresh' \in BOOLEAN
    BY DEF RunSwept, runVars
  <2>3. ~ BeginRun(g) => UNCHANGED runVars \/ RunSwept
    BY <1>2 DEF GuiStep, CreateTree, GrantNewTask, Grant, CleanupTree, GrantAgain,
       Switch, Complete, RemoveAgent, RevokeByActor, Start, RevokeUnrecoverable,
       RevokeChildren, Delegate, CreateChild, ReadRun, Cancel, BeginApply, ApplyFiles,
       FinishApply, FailApply, SettleApply, Crash, runVars
  <2> QED
    BY <2>1, <2>2, <2>3
<1>3. ASSUME NEW g \in Guis, GuiStep(g)
      PROVE  disk' \in [Trees -> {"absent", "clean", "dirty"}]
  <2>1. CreateTree(g) \/ CleanupTree(g) =>
            disk' \in [Trees -> {"absent", "clean", "dirty"}]
    BY DEF CreateTree, CleanupTree
  <2>2. ~ (CreateTree(g) \/ CleanupTree(g)) => UNCHANGED disk
    BY <1>3 DEF GuiStep, GrantNewTask, Grant, GrantAgain, Switch, Complete,
       RemoveAgent, RevokeByActor, Start, RevokeUnrecoverable, RevokeChildren,
       Delegate, CreateChild, ReadRun, BeginRun, Cancel, BeginApply, ApplyFiles,
       FinishApply, FailApply, SettleApply, Crash
  <2> QED
    BY <2>1, <2>2
<1>4. ASSUME NEW g \in Guis, GuiStep(g) PROVE up' \subseteq Guis
  <2>1. up' \subseteq up \cup {g}
    BY <1>4 DEF GuiStep, CreateTree, GrantNewTask, Grant, CleanupTree, GrantAgain,
       Switch, Complete, RemoveAgent, RevokeByActor, Start, RevokeUnrecoverable,
       RevokeChildren, Delegate, CreateChild, ReadRun, BeginRun, Cancel, BeginApply,
       ApplyFiles, FinishApply, FailApply, SettleApply, Crash
  <2> QED
    BY <2>1
<1>5. ASSUME NEW r \in Calls, CallStep(r)
      PROVE  /\ run' \in Calls \cup {NONE} /\ fresh' \in BOOLEAN /\ UNCHANGED up
             /\ disk' \in [Trees -> {"absent", "clean", "dirty"}]
  <2>1. CASE Heartbeat(r)
    BY <2>1 DEF Heartbeat
  <2>2. CASE CallEnds(r)
    BY <2>2 DEF CallEnds, runVars
  <2>3. CASE AgentWrites(r)
    BY <2>3 DEF AgentWrites, agentUnchanged, runVars
  <2>4. CASE \/ AuthorizeWriter(r) \/ ReadParent(r) \/ AuthorizeChild(r)
             \/ AgentExits(r)
    BY <2>4 DEF AuthorizeWriter, ReadParent, AuthorizeChild, AgentExits,
       agentUnchanged, runVars
  <2> QED
    BY <1>5, <2>1, <2>2, <2>3, <2>4 DEF CallStep
<1>6. CASE Stall
  BY <1>1, <1>6 DEF Stall
<1>7. CASE UNCHANGED vars
  BY <1>7 DEF vars
<1> QED
  BY <1>1, <1>2, <1>3, <1>4, <1>5, <1>6, <1>7 DEF Next

-----------------------------------------------------------------------------
(* The theorems.                                                           *)

\* The initial state satisfies the invariant.
LEMMA InitIInv == Init => IInv
<1> SUFFICES ASSUME Init PROVE IInv
  OBVIOUS
<1>1. TypeOK
  <2>1. MaxEpoch \in Nat
    BY WriterAssumption
  <2>2. [state |-> "none", parent |-> 0] \in Child
    BY <2>1 DEF Child
  <2>3. /\ child \in [Children -> Child] /\ gop \in [Guis -> Gop]
        /\ making \in [Guis -> Making] /\ call \in [Calls -> Call]
    BY <2>2, RecordsTyped DEF Init
  <2>4. next \in 1..MaxEpoch + 1 /\ active \in 0..MaxEpoch
    BY <2>1 DEF Init
  <2> QED
    BY <2>3, <2>4 DEF Init, TypeOK
<1>2. TaskInv /\ ApplyInv
  BY WriterAssumption DEF Init, TaskInv, StoreConsistent, ApplyInv, AppliedMeansNew,
     Epochs
<1>3. SectionInv /\ FreshInv /\ HoldInv
  BY DEF Init, SectionInv, FreshInv, HoldInv, Acting, Idle, NotMaking
<1>4. CallInv /\ RunInv
  BY DEF Init, CallInv, RunInv, Running, NoCall
<1> QED
  BY <1>1, <1>2, <1>3, <1>4 DEF IInv

\* Every step keeps the invariant.
LEMMA StepIInv == IInv /\ [Next]_vars => IInv'
<1> SUFFICES ASSUME IInv, [Next]_vars PROVE IInv'
  OBVIOUS
<1>1. StoreTyped /\ HoldTyped
  BY DEF IInv, TypeOK, StoreTyped, HoldTyped
<1>2. TaskInv' /\ StoreTyped'
  BY <1>1, TaskStep DEF IInv
<1>3. SectionInv'
  BY <1>1, SectionStep DEF IInv, TypeOK
<1>4. ApplyInv'
  BY ApplyStep DEF IInv, TypeOK
<1>5. CallInv'
  BY <1>1, CallStepFenced DEF IInv, TypeOK
<1>6. FreshInv' /\ HoldInv'
  BY <1>1, FreshStep, HoldStep DEF IInv
<1>7. RunInv'
  BY <1>1, RunStep DEF IInv, TypeOK
<1>8. TypeOK'
  <2>1. gop' \in [Guis -> Gop] /\ making' \in [Guis -> Making]
    BY <1>2, SectionTyped DEF IInv
  <2>2. call' \in [Calls -> Call]
    BY CallTyped DEF IInv
  <2>3. /\ caps' \in [Guis -> SUBSET Epochs] /\ busy' \subseteq Guis
        /\ dcaps' \in [Guis -> SUBSET Children] /\ child' \in [Children -> Child]
    BY <1>1, HoldsTyped DEF IInv
  <2>4. /\ run' \in Calls \cup {NONE} /\ fresh' \in BOOLEAN
        /\ disk' \in [Trees -> {"absent", "clean", "dirty"}]
        /\ up' \subseteq Guis
        /\ apply' \in [Guis -> {"none", "going", "done", "failed"}]
        /\ project' \in {"old", "mixed", "new"}
    BY RestTyped DEF IInv
  <2> QED
    BY <1>2, <2>1, <2>2, <2>3, <2>4 DEF TypeOK, StoreTyped
<1> QED
  BY <1>2, <1>3, <1>4, <1>5, <1>6, <1>7, <1>8 DEF IInv

\* Every reachable state satisfies the inductive invariant: the task row, the
\* sections, the take-over, the holders of capabilities and the calls.
THEOREM Invariance == Spec => []IInv
  BY InitIInv, StepIInv, PTL DEF Spec

\* Every reachable state has its type: no epoch beyond the leases drawn, no call
\* in a state the code does not know.
THEOREM TypeCorrect == Spec => []TypeOK
<1>1. IInv => TypeOK
  BY DEF IInv
<1> QED
  BY <1>1, Invariance, PTL

\* The lease table and the task row agree after every transaction of every
\* process: the newest lease, and only that one, is the active one.
THEOREM StoresAgree == Spec => []StoreConsistent
<1>1. IInv => StoreConsistent
  BY DEF IInv, TaskInv
<1> QED
  BY <1>1, Invariance, PTL

\* No lease is active while the worktree is applied to the project, or after.
THEOREM NoWriterDuringApply == Spec => []ClosedWhileApplying
<1>1. IInv => ClosedWhileApplying
  BY DEF IInv, TaskInv, ClosedWhileApplying
<1> QED
  BY <1>1, Invariance, PTL

\* A task is marked applied only when the project has all of its work, whatever
\* process died in the middle of the apply-back.
THEOREM AppliedIsWhole == Spec => []AppliedMeansNew
<1>1. IInv => AppliedMeansNew
  BY DEF IInv, ApplyInv
<1> QED
  BY <1>1, Invariance, PTL

\* An agent writes at most once after the end of its lease, however many calls,
\* delegations and processes there are.
THEOREM LateWritesBounded == Spec => []FencedWrites
<1>1. IInv => FencedWrites
  BY DEF IInv, TypeOK, CallInv, FencedWrites, Call
<1> QED
  BY <1>1, Invariance, PTL

\* One call at a time writes under a lease: the capability is in one process and
\* that process runs one call.
THEOREM OneWriter == Spec => []OneWriterCall
<1>1. IInv => OneWriterCall
  <2> SUFFICES ASSUME IInv, NEW r \in Calls, NEW s \in Calls,
                      {call[r].step, call[s].step} = {"going"},
                      call[r].epoch = active, call[s].epoch = active,
                      {call[r].c, call[s].c} \cap Readers = {}
               PROVE  r = s
    BY DEF OneWriterCall
  <2>1. Running(r) /\ Running(s)
    BY DEF Running
  <2>2. active \in caps[call[r].gui] /\ active \in caps[call[s].gui]
    BY <2>1 DEF IInv, RunInv
  <2>3. call[r].gui \in Guis /\ call[s].gui \in Guis
    BY <2>1 DEF IInv, RunInv, TypeOK
  <2>4. call[r].gui = call[s].gui
    BY <2>2, <2>3 DEF IInv, HoldInv
  <2> QED
    BY <2>1, <2>4 DEF IInv, RunInv
<1> QED
  BY <1>1, Invariance, PTL

\* The task row implements the pen: whatever the processes do between their
\* transactions, numbers are drawn in order and once, the pen is down during a
\* take-over, and none is given out after it.
THEOREM LeaseImplementsPen == Spec => ImplementsPen
<1>1. Init => Pen!Init
  BY DEF Init, Pen!Init, PenStage
<1>2. IInv /\ [Next]_vars => [Pen!Next]_<<active, next - 1, PenStage>>
  <2> SUFFICES ASSUME IInv, [Next]_vars
               PROVE  [Pen!Next]_<<active, next - 1, PenStage>>
    OBVIOUS
  <2>1. UNCHANGED storeVars \/ Granted \/ Switched \/ Ended \/ Taken \/ Handed
    BY StoreMoves DEF IInv
  <2>2. next \in Nat /\ active \in Nat /\ (active # 0 => PenStage = "open")
    BY WriterAssumption DEF IInv, TypeOK, TaskInv, PenStage
  <2>3. CASE UNCHANGED storeVars
    BY <2>3 DEF storeVars, PenStage
  <2>4. CASE Granted
    BY <2>2, <2>4 DEF Granted, Draw, PenStage, Pen!Next, Pen!Give
  <2>5. CASE Switched
    BY <2>2, <2>5 DEF Switched, Draw, PenStage, Pen!Next, Pen!Give
  <2>6. CASE Ended
    BY <2>2, <2>6 DEF Ended, EndLease, PenStage, Pen!Next, Pen!PutDown
  <2>7. CASE Taken
    BY <2>7 DEF Taken, PenStage, Pen!Next, Pen!TakeOver
  <2>8. CASE Handed
    BY <2>8 DEF Handed, PenStage, Pen!Next, Pen!Settle
  <2> QED
    BY <2>1, <2>3, <2>4, <2>5, <2>6, <2>7, <2>8
<1> QED
  BY <1>1, <1>2, Invariance, PTL DEF Spec, ImplementsPen, Pen!Spec
=============================================================================
