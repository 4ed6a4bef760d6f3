----------------------------- MODULE WriterLease -----------------------------
(***************************************************************************)
(* Who may write a task.  Several GUI processes share writer-leases.sqlite *)
(* (leases, the apply phase, the run lock of src/src/core/writer-lease.ts) *)
(* and writer-delegations.sqlite (children of a lease); each keeps in its  *)
(* memory the capabilities it was handed and the abort controller of the   *)
(* call it runs (src/src/ui/web.ts).  A call starts a provider whose       *)
(* Workspace MCP server checks the lease and then touches the task's       *)
(* worktree (src/src/mcp/workspace-server.ts).                             *)
(*                                                                         *)
(* One task.  A transaction is one step.  A handler that runs several in a *)
(* row without awaiting has its process to itself, but the other processes *)
(* step in between: gop says which transaction of it comes next.  Time is  *)
(* not counted: a heartbeat gets too old at any moment.                    *)
(***************************************************************************)
EXTENDS Naturals, FiniteSets

CONSTANTS
    Guis,        \* GUI processes
    Calls,       \* provider calls, with the MCP server each one starts
    Children,    \* delegations
    Readers,     \* the delegations to another provider: read-only
    Trees,       \* task worktrees
    MaxEpoch,    \* bound on the leases of the task
    ChildLimit,  \* MAX_ACTIVE_DELEGATIONS_PER_LEASE
    Faults,      \* what the environment does: see Fault
    NONE         \* SQL NULL, or no such object

Fault == {"crash",      \* a GUI process dies
          "stall",      \* no heartbeat for the stale window of a run
          "full",       \* the room ledger or the audit refuses a record
          "rollback"}   \* an apply-back that fails cannot be rolled back

ASSUME WriterAssumption ==
    /\ Readers \subseteq Children
    /\ MaxEpoch \in Nat
    /\ ChildLimit \in Nat
    /\ Faults \subseteq Fault
    /\ NONE \notin Guis \cup Calls \cup Children \cup Trees

Epochs == 1..MaxEpoch

VARIABLES
    lease,    \* writer_leases.state by epoch
    next,     \* writer_tasks.next_epoch
    active,   \* epoch of writer_tasks.active_lease_id, 0 for NULL
    phase,    \* the task row: missing, open, or its apply_/applied_ columns
    tree,     \* writer_tasks.worktree
    disk,     \* the worktrees themselves
    run,      \* writer_task_runs: the call that holds the run lock
    fresh,    \* its heartbeat is younger than the stale window
    child,    \* writer_delegations: state and parent epoch
    up,       \* GUI processes that serve
    gop,      \* the synchronous section each GUI process is in
    making,   \* a worktree a GUI made for a new task, until it is leased
    caps,     \* writerCapabilities: epochs whose token a GUI holds
    dcaps,    \* delegationCapabilities
    busy,     \* GUIs with an entry in writerTaskControllers
    call,     \* provider calls and their MCP servers
    apply,    \* the apply-back request each GUI is in
    project   \* the owner's files: before, after, or between

storeVars == <<lease, next, active, phase, tree>>
runVars == <<run, fresh>>
guiVars == <<caps, dcaps, busy>>
applyVars == <<apply, project>>
vars == <<lease, next, active, phase, tree, disk, run, fresh, child, up, gop,
          making, caps, dcaps, busy, call, apply, project>>

Section == {"idle", "children", "remove", "run", "delegate", "start"}
Gop == [step: Section, old: 0..MaxEpoch, new: 0..MaxEpoch,
        r: Calls \cup {NONE}, c: Children \cup {NONE}]
Idle == [step |-> "idle", old |-> 0, new |-> 0, r |-> NONE, c |-> NONE]

Making == [step: {"none", "made", "failed"}, tree: Trees \cup {NONE}]
NotMaking == [step |-> "none", tree |-> NONE]

Call == [step: {"idle", "going", "aborted", "over"}, gui: Guis \cup {NONE},
         epoch: 0..MaxEpoch, c: Children \cup {NONE},
         agent: {"none", "up", "parent", "cleared"}, late: 0..2]
NoCall == [step |-> "idle", gui |-> NONE, epoch |-> 0, c |-> NONE,
           agent |-> "none", late |-> 0]

Child == [state: {"none", "active", "revoked"}, parent: 0..MaxEpoch]

TypeOK ==
    /\ lease \in [Epochs -> {"none", "active", "revoked", "completed"}]
    /\ next \in 1..MaxEpoch + 1
    /\ active \in 0..MaxEpoch
    /\ phase \in {"none", "open", "applying", "applied"}
    /\ tree \in Trees \cup {NONE}
    /\ disk \in [Trees -> {"absent", "clean", "dirty"}]
    /\ run \in Calls \cup {NONE}
    /\ fresh \in BOOLEAN
    /\ child \in [Children -> Child]
    /\ up \subseteq Guis
    /\ gop \in [Guis -> Gop]
    /\ making \in [Guis -> Making]
    /\ caps \in [Guis -> SUBSET Epochs]
    /\ dcaps \in [Guis -> SUBSET Children]
    /\ busy \subseteq Guis
    /\ call \in [Calls -> Call]
    /\ apply \in [Guis -> {"none", "going", "done", "failed"}]
    /\ project \in {"old", "mixed", "new"}

Init ==
    /\ lease = [e \in Epochs |-> "none"]
    /\ next = 1
    /\ active = 0
    /\ phase = "none"
    /\ tree = NONE
    /\ disk = [t \in Trees |-> "absent"]
    /\ run = NONE
    /\ fresh = FALSE
    /\ child = [c \in Children |-> [state |-> "none", parent |-> 0]]
    /\ up = Guis
    /\ gop = [g \in Guis |-> Idle]
    /\ making = [g \in Guis |-> NotMaking]
    /\ caps = [g \in Guis |-> {}]
    /\ dcaps = [g \in Guis |-> {}]
    /\ busy = {}
    /\ call = [r \in Calls |-> NoCall]
    /\ apply = [g \in Guis |-> "none"]
    /\ project = "old"

-----------------------------------------------------------------------------
(* Helpers.                                                                *)

\* The event loop of g is free to take the next handler.
Ready(g) == g \in up /\ gop[g].step = "idle"
Enter(g, step, old, new) ==
    gop' = [gop EXCEPT ![g] = [Idle EXCEPT !.step = step, !.old = old,
                                           !.new = new]]
Leave(g) == gop' = [gop EXCEPT ![g] = Idle]

\* A record that must be written can be refused when a store is full.
Recorded == IF "full" \in Faults THEN BOOLEAN ELSE {TRUE}

\* A run whose heartbeat is young keeps every other writer operation out; a
\* stale one is deleted by the transaction that meets it.
Blocking == run # NONE /\ fresh
RunSwept ==
    /\ ~Blocking
    /\ run' = NONE
    /\ fresh' = FALSE

\* The next lease of the task is drawn and made the active one.
Draw ==
    /\ next \in Epochs
    /\ next' = next + 1
    /\ active' = next

\* The active lease ends in the given state and no other takes its place.
EndLease(state) ==
    /\ lease' = [lease EXCEPT ![active] = state]
    /\ active' = 0
    /\ UNCHANGED <<next, phase, tree>>

ChildrenOf(e) == {c \in Children : child[c].parent = e}
ActiveChildrenOf(e) == {c \in ChildrenOf(e) : child[c].state = "active"}

\* The calls whose controller g holds for lease e and its delegations.
CallsUnder(g, e) ==
    {r \in Calls : /\ call[r].step = "going"
                   /\ call[r].gui = g
                   /\ call[r].epoch = e}
Abort(rs) ==
    call' = [r \in Calls |-> IF r \in rs THEN [call[r] EXCEPT !.step = "aborted"]
                                         ELSE call[r]]

\* A call is forgotten when it and its MCP server are gone.
Settled(k) == IF k.step = "over" /\ k.agent = "none" THEN NoCall ELSE k

-----------------------------------------------------------------------------
(* Granting the lease of a task: grantWriter and the grant route.          *)

CreateTree(g) ==
    /\ Ready(g)
    /\ phase = "none"
    /\ making[g] = NotMaking
    /\ \E t \in Trees :
        /\ disk[t] = "absent"
        /\ tree # t
        /\ disk' = [disk EXCEPT ![t] = "clean"]
        /\ making' = [making EXCEPT ![g] = [step |-> "made", tree |-> t]]
    /\ UNCHANGED <<storeVars, runVars, child, up, gop, guiVars, call, applyVars>>

\* The capability comes back only if the grant could be recorded.
Grant(g, t, kept) ==
    /\ Draw
    /\ lease' = [lease EXCEPT ![next] = "active"]
    /\ phase' = "open"
    /\ tree' = t
    /\ caps' = IF kept THEN [caps EXCEPT ![g] = @ \cup {next}] ELSE caps
    /\ UNCHANGED <<disk, runVars, child, up, gop, dcaps, busy, call, applyVars>>

\* The worktree cannot be registered, or another process registered the task
\* first and the scope does not match.
GrantNewTask(g) ==
    /\ Ready(g)
    /\ making[g].step = "made"
    /\ \/ /\ phase = "none"
          /\ \E kept \in Recorded :
              /\ Grant(g, making[g].tree, kept)
              /\ making' = [making EXCEPT
                    ![g] = IF kept THEN NotMaking ELSE [@ EXCEPT !.step = "failed"]]
       \/ /\ making' = [making EXCEPT ![g].step = "failed"]
          /\ UNCHANGED <<storeVars, disk, runVars, child, up, gop, guiVars, call,
                         applyVars>>

\* The catch clause removes the worktree again, if it is clean.
CleanupTree(g) ==
    /\ Ready(g)
    /\ making[g].step = "failed"
    /\ disk' = IF disk[making[g].tree] = "clean"
               THEN [disk EXCEPT ![making[g].tree] = "absent"] ELSE disk
    /\ making' = [making EXCEPT ![g] = NotMaking]
    /\ UNCHANGED <<storeVars, runVars, child, up, gop, guiVars, call, applyVars>>

\* Fault: a grant does not look at the apply columns.
GrantAgainAnyPhase(g) ==
    /\ Ready(g)
    /\ phase # "none"
    /\ active = 0
    /\ disk[tree] # "absent"
    /\ \E kept \in Recorded : Grant(g, tree, kept)
    /\ UNCHANGED making

GrantAgain(g) ==
    /\ Ready(g)
    /\ phase = "open"
    /\ active = 0
    /\ disk[tree] # "absent"
    /\ \E kept \in Recorded : Grant(g, tree, kept)
    /\ UNCHANGED making

-----------------------------------------------------------------------------
(* Ending a lease: switch, complete, the removal of an agent, the start.   *)

Switch(g) ==
    /\ Ready(g)
    /\ active # 0
    /\ RunSwept
    /\ Draw
    /\ lease' = [lease EXCEPT ![active] = "revoked", ![next] = "active"]
    /\ Enter(g, "children", active, next)
    /\ UNCHANGED <<phase, tree, disk, child, up, making, guiVars, call, applyVars>>

Complete(g) ==
    /\ Ready(g)
    /\ active # 0
    /\ g \notin busy
    /\ RunSwept
    /\ EndLease("completed")
    /\ Enter(g, "children", active, 0)
    /\ UNCHANGED <<disk, child, up, making, guiVars, call, applyVars>>

\* An agent without an active lease may be removed; revokeByActor then ends
\* whatever lease it has by now, and looks at no run.
RemoveAgent(g) ==
    /\ Ready(g)
    /\ active = 0
    /\ Enter(g, "remove", 0, 0)
    /\ UNCHANGED <<storeVars, disk, runVars, child, up, making, guiVars, call,
                   applyVars>>

RevokeByActor(g) ==
    /\ gop[g].step = "remove"
    /\ \/ /\ active # 0
          /\ EndLease("revoked")
          /\ Enter(g, "children", active, 0)
       \/ /\ active = 0
          /\ Leave(g)
          /\ UNCHANGED storeVars
    /\ UNCHANGED <<disk, runVars, child, up, making, guiVars, call, applyVars>>

\* A starting GUI looks for active leases nobody runs ...
Start(g) ==
    /\ g \notin up
    /\ gop[g].step = "idle"
    /\ IF active # 0 /\ ~Blocking
       THEN Enter(g, "start", active, 0) /\ up' = up
       ELSE up' = up \cup {g} /\ UNCHANGED gop
    /\ UNCHANGED <<storeVars, disk, runVars, child, making, guiVars, call,
                   applyVars>>

\* ... and revokes the one it saw; the start fails if it is gone meanwhile.
RevokeUnrecoverable(g) ==
    /\ gop[g].step = "start"
    /\ \/ /\ active = gop[g].old
          /\ RunSwept
          /\ EndLease("revoked")
          /\ Enter(g, "children", active, 0)
          /\ up' = up
       \/ /\ active # 0
          /\ Blocking
          /\ up' = up \cup {g}
          /\ Leave(g)
          /\ UNCHANGED <<storeVars, runVars>>
       \/ /\ active # gop[g].old
          /\ active # 0 => ~Blocking
          /\ up' = up
          /\ Leave(g)
          /\ UNCHANGED <<storeVars, runVars>>
    /\ UNCHANGED <<disk, child, making, guiVars, call, applyVars>>

\* The children of the lease that ended are revoked in their own database;
\* then the memory of this process follows, unless a record is refused.
RevokeChildren(g) ==
    LET old == gop[g].old
        new == gop[g].new
    IN
    /\ gop[g].step = "children"
    /\ child' = [c \in Children |-> IF c \in ActiveChildrenOf(old)
                                    THEN [child[c] EXCEPT !.state = "revoked"]
                                    ELSE child[c]]
    /\ Leave(g)
    /\ \E kept \in Recorded :
        \/ /\ kept
           /\ up' = up \cup {g}
           /\ caps' = [caps EXCEPT ![g] = (@ \ {old}) \cup ({new} \ {0})]
           /\ dcaps' = [dcaps EXCEPT ![g] = @ \ ChildrenOf(old)]
           /\ Abort(CallsUnder(g, old))
        \/ /\ ~kept
           /\ UNCHANGED <<up, caps, dcaps, call>>
    /\ UNCHANGED <<storeVars, disk, runVars, making, busy, applyVars>>

-----------------------------------------------------------------------------
(* Delegations: the parent is checked in one database, the child is        *)
(* inserted in the other.                                                  *)

Delegate(g, c) ==
    /\ Ready(g)
    /\ active \in caps[g]
    /\ child[c].state = "none"
    /\ \A h \in Guis : gop[h].c # c
    /\ gop' = [gop EXCEPT ![g] = [Idle EXCEPT !.step = "delegate",
                                              !.old = active, !.c = c]]
    /\ UNCHANGED <<storeVars, disk, runVars, child, up, making, guiVars, call,
                   applyVars>>

CreateChild(g) ==
    LET parent == gop[g].old
        c == gop[g].c
    IN
    /\ gop[g].step = "delegate"
    /\ IF Cardinality(ActiveChildrenOf(parent)) >= ChildLimit
       THEN UNCHANGED <<child, dcaps>>
       ELSE /\ child' = [child EXCEPT ![c] = [state |-> "active",
                                              parent |-> parent]]
            /\ \E kept \in Recorded :
                dcaps' = IF kept /\ c \notin Readers
                         THEN [dcaps EXCEPT ![g] = @ \cup {c}] ELSE dcaps
    /\ Leave(g)
    /\ UNCHANGED <<storeVars, disk, runVars, up, making, caps, busy, call,
                   applyVars>>

-----------------------------------------------------------------------------
(* Runs: the run and delegations/run routes.                               *)

\* The writer itself runs (c = NONE), or one of its children.
MayRun(g, c) ==
    IF c = NONE THEN active \in caps[g]
    ELSE /\ c \in ActiveChildrenOf(active)
         /\ c \in Readers \/ c \in dcaps[g]

\* Fault: only the run lock keeps two calls of one process apart.
ReadRunUnguarded(g, r, c) ==
    /\ Ready(g)
    /\ call[r] = NoCall
    /\ \A h \in Guis : gop[h].r # r
    /\ active # 0
    /\ MayRun(g, c)
    /\ gop' = [gop EXCEPT ![g] = [Idle EXCEPT !.step = "run", !.old = active,
                                              !.r = r, !.c = c]]
    /\ UNCHANGED <<storeVars, disk, runVars, child, up, making, guiVars, call,
                   applyVars>>

ReadRun(g, r, c) ==
    /\ Ready(g)
    /\ call[r] = NoCall
    /\ \A h \in Guis : gop[h].r # r
    /\ active # 0
    /\ MayRun(g, c)
    /\ g \notin busy
    /\ gop' = [gop EXCEPT ![g] = [Idle EXCEPT !.step = "run", !.old = active,
                                              !.r = r, !.c = c]]
    /\ UNCHANGED <<storeVars, disk, runVars, child, up, making, guiVars, call,
                   applyVars>>

\* beginRun asks for some active lease, not for the one that was read.
BeginRun(g) ==
    LET r == gop[g].r
        ok == active # 0 /\ phase = "open" /\ ~Blocking
    IN
    /\ gop[g].step = "run"
    /\ \/ /\ ok
          /\ run' = r
          /\ fresh' = TRUE
          /\ busy' = busy \cup {g}
          /\ call' = [call EXCEPT ![r] =
                [step |-> "going", gui |-> g, epoch |-> gop[g].old,
                 c |-> gop[g].c, agent |-> "up", late |-> 0]]
       \/ /\ ~ok
          /\ UNCHANGED <<runVars, busy, call>>
    /\ Leave(g)
    /\ UNCHANGED <<storeVars, disk, child, up, making, caps, dcaps, applyVars>>

Served(r) == call[r].step \in {"going", "aborted"} /\ Ready(call[r].gui)

\* Fault: a failed renewal is ignored.
HeartbeatIgnoringLoss(r) ==
    /\ Served(r)
    /\ run = r
    /\ fresh' = TRUE
    /\ UNCHANGED <<storeVars, disk, run, child, up, gop, making, guiVars, call,
                   applyVars>>

\* The timer of the run renews the row, or aborts a run that lost it.
Heartbeat(r) ==
    /\ Served(r)
    /\ \/ /\ run = r
          /\ fresh' = TRUE
          /\ UNCHANGED call
       \/ /\ run # r
          /\ Abort({r})
          /\ UNCHANGED fresh
    /\ UNCHANGED <<storeVars, disk, run, child, up, gop, making, guiVars,
                   applyVars>>

Stall ==
    /\ "stall" \in Faults
    /\ Blocking
    /\ fresh' = FALSE
    /\ UNCHANGED <<storeVars, disk, run, child, up, gop, making, guiVars, call,
                   applyVars>>

\* The owner cancels the writer or a child of the lease that is active now.
Cancel(g) ==
    /\ Ready(g)
    /\ active # 0
    /\ \E r \in CallsUnder(g, active) :
        /\ call[r].c = NONE \/ call[r].c \in ActiveChildrenOf(active)
        /\ Abort({r})
    /\ UNCHANGED <<storeVars, disk, runVars, child, up, gop, making, guiVars,
                   applyVars>>

\* A call that was aborted ends with its process group; one that ends by
\* itself ends with its leader, and the MCP server may outlive it.  Releasing
\* a lock that was lost throws before the controller is dropped.
CallEnds(r) ==
    /\ Served(r)
    /\ LET agent == IF call[r].step = "aborted" THEN "none" ELSE call[r].agent
       IN call' = [call EXCEPT
                    ![r] = Settled([@ EXCEPT !.step = "over", !.agent = agent])]
    /\ \/ /\ run = r
          /\ run' = NONE
          /\ fresh' = FALSE
          /\ busy' = busy \ {call[r].gui}
       \/ /\ run # r
          /\ UNCHANGED <<runVars, busy>>
    /\ UNCHANGED <<storeVars, disk, child, up, gop, making, caps, dcaps,
                   applyVars>>

-----------------------------------------------------------------------------
(* The MCP server of a call: authorize, then one file system operation.    *)

Agent(r, step) == call' = [call EXCEPT ![r].agent = step]
agentUnchanged == <<storeVars, runVars, child, up, gop, making, guiVars,
                    applyVars>>

AuthorizeWriter(r) ==
    /\ call[r].agent = "up"
    /\ call[r].c = NONE
    /\ active = call[r].epoch
    /\ Agent(r, "cleared")
    /\ UNCHANGED <<agentUnchanged, disk>>

\* A child reads the lease in one database and its own row in the other.
ReadParent(r) ==
    /\ call[r].agent = "up"
    /\ call[r].c \in Children \ Readers
    /\ active = call[r].epoch
    /\ Agent(r, "parent")
    /\ UNCHANGED <<agentUnchanged, disk>>

AuthorizeChild(r) ==
    /\ call[r].agent = "parent"
    /\ Agent(r, IF child[call[r].c].state = "active" THEN "cleared" ELSE "up")
    /\ UNCHANGED <<agentUnchanged, disk>>

\* late counts the writes of a call whose lease is no longer the active one,
\* as far as two.
LateAfterWrite(r) ==
    IF active = call[r].epoch \/ call[r].late = 2 THEN call[r].late
    ELSE call[r].late + 1

\* Fault: one authorization lasts for the whole session.
AgentKeepsWriting(r) ==
    /\ call[r].agent = "cleared"
    /\ disk' = IF disk[tree] = "absent" THEN disk
               ELSE [disk EXCEPT ![tree] = "dirty"]
    /\ call' = [call EXCEPT ![r].late = LateAfterWrite(r)]
    /\ UNCHANGED agentUnchanged

AgentWrites(r) ==
    /\ call[r].agent = "cleared"
    /\ disk' = IF disk[tree] = "absent" THEN disk
               ELSE [disk EXCEPT ![tree] = "dirty"]
    /\ call' = [call EXCEPT
            ![r] = [@ EXCEPT !.agent = "up", !.late = LateAfterWrite(r)]]
    /\ UNCHANGED agentUnchanged

AgentExits(r) ==
    /\ call[r].agent # "none"
    /\ call' = [call EXCEPT ![r] = Settled([@ EXCEPT !.agent = "none"])]
    /\ UNCHANGED <<agentUnchanged, disk>>

-----------------------------------------------------------------------------
(* Applying the worktree to the project: the apply-back/apply route.       *)

\* Fault: the apply-back begins under an active lease.
BeginApplyLeased(g) ==
    /\ Ready(g)
    /\ apply[g] = "none"
    /\ phase = "open"
    /\ disk[tree] # "absent"
    /\ phase' = "applying"
    /\ apply' = [apply EXCEPT ![g] = "going"]
    /\ UNCHANGED <<lease, next, active, tree, disk, runVars, child, up, gop,
                   making, guiVars, call, project>>

BeginApply(g) ==
    /\ Ready(g)
    /\ apply[g] = "none"
    /\ phase = "open"
    /\ active = 0
    /\ disk[tree] # "absent"
    /\ phase' = "applying"
    /\ apply' = [apply EXCEPT ![g] = "going"]
    /\ UNCHANGED <<lease, next, active, tree, disk, runVars, child, up, gop,
                   making, guiVars, call, project>>

\* A failing apply-back puts the files back, if it can.
ApplyFiles(g) ==
    /\ Ready(g)
    /\ apply[g] = "going"
    /\ \/ /\ project' = "new"
          /\ apply' = [apply EXCEPT ![g] = "done"]
       \/ /\ project' \in {project} \cup
                {"mixed" : f \in Faults \cap {"rollback"}}
          /\ apply' = [apply EXCEPT ![g] = "failed"]
    /\ UNCHANGED <<storeVars, disk, runVars, child, up, gop, making, guiVars,
                   call>>

SettleApply(g, from, to) ==
    /\ Ready(g)
    /\ apply[g] = from
    /\ phase = "applying"
    /\ phase' = to
    /\ apply' = [apply EXCEPT ![g] = "none"]
    /\ UNCHANGED <<lease, next, active, tree, disk, runVars, child, up, gop,
                   making, guiVars, call, project>>

\* Fault: the task is marked applied before the files are.
FinishApplyFirst(g) == active = 0 /\ SettleApply(g, "going", "applied")

FinishApply(g) == active = 0 /\ SettleApply(g, "done", "applied")
FailApply(g) == SettleApply(g, "failed", "open")

-----------------------------------------------------------------------------
\* A GUI dies: its memory is gone; provider processes, detached, live on.
Crash(g) ==
    /\ "crash" \in Faults
    /\ g \in up \/ gop[g].step # "idle"
    /\ up' = up \ {g}
    /\ Leave(g)
    /\ making' = [making EXCEPT ![g] = NotMaking]
    /\ caps' = [caps EXCEPT ![g] = {}]
    /\ dcaps' = [dcaps EXCEPT ![g] = {}]
    /\ busy' = busy \ {g}
    /\ call' = [r \in Calls |->
            IF call[r].gui = g THEN Settled([call[r] EXCEPT !.step = "over"])
            ELSE call[r]]
    /\ apply' = [apply EXCEPT ![g] = "none"]
    /\ project' \in IF apply[g] = "going" THEN {project, "mixed", "new"}
                                          ELSE {project}
    /\ UNCHANGED <<storeVars, disk, runVars, child>>

GuiStep(g) ==
    \/ CreateTree(g) \/ GrantNewTask(g) \/ CleanupTree(g) \/ GrantAgain(g)
    \/ Switch(g) \/ Complete(g) \/ RemoveAgent(g) \/ RevokeByActor(g)
    \/ Start(g) \/ RevokeUnrecoverable(g) \/ RevokeChildren(g)
    \/ \E c \in Children : Delegate(g, c)
    \/ CreateChild(g)
    \/ \E r \in Calls, c \in Children \cup {NONE} : ReadRun(g, r, c)
    \/ BeginRun(g) \/ Cancel(g)
    \/ BeginApply(g) \/ ApplyFiles(g) \/ FinishApply(g) \/ FailApply(g)
    \/ Crash(g)

CallStep(r) ==
    \/ Heartbeat(r) \/ CallEnds(r)
    \/ AuthorizeWriter(r) \/ ReadParent(r) \/ AuthorizeChild(r)
    \/ AgentWrites(r) \/ AgentExits(r)

Next ==
    \/ \E g \in Guis : GuiStep(g)
    \/ \E r \in Calls : CallStep(r)
    \/ Stall

Spec == Init /\ [][Next]_vars

\* The event loop reaches a due timer, the end of a call whose process was
\* killed, and the end of every section it has begun.
Fairness ==
    /\ \A r \in Calls :
        /\ SF_vars(Heartbeat(r))
        /\ SF_vars(call[r].step = "aborted" /\ CallEnds(r))
    /\ \A g \in Guis :
        WF_vars(\/ RevokeByActor(g) \/ RevokeUnrecoverable(g)
                \/ RevokeChildren(g) \/ CreateChild(g) \/ BeginRun(g))

FairSpec == Spec /\ Fairness
=============================================================================
