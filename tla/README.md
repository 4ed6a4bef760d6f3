# Orchestratory, specified

Orchestratory lets several command-line coding agents work in one room: an
owner watches through a web page or a terminal, agents talk through MCP
servers, work is addressed to a seat and answered, one agent at a time holds
the writer's pen of a task, and finished work is merged after the owner agrees.
This directory holds TLA+ specifications of that program, TLC configurations
that check them on small instances, and TLAPS proofs for all instances.

Paths such as `core/room-inbox.ts` are below `src/` of the repository; `room.js`
and `app.js` are in `public/`.

Contents: 1 the system, 2 the modules, 3 the components one by one, 4 the runs,
5 the proofs, 6 observations, 7 what is not modelled and what is next.

## 1. The system

A **GUI daemon** (`ui/web.ts`), optionally a **TUI**, and **one MCP stdio
server per agent** (`mcp/collab-server.ts`) run as separate processes. They
share no memory and exchange no messages: every store is a SQLite file that
each process opens. `BEGIN IMMEDIATE … COMMIT` is the only unit of atomicity,
and an operation that touches two stores is at least two steps. JavaScript is
single-threaded, so a synchronous method of one process runs without that
process's other code, but not without the other processes. The browser page is
one more such process, which sees the stores through calls whose answers may
come late or not at all.

| component | state | operations | hard because |
|---|---|---|---|
| Room inbox `core/room-inbox.ts` | deliveries, wait leases | enqueue, wait, ack, reply, fail, cancel, retry, expire, fail on unavailable | leases lapse, calls read before the transaction that writes, the reply spans two databases, processes die |
| Room ledger `core/room-ledger.ts` | messages with a hash chain, recording switch | append (idempotent), pause/off, read, verify | refusals before the idempotency lookup, limits |
| Presence `core/room-presence.ts` | seats, standby grants, names | register, heartbeat, unregister, join, approve/revoke standby, rename | expiry while others rely on it |
| Collaboration service `core/collaboration-service.ts` | none of its own; composes stores | send, wait for reply, room view, writer and merge orchestration | check in one store, act in another |
| Writer lease `core/writer-lease.ts` | leases with epochs, task runs, apply phases | grant, switch, complete, revoke, begin/heartbeat/finish run, begin/finish/fail apply | two owners, stale capabilities, runs that outlive their lease |
| Writer delegation `core/writer-delegation.ts` | delegations | create, assert, revoke by lease | lives in another database than its parent |
| Workspace MCP `mcp/workspace-server.ts` | none | read, write, delete, run in a worktree | the authorization is checked before the write |
| Candidate registry `core/candidate-registry.ts` | requests, candidates, checkpoints, approvals, promotions, spawn evidence | start, checkpoint, complete, request/grant/reject merge, promote, recover, release | git and a database, crashes, drift, processes that outlive their parent |
| Apply-back, git, worktree, snapshot brokers | previews, worktrees | preview, apply, rollback | files the owner edits meanwhile |
| Workflow engine, governor, process runner | runs, calls, child processes | run, cancel, pause, stop all, restore | timeouts against exits, a budget shared by processes, a store other processes open |
| Browser client `room.js` | what is shown, calls in flight | poll, select, search, approve | answers that land after the owner has turned to something else |
| Audit, telemetry, sessions, requests, hooks, providers, scripts | — | append, record, turn, enqueue, … | see section 7 |

### What makes each component correct

* **Inbox.** Work is answered at most once, with the text that was prepared,
  and never offered again afterwards; cancel and reply exclude each other; work
  an agent has acknowledged is not taken by a timer; only the newest wait of a
  seat receives work; nothing stays for ever with an agent that is gone.
* **Seats and sends.** A repeated send is one line and one delivery, of the same
  message; a line nobody will hear of is explained; an ended standby ends.
* **Writer lease.** At most one active lease per task, epochs grow, an old
  capability authorizes nothing, a run excludes a switch and another run, no
  write lands in a project while it is being applied.
* **Candidates.** A request makes one thing. What is merged is what was
  approved; one promotion per project; the record says what happened; nobody is
  told that a merge is over while it lives.
* **Workflow.** What is completed is what was reviewed; a verdict stays; a stop
  reaches every call; every run ends.
* **Apply-back.** All or nothing, and never over what the owner wrote since.
* **Page.** What is shown belongs to the room that is selected; what is signed
  was on the screen and was read.

## 2. The modules

| component | state and actions | abstract | properties | instance | proofs |
|---|---|---|---|---|---|
| room inbox | `RoomInbox` | `RoomExchange` | `RoomInboxProps` | `MCRoomInbox` | `RoomInboxProofs` |
| seats and sends | `RoomSeats` | | `RoomSeatsProps` | `MCRoomSeats` | `RoomSeatsPageProofs` |
| writer lease | `WriterLease` | `WriterPen` | `WriterLeaseProps` | `MCWriterLease` | `WriterLeaseProofs` |
| candidate keys | `CandidateTask` | | `CandidateTaskProps` | `MCCandidateTask` | `CandidateTaskProofs` |
| merge promotion | `MergePromotion`, which extends `MergeApproval` | `MergeDecision` | `MergePromotionProps` | `MCMergePromotion` | `MergePromotionProofs` |
| merge evidence | `MergeIdentity` | | `MergeIdentityProps` | `MCMergeIdentity` | `MergeOwnerProofs` |
| workflow | `WorkflowRun`, which extends `ProcessRunner` | | `WorkflowRunProps` | `MCWorkflowRun` | `WorkflowRunProofs` |
| apply-back | `ApplyBack` | | `ApplyBackProps` | `MCApplyBack` | `ApplyBackProofs` |
| Room page | `RoomPage` | | `RoomPageProps` | `MCRoomPage` | `RoomSeatsPageProofs` |
| merge dialog | `MergeDialog`, which extends `MergeApproval` | | `MergeDialogProps` | `MCMergeDialog` | `MergeOwnerProofs` |

Conventions, the same everywhere:

* **A step** is what runs between two points at which somebody else can come in:
  one transaction, one file operation, or the straight-line code between two
  awaits. A method that reads, decides, and writes in another transaction is
  several steps, with what it keeps in between in a variable of its own (`op`,
  `gop`, `call`, `run`, `look`, …).
* **Time** is left out. A lease may lapse, a deadline pass or a row be old
  enough at any moment, so safety is shown for every clock.
* **Death** of a process drops what it kept in memory, in the middle of any
  call; the stores, git and the agents' processes stay.
* **History variables** are named as such in `VARIABLES`; no guard reads one.
* **Bounds** (`Max…`, `Pending…`, `Limit`) are constants. Those that stand for a
  limit of the code have its name; the others stop an unbounded count in a
  guard, and the theorems hold for every value of all of them.
* What a document, a comment or a test says and the code does not keep is
  stated in the last section of each `…Props` module. These properties are
  violated, and section 6 says how; they are in no passing run.

## 3. The components one by one

### Room inbox

`row[d]` is a row of `room_deliveries`; `d` grows in rowid order, the order of
claiming. `row[d].text` stands for `reply_key` and the digest of author and
text, `completion` for `completion_token_hash`, `seq` for `reply_seq`, `reason`
for what the code tells apart in `error_code`: `DELIVERY_REPLY_UNCERTAIN`,
`DELIVERY_ATTEMPTS_EXHAUSTED`, and any other. `ledger` holds the reply messages
of the room ledger. `op[p]` is the synchronous call process `p` is inside.
`wait[s]` is the row of `room_wait_leases` of a seat, `loop[w]` a call of
`room_wait` with its own waiter token. `opened` is a history variable: the loop
the seat's client opened last.

A method that ends in `#update` (a compare-and-swap on `row_hash`) is two steps:
`Cancel` and `CancelUpdate`, `Ack` and `AckUpdate`, and so on; `op[p].fresh`
says that the row is still the one that was read, and `ConcurrentUpdate` is the
`DELIVERY_CONCURRENT_UPDATE` of the losing call. `reply` is `Reply`,
`PrepareUpdate`, `AppendReply` (another database), `FinishReply`,
`CommitUpdate`; `Crash` may come after any of them. The sweep of lapsed claims
is part of every transaction that runs it (`Swept` in `Enqueue`, `Claim`,
`ClaimNothing`), and a step of its own where `list`, `get` and `waitForReply`
run it in a transaction of its own. `lapsed` and `aged` are the leases whose end
has passed and the requests older than the expiry window; only what has
*renewed* a lease removes a row from `lapsed`.

A seat's presence id belongs to one process for its whole life: a dead seat
makes no more calls, and its agent comes back under a new presence id. Owner
processes restart.

### Seats and sends

`RoomSeats` is the layer above the inbox: presence rows, managed agents, the
chat lines and the deliveries, four SQLite files, and the calls of the service
that run over them one statement at a time. `call[p]` is the call a process is
inside and where it stands (`target`, `append`, `source again`, `target again`,
`enqueue`, …: the order of `postBetweenExternals`). Of a delivery only the state the other
stores look at is kept; `RoomInbox` has the rest. `warned` are the requests the
ledger says could not be delivered. Histories: `late` counts the claims a seat
tries after its standby ended, `granted` the seats the owner approved in this
stay, `cut` the requests whose call ended with its process, `muted` those whose
warning a full ledger refused.

`recording` is the switch of the room (`off` is paused as well) and `full` the
limit of its ledger, which lines of any kind may bring about at any moment
(`Fills`) and nothing takes back. `AppendLine` refuses a room that takes no chat
before it looks for its key, so a repeated send fails there too, with its line
in the ledger or without; a full ledger refuses system lines as well. `Warns` is
the catch block of both kinds of sends: it appends the warning, drops the refusal of
it, and rethrows. So a line whose delivery failed is unexplained exactly in a
full ledger, and `LineExplained` says so. That an append fails for another reason
(a locked or damaged database) is not modelled.

`approveStandby` reads and then updates, in two statements: with two owner
processes a seat that leaves in between comes back with standby. So `late`
starts again when a seat *is on* standby again, and not only when it is granted.

### Writer lease

The module has one task. From `writer-leases.sqlite`: `lease` (the state of
`writer_leases` by epoch), `next`, `active`, `phase` and `tree` (the row of
`writer_tasks`; `phase` is read off its apply and applied columns), `run` and
`fresh` (`writer_task_runs`: which call holds the run lock, and whether its
heartbeat is younger than the stale window). From
`writer-delegations.sqlite`: `child`. In the memory of each GUI process: `caps`
and `dcaps` (`writerCapabilities`, `delegationCapabilities`), `busy`
(`writerTaskControllers`), and `call`, the provider calls. A call has the
process that made it, the epoch and the child it was made for, and the state of
its `agent`: the Workspace MCP server that the provider starts, which outlives
the call when the provider does. `disk` are the worktrees, `project` the
owner's files: before the work, after it, or between. `late` is a history: the
writes of an agent since its lease ended.

A route that runs several transactions without awaiting has its process to
itself while the other processes step in between; `gop` says which comes next:

* `Switch`, `Complete`, `RevokeByActor` and `RevokeUnrecoverable` change the
  lease, then `RevokeChildren` the other database and the process's memory.
  If the ledger or the audit refuses the record in between, the memory stays.
* `RemoveAgent` looks for an active lease, `RevokeByActor` then ends whatever
  lease the agent has by then; `Start` and `RevokeUnrecoverable` likewise. The
  agent that holds a lease is not kept, so any lease may be the removed one's.
* `Delegate` checks the parent, `CreateChild` inserts the child.
* `ReadRun` reads the lease and the process's memory, `BeginRun` takes the run
  lock; `beginRun` asks for *some* active lease.
* `CreateTree`, `GrantNewTask` and `CleanupTree` are separated by awaits, and
  so are `BeginApply`, `ApplyFiles`, and `FinishApply` or `FailApply`: other
  handlers of the same process come in between as well.
* `AuthorizeWriter`, or `ReadParent` and `AuthorizeChild`, is the check of the
  MCP server and `AgentWrites` the file operation it cleared.

`Faults` says what the environment does in an instance: processes die, a
heartbeat is late for the stale window, a store refuses a record, a failed
apply-back cannot be rolled back. Left out: `writerRunControllers`, whose
entries come and go with those of `writerTaskControllers`; the read-only context
gathered for a reviewer before its run begins; external writers and the two
operations that serve rows of earlier versions (`revokeLegacyExternal`,
`markApplied`); row hashes; migrations; the part of `abortWriterIdentity` that
precedes the removal of an agent, since an agent with an active lease is not
removed.

### Candidate keys

`CandidateTask` is the table of client request ids and what a request makes: a
candidate with its worktree, a checkpoint with its recovery ref, a completion.
Every seat is a process over one database, and a seat that reconnects repeats
its request under the same key. A reservation is owned through a token that
changes with every adoption; only the call that took it last holds it, so
`req[k].holder` is that process. `mend[p]` is the half-created row process `p`
is about to fail. `rev` is a natural number: nothing bounds the revisions of a
row in the code.

### Merge approval and promotion

`MergeApproval` has the rows of `candidate_merge_approvals`, the drift checks and
the owner's answers. `MergePromotion` extends it with the one call that writes
main (`approveAndPromoteMainMerge`): it re-checks, records the intent, spends the
approval, starts `git merge` detached and settles the record by looking at the
repository. Every await is a point between two steps (`run[p].step`), a
re-observation (`look[p]`) is two steps, and `git[a]` outlives the process that
started it. `mem[p]` is what a process saw, or was told by the owner, itself.
`ruled` is a history: the records whose wait the owner ended. A commit of main
is named by the history that leads to it.

`MergeDecision` is what the owner is promised: a question is asked, answered
once, spent once and merged once, and the record says what happened.
`ImplementsDecision` is that `MergePromotion` implements it. Stating it exactly
took the proof: a record can come out as `applied` for a merge of an *earlier*
approval of the same task, if the owner stopped waiting for that one and it
landed later, since `authorizedMergeCommit` cannot tell the two apart. That is
the `Credited` of the properties.

`MergeIdentity` is where the one flag `named`/`group` of `MergePromotion` comes
from: the columns and the payload of the row, git's trace file and the spawn
record each name the process group, each can be missing or damaged, and a number
means something within one boot only. It has one promotion and the sentences the
owner is asked to type. `Resolve` is atomic there (`MergePromotion` splits it).
After a reboot the columns and the trace name different groups by the boot they
carry, so an ordinary row asks for the longer sentence: conservative, and
modelled as it is.

### Workflow

`WorkflowRun` has the phases of `WorkflowService.run`, the calls of each run with the
child process of each (`ProcessRunner`: SIGTERM, SIGKILL, a leader that leaves
its group behind), the governor's epoch, and the rows and checkpoints of the
session store. `eng[p][r].rec` is the record in memory that `saveRun` writes.
Calls of reviewers run together and may pass a limit together, as in the code.
A process opens at any moment (`Open`), also while another executes a run:
`recoverInterruptedRuns` then marks the row of that run, its executor goes on and
its next save writes over the mark, and until then the run may be restored in the
process that opened. Two executors then write one row and one checkpoint. Two
histories tell these cases apart: `shared` are the runs restored while another
process executed them, `unswept` those whose executor died since the last
opening. `run` does not look into its own `#active` either, so the second
executor could be the same process; the model has it in another one only.

### Apply-back

A file is its content: absent, as in the first HEAD, the owner's before the
baseline (`mine`) or after it (`late`), or the agent's (`new`). A workflow run
starts from a clean project or from a snapshot of uncommitted edits; a Room
Writer starts from HEAD, and its apply is bracketed by the writer lease. An
apply checks, consumes the approval, and puts the files one by one
(`call[c].done`, `call[c].hold`), comparing each; a refused write is rolled
back file by file. Two assumptions about the owner: an edit never restores
earlier bytes, and none lands between a call's last read of a file and its
rename over it, a window no program can close. Another *call* may land there.

### Room page and merge dialog

`RoomPage` is `room.js`: selection, the poll of the ledger, the refresh of the
seats, the list of merge approvals, search and history, and the bell. A call is
sent, the server reads for it, and the answer lands: three steps between which
the owner selects another room. `MergeDialog` is the dialog over the approvals of
`MergeApproval`: what was last drawn (`drawn`), what was on the screen to its end
(`read`), the phrase, and the calls in flight. What the owner signs is what was
last *drawn*: a retry that lands while another approval is shown changes the
scan without drawing, so the state alone does not say what the owner saw.

## 4. The runs

Each run is one question. `PROJECT.json`, "mutants", has
for each property of each passing run a plausible bug of the code that violates
it there.

| run | configuration | instance | shows |
|---|---|---|---|
| `inbox` | `MCRoomInbox` | one delivery, a seat with two loops, an asker, an owner, two tokens | `ReplyRecorded`, `AcknowledgedWorkKept`, `ClaimedByNewest`, the exchange is implemented; `UnacknowledgedHandedBack`, `DeadSeatSettles` |
| `room_seats` | `MCRoomSeats` | sender, receiver, owner; three names, one of them also a managed agent's; one mortal sender; one open delivery per seat, a recording switch, a ledger that fills up | `SentOnce`, `LineExplained`, `OneLateClaim`; `StrandedSettles` |
| `writer_store` | `MCWriterLeaseStore` | two processes, two leases, one worktree, every fault | `ClosedWhileApplying`, `AppliedMeansNew`, the pen is implemented; `LostRunStops` |
| `writer_calls` | `MCWriterLeaseCalls` | two processes, two calls, one writing delegation, late heartbeats | `OneWriterCall`, `FencedWrites` |
| `candidate_keys` | `MCCandidateKeys` | a start and a completion repeated by two processes, one death | `OneArtifact`, `SuccessIsThere`, `RecoveryReady`, `CreatorUndisturbed` |
| `merge` | `MCMergePromotion` | two approvals, two tasks, two processes, one death, every fault | `ResetOverNobody`, `SoleMerge`, `MarkerHeld`, the decision is implemented |
| `merge_identity` | `MCMergeIdentity` | two readers, two process numbers, any two of twelve faults | `ShortPhraseMeansGone`, `ClosedMeansOver`; `OwnerGetsOut` |
| `workflow` | `MCWorkflowRun` | one run, tester, fallback writer, two reviewers, two processes | `RowTellsTruth`, `CompletedAsReviewed`, `VerdictStays`; `StopsReach`, `RunEnds` |
| `apply_back` | `MCApplyBack` | two files, previews and calls; an edit, a refused write, a crash | `SparesLateEdits`, `BuiltOnMine`, `AppliedWhole` |
| `apply_start` | `MCApplyBackStart` | the same with one preview and one call | a violation: finding 1 of section 6 |
| `room_page` | `MCRoomPage` | two rooms, a seat, an approval, three things that happen | `LiveLedger`, `NewsOnce`; `PageSettles` |
| `merge_dialog` | `MCMergeDialog` | three approvals of two tasks, one call of a kind in flight, five things that happen | `SignedAsRead`; `ChangeSurfaces` |

Deadlock is checked in the two runs of the writer, where an agent can always be
removed or a process restarted. The other systems may really stop: every question
is answered and every process gone, or the bounds are used up.

### Why the instances are enough

* *inbox.* With one delivery every race on one row is present; rows interact
  only through the claim's order, the seat's limit and the ledger's order. Two
  tokens are a claim and a later claim of the same work: a token nobody refers
  to any more may be drawn again, so claims are not bounded. `OnlyAsks` fixes
  who asks whom.
* *room_seats.* A request of a seat and one of the owner to the same receiver,
  which may have one open delivery (`MaxPending`): a send meets the limit of the
  inbox, a paused room and a full ledger, before its line, between its line and
  its row, and when it is retried. One owner process; the proof has any number.
  It starts where both have joined and one has standby, a state every room comes
  to, so that the decisions of the owner (`MaxActs`) are spent on what follows.
  `Bounded` lets the owner decide once only, instead of twice, where the ledger
  is full, has both lines or has lost its sender; it lets a ledger fill up that
  has a line, and keeps managed agents to rooms without lines.
* *writer.* Two processes are enough for every race on the stores: each is a
  check of one and a step of another. Two leases are the one that ends and its
  successor; two calls let one take the run lock of the other. `late` stops
  counting at two. `writer_calls` has stalled heartbeats and no death of a GUI
  process; that its agents write once at most after the start that revokes them
  is `LateWritesBounded`, which has every fault.
* *candidate_keys.* Two calls at a time (`TwoCalls`): a race is between two, and
  the death of a third is the death of one of them.
* *merge.* `InstanceBound` follows one question through everything, or two
  questions through everything but a no, an own commit of the owner, and more
  than one merge that ends badly or process that dies; a wait that the owner
  ended is combined with a second question only within one task and one process.
  The proof has none of these limits.
* *merge_identity.* Two faults, since each source must be missing while another
  is damaged; numbers 1 and 2 are the starter's own and one to be recycled.
* *workflow.* `OneTrouble`: one of an emergency stop, a death, a lingering
  writer, a second round, without a pause, and without the deadline but for the
  lingering writer; pauses and the deadline meet where there is no other trouble.
  `SecondPlans`: a run is restored over its executor while
  that one asks its reviewers, and is planned again. The proofs of the three
  safety properties have none of these limits, nor the bounds on counters.
* *apply_back.* Two files are one already replaced and one to come, which is
  where a roll-back and an interleaving matter. `MCInit` leaves out projects
  that differ by which file is absent.
* *room_page*, *merge_dialog.* Calls of a kind overlap in the page as far as the
  code lets them (`MaxCalls` 1 of each kind, several kinds); three approvals are
  the one on the screen, the one chosen next and the one a retry makes.

### Fairness

Weak for straight-line code that has begun and for timers that stay due; strong
for what shares an event loop with code that comes and goes in between. Nothing
is assumed of agents, providers or what the owner decides.

| where | assumed | because |
|---|---|---|
| inbox | WF of the clocks, the sweep and the expiry that `roomView` runs, and of the steps of a begun call; SF of a wait loop's step | the interface polls; each loop sleeps on its own timer |
| seats | WF of the steps of a call, SF of a loop's turn and of `FindStranded` | the same |
| writer | SF of a call's heartbeat timer and of the end of an aborted call; WF of a begun section | the event loop serves a due timer and a child's exit between any other handlers |
| workflow | WF of what each host does by itself (`Goes`): the engine, the governor's poll, the timers and signals of the process runner, openings | timers and the exit of a killed process; none for a provider that answers, a resume, the owner |
| evidence | WF of `ResolvePromotion` and of the owner typing the sentence shown | the owner keeps the page open and does what it says; git may go on for ever |
| page, dialog | the polls (2 s, 5 s, 10 s), and a server that answers what reaches it | timers of `room.js`; an answer may still be lost, and calls fail |

## 5. The proofs

All theorems are `THEOREM Spec => …` for every value of the constants that the
modules' `ASSUME`s allow. These say only what kind of thing a constant is (sets,
naturals, who is whose). No theorem has a further hypothesis.

| module | invariants | steps | refinement |
|---|---|---|---|
| `RoomInboxProofs` | `TypeOK`, `ReplyRecorded`, `AnsweredNeverReoffered`, `CancelOrReply`, `HolderIsNewest` | `ClaimedByNewest`, `AcknowledgedWorkKept`, `VerdictsStand` | `RoomExchange` |
| `RoomSeatsPageProofs`, seats | `SentOnce`, `LineExplained`, `OneLateClaim` | | |
| `RoomSeatsPageProofs`, page | `PageTypeOK`, `LiveLedger`, `NewsOnce` | | |
| `WriterLeaseProofs` | `TypeOK`, `StoreConsistent`, `ClosedWhileApplying`, `AppliedMeansNew`, `FencedWrites`, `OneWriterCall` | | `WriterPen` |
| `CandidateTaskProofs` | `TypeOK`, `OneArtifact`, `SuccessIsThere`, `RecoveryReady` | `CreatorUndisturbed` | |
| `MergePromotionProofs` | `TypeOK`, `SoleMerge`, `ResetOverNobody`, `MergedIsInMain` | `MarkerHeld` | `MergeDecision` |
| `MergeOwnerProofs`, dialog | `TypeOK`, `SignedAsRead` | | |
| `MergeOwnerProofs`, evidence | `IdentityTypeOK`, `ShortPhraseMeansGone`, `ClosedMeansOver` | | |
| `WorkflowRunProofs` | `CompletedAsReviewed`, `RowTellsTruth` | `VerdictStays` | |
| `ApplyBackProofs` | `AppliedWhole` | `SparesLateEdits`, `BuiltOnMine` | |

None of these is inductive alone. Each module defines `IInv`, proves that it
holds initially and that every action keeps it, one lemma per action or kind of
action, and draws the properties from it.

**Inbox.** `IInv` is the types; `RowInv`, the shape of a row in each state (who
has a token, when a reply can be prepared, what the attempt counter can be);
`LedgerInv`, at most one message for a delivery, with the text prepared in its
row; `OpInv` for a call between its read and its write: `Bound`, what holds
whatever others write, and `Knows`, what holds while the row is still the one
that was read; `UnsentBlank`. Without `Knows` nothing is known when
`CommitUpdate` or `CancelUpdate` writes. `HolderIsNewest` is inductive by itself
and `ClaimedByNewest` follows. The refinement needs only how `PhaseOf` moves when
a row changes, one lemma per kind of write.

**Seats.** A request is the business of one process at a time: of its sender, or
of the owner's process that has just written its line (`Fits`, and no two
owners in `enqueue` with one request). Between the line and the row that process
holds the names the line was written with, which is why a rename in between
makes no second message. What has explained a line goes on explaining it
(`ToldGrows`): warnings stay, and a ledger that is full stays full. `Lates` says that a seat that is on standby, or has
looked and not claimed yet, has claimed nothing late.

**Writer.** `TaskInv` (the tables agree, a lease is active only while the task is
open), `SectionInv` (what a process knows between its transactions), `ApplyInv`
(one process at a time applies, and one that is done has the files in place),
`CallInv` (a call that wrote after the end of its lease is not cleared),
`HoldInv`, `FreshInv` and `RunInv` (a capability is in one process or on its way
to one). `OneWriterCall` does not rest on the run lock, which a stalled process
loses while its call goes on: it rests on the capability being in one process
and on that process's controller. The proof first says which actions write which
variables (`StoreMoves`, `HoldMoves`), so each part is proved against few moves;
the five moves of the task row are the steps of the pen.

**Candidate keys.** `Tables` ties every row to the one key whose reservation
minted its id (`OwnId`, `TaskOfKey`, `PointOfKey`). `CallInv` says what a call
relies on at each of its steps: the reservation it answers for (`Linked`), what
it read (`Reads`), when it is alone with its reservation (`Alone`), and what
shields the row it is creating from a recovery (`Shielded`).

**Merge.** `CallInv` and `SoleCall` for the promoting call, `GitInv` for the
merge processes, `RowInv` and `OneMarker` for the rows, `MemInv` for what a
process was told, `LookInv` for a re-observation under way, `SoleLive` for the
one live question of a task, and `LogInv`: what main's history has gained since a
record began is accounted for. `LogInv` is what made the statement of the
decision precise. At the end every step is shown to be silent, a move of one
question, of one record or of one merge, and so a step of `MergeDecision`.
`MergedIsInMain` rests on `MergedInv`: a call or a re-observation that has been
shown `applied` keeps it across other actors' steps, and main loses nothing, so
the mark it will set is about a merge that is still in main's history.

**Page.** `RoomSeatsPageProofs` extends the modules of the page beside those of
the seats, so the names they would share differ (`PageSpec`, `PageTypeOK`,
`Terminals`, `NULL`, ...). `PollKnows` is about the poll in flight: it asked
from the page's place, unless the page started anew meanwhile, and its answer
lies between that place and the end of the ledger, past every line of its room
that has rung. `RungBefore`: what has rung is in the ledger, and behind the
place of a page that has settled there, so the next news are none of it.
`LinesShown` is `LiveLedger` with the place as an upper bound: the lines of an
answer go behind those shown. `Alone`: nothing else draws into a live panel
before the first search. A room that is left and selected again starts
unsettled, which is why its first answers ring for nothing.

**Dialog.** While nothing blocks the approval on the screen, the last drawing was
of it, valid and clean; while the gate holds, that drawing was read to its end
(`DrawnAsShown`); what is in flight was vetted when it was sent (`Vetted`), and what was
read stays read.

**Evidence.** `MergeOwnerProofs` extends `MergeIdentityProps` beside the dialog's
module, which is why the specification, its type invariant and its variables
have names of their own there (`IdentitySpec`, `IdentityTypeOK`, ...). The
invariant (`Evidence`) is about what the records can name.
`Held`: the number of a merge whose group lives is the merge's and nobody
else's, so that a probe finds it (`Probed`). `Named`: while it lives, each of the
five places that name a group (two in the row, the trace, the marker and the
hand of the promoting call) names it or nothing. A write can only copy one of
these (`IdentityIn`, `KeptIn`) and damage only take one away; a record of an
earlier boot or of a reused number would need a second merge. So a reader who
finds any record of the merge finds it alive (`SeenAlive`), and both short
sentences are for a row that names a group. `SeenForGood`: who saw the end saw a
merge that ran no program of the project, so nothing can have left its group.
Clocks that are set are outside this argument, as section 6 says.

**Workflow.** `PairInv` is about one process and one run: its phase, its record,
its calls and its workspace fit together whatever others do. `CompletedAsReviewed`
follows from that alone, also for a run with two executors. `Rows` relates the
record to the store: the row is the record of the one process that has registered
the run, or the mark of an opening over it; and a row is unfinished only where a
process executes the run and the row is its record, or where the executor died
since the last opening. Of a run restored over its executor (`shared`) only the
second half holds: its row is the record of whichever saved last, and each may
write over the verdict of the other, so `RowTellsTruth` and `VerdictStays` except
it. That openings mark runs that live is in section 6 (`InterruptedMeansDead`).

**Apply-back.** `Baseline` (the baseline has nothing the owner wrote later, the
worktree nothing the project's HEAD did not have), `Given` (which of the owner's
edits the worktree was given), `Previews` (what a preview expects of a file is
never a later edit), `Fits` for a call after its checks, and `Applying`: a
Writer task that is being applied has one call, no lease and a finished row, so
its worktree stands still, and what that call has put and what it has yet to put
make up the project.

### Corrected by a proof

* `MergeDecision` and `MarkerHeld`: the credit of an earlier merge (above).
* `CandidateTask`: `rev` had a bound the code does not have.
* `MergeDialog`: the signature was taken from the dialog's state; it is what was
  last drawn.
* `RoomPage`: the bell was a fold over a set; since different notifications
  differ, only the first one added can equal the newest, and `Rung` says so
  without recursion. TLC reaches the same states.
* `RoomSeats`: the claims of an ended standby were counted on over a standby
  that came back without a grant. The instance has one owner process and could
  not show it; with two, TLC agrees with the corrected module.

### Only model-checked

* *Liveness* (`UnacknowledgedHandedBack`, `DeadSeatSettles`, `StrandedSettles`,
  `LostRunStops`, `StopsReach`, `RunEnds`, `OwnerGetsOut`, `PageSettles`,
  `ChangeSurfaces`): it rests on fairness and `ENABLED`, which the prover does
  not treat.
* Parts of types: that no more previews wait than the limit says (`ApplyBack`,
  a cardinality), the bounds of the counters of a run, the length of the ledger
  in `RoomSeats`. The shapes are proved.

## 6. Observations

### Finding

1. *A Writer's work that can never be handed in.* Every start of the application
   calls `recoverInterruptedRuns` (`app.ts:59`), which fails every row with
   status `created` (`core/store.ts:313`), the row `beginRetained` keeps for a
   live Writer's worktree included. `docs/RUNTIME_REFERENCE.md:223-224` and
   `test/collaboration-service.test.ts:1219` say that a second GUI preserves such
   a run; its lease is preserved, its work is refused from then on. `apply_start`.

### Stated and not kept

Each is a definition in the last section of its `…Props` module. Added to the
configuration named, with the changes named, TLC violates it.

| property | configuration | the code | says otherwise |
|---|---|---|---|
| `PendingBounded` | `MCRoomInbox`, `MaxDeliveries` 2 | `retry` queues without counting (`room-inbox.ts:1200`) | `docs/DECISIONS.md:1051`, `mcp/collab-server.ts:1750` |
| `StaleWorkExpires` | `MCRoomInbox`, `PolledSpec` | `#claim` sweeps a lapsed claim and hands it out again in one transaction (1411) | comment at line 17, `test/room-inbox.test.ts:1264` |
| `StartSparesHeldLeases` | `MCWriterLeaseStore` | a start looks at the run lock only (`collaboration-service.ts:2412`) | `docs/RUNTIME_REFERENCE.md:223-224` |
| `ReopenedWhole` | `MCWriterLeaseStore` | every error of an apply-back reopens the task, a partial roll-back too (`ui/web.ts:1764`) | `docs/DECISIONS.md:225-226` |
| `BusyOnlyWhileRunning` | `MCWriterLeaseStore` | releasing a lost run lock throws before the controllers are dropped (`ui/web.ts:1875`) | `test/writer-lease.test.ts:195` |
| `RenameSpares` | `MCRoomSeats` | the check of a rename and its write are two stores (`collaboration-service.ts:655-663`) | its comment |
| `RemovedHoldsNothing` | `MCRoomSeats` | `#assertRemovable` and the removal likewise (757) | comment at 716 |
| `RefusalIsTheOwners` | `MCRoomSeats`, `Spec` | an approval that is undone, or a removal, ends the request like a refusal (486-490) | comment of `externalJoinWaitState` |
| `FailureIsNot` | `MCCandidateKeys` | a retry settles the key as failed while the first attempt goes on and records (`candidate-registry.ts:6279-6284`) | the same comment; 1343-1359 |
| `OrphanResolves` | `MCCandidateKeys`, `FairSpec`, no completion | retries that take turns keep a dead owner's row guarded (6110) | comment at 3937-3940 |
| `ReleaseOverNobody` | `MCMergePromotion`, `Hooked` {a1}, no symmetry | a merge that main shows untidy is handed over while its group lives (about 7280-7300) | — |
| `ResetKeepsMerges` | `MCMergePromotion` | a merge under a later commit of the owner is not seen in HEAD, and a reset is offered (7046-7047) | — |
| `AppliedOnApprovedBase` | `MCMergePromotion` | main may move between the last check and git | `docs/OWNER_DECISION_FULL_CONTROL.md:40-41`, `docs/ARCHITECTURE.md:159-163` |
| `NeverRetaken` | `MCMergePromotion` | a `manual` record can go back to `applying` (about 7405-7412) | — |
| `MarkerReleased` | `MCMergePromotion`, `FairSpec`, one approval and task, no symmetry | a commit of the owner over a merge leaves it unaccounted for | — |
| `ShortPhraseMeansGone` | `MCMergeIdentity`, `ClockSpec` | the boot instant is wall clock less uptime (2932): setting the clock makes every number another boot's | comment at 2918 |
| `InterruptedMeansDead` | `MCWorkflowRun` | an opening marks runs that live (`store.ts:313`, 333) | same root as finding 1 |
| `ConcurrencyBounded` | `MCWorkflowRun`, two runs | the count is checked before an await (`workflow.ts:195`, 197) | `docs/SECURITY.md:207`, `test/workflow.test.ts:605` |
| `CallsBounded` | `MCWorkflowRun`, `MaxCalls` 3 | calls that start together pass the limit together (707, 769) | `docs/SECURITY.md:205-208` |
| `NoCallAfterStop` | `MCWorkflowRun` | the stop is looked for before a call is priced, and the call made after it | `docs/OPERATIONS.md:23` |
| `SwitchIsSilent` | `MCRoomPage` | the approvals of the room that was left land as those of the new one (`room.js:6289`) | comment at 6288 |
| `PhraseBelongs` | `MCMergeDialog`, every approval `Short` | the answer of a poll draws the approval it was sent for over the one chosen since, and the phrase stays (`room.js:7663`) | comment at 126 |

Three more properties are part of no run: `MergedIsInMain` is proved
(`MergedIsInMainHolds`); `DisplacedLoopEnds` holds; `StandbyIsGranted` holds with
one owner process, and two break it (`MCRoomSeats` with two owners and
`MaxActs` 3).

### Read, not modelled or not stated

* *Inbox and writer.* The announcement of an expiry is keyed by the delivery
  alone, so a second expiry of a retried delivery is silent
  (`collaboration-service.ts:1858`). The sweep's branches for acknowledged rows
  without a prepared reply are unreachable, so no delivery ever fails for
  exhausted attempts; an uncertain reply to work the *owner* sent, whose replier
  has died, stays uncertain. A delegation can be inserted after its parent was
  switched by another process: it cannot write, and stays active. A grant whose
  record is refused has committed, and the clean-up takes its worktree (2174).
  Migrations write the final schema version before later ones ran
  (`writer-lease.ts:643`, 664).
* *Seats.* A `room_send` retried after the receiver was renamed answers
  `ROOM_IDEMPOTENCY_CONFLICT` for ever; an append refuses for a paused or full
  ledger before it looks for its key (`room-ledger.ts:452`), so the retry of a
  send whose line is there fails; in a full ledger a failed send leaves its line
  without a word (`collaboration-service.ts:855-861`, 977-985); `postToExternal`
  does not look again after its append.
* *Candidates.* An adopter that dies un-guards the row of a creator that lives;
  a start that breaks leaves its row guarded while its process lives. A
  rolled-back record after a lost consume is not attested.
* *Workflow.* A descendant that keeps the pipes open keeps `runProcess` from
  settling; a fixed window lets twice the budget pass across its edge; a
  fallback writer may start while the first one's group lives; the last of
  cancel and deadline names the reason; the tester does not hear another
  process's stop-all; a purge between reads lets an orphan save bring a row back.
* *Apply-back.* Two applies of a run's path interleave: the loser's roll-back can
  revert a file the winner reported as applied (`ui/web.ts:2055-2069` has no
  guard). A Room Writer's worktree is built on HEAD, so its apply replaces the
  owner's uncommitted edits (compare `docs/THREAT_MODEL.md:40`,
  `docs/SECURITY.md:179`, `docs/QUICKSTART.md:118`): `BuiltOnMine` is about runs.
  A crash in `applying` sticks, by decision (`docs/DECISIONS.md:225`). `app.js`
  says that nothing was written also after `PARTIAL_ROLLBACK_FAILED`, and
  neither page checks which preview an answer belongs to (`app.js:1404`,
  `room.js:5790`).
* *Page and dialog.* `loadHistory` does not check its room; answers of a search
  are unchecked; a refused join is shown as timed out after an answer that is
  late (`room.js:76-79`); a run that begins and ends between two polls of the
  control plane is never announced. Closing the dialog resets `submitting`, so an
  approval can be posted twice (7468); opening it resets `pollInFlight` (7650);
  a lapsed row stays `requested` on the screen (7398). `repollMergeApproval` keeps
  the approval it was sent for as an object that the countdown may mark as lapsed
  (7396); the model keeps the values it had, and no property depends on the difference.

## 7. Not modelled, and next

`PROJECT.json`, "components", lists every part with what is left out of it. For
good: provider and process I/O, rendering, configuration and argument parsing,
release scripts, and the pure string and path functions of `security/`, which
have no interleaving to explore. The audit chain and the ledger's hash chain are
about hashes. Sessions and managed agents are one process's loops over modelled
operations.

Next, in this order:

1. the bounds now only model-checked (waiting previews, counters of a run);
2. the governor's window with a clock, workflow requests, the migrations of the
   writer store, telemetry consent.
