# TLA+ models of bkcrab

bkcrab is a Go server that runs agents, indexes documents for retrieval (RAG) and
generates images.  Two parts carry its hard concurrency.  The **fair queue** shares a few
worker slots among the long tasks of many tenants; the truth about one task is spread over
MySQL rows, a RabbitMQ queue per tenant and a set of Redis keys that only Lua scripts write.
A **conversation** of an agent is worked on by the goroutines of several messages, by other
replicas and by whatever is left after a restart, all of them over one saved history.  This
directory models both, model-checks them on small instances with TLC and proves the safety of
both with TLAPS: the Redis protocol, its callers, the recovery, the tasks, the worker runtime, the
image batches and the conversation.

## 1. The system

### 1.1 Components of the fair queue

| Component | State | Operations | Talks to |
|---|---|---|---|
| **Redis coordinator** `internal/fairqueue/redis_runtime.go`, `policy.go` | ring LIST, `ring_members`, `active_users`, `known_users`, `activation_gen`, processing turns with their two inverse indexes, reservation ZSETs, stable index and metadata | `EnsureKnownTenant`, `Activate`/`EnsureActive`, `NextTurn`, `RotateOrDeactivate`, `AcquireProvisional`, `BindReservation`, `RenewStable`, `EnsureReadyStableInflight`, `Release`, `ReapExpiredTurnsAndProvisionals` | called by everyone below |
| **Scheduler** `scheduler.go` | one attempt per permit | `runOne`: turn, reservation, `basic.get`, depth, rotate, handoff | Redis, Rabbit, worker |
| **Worker runtime** `runtime.go`, `dispatcher.go` | admission gate and publisher gate with their generations, permits, running registry, shutdown and fatal state | `tryReserveWorker`, `executeWorker` (prepare, bind, ack, dead-letter), `runPrepared` (renew, run, finish, release), `TryDispatch`, `OpenResource`/`CloseResource`, `Shutdown`, `FailAuthoritative` | canonical adapter, Redis, Rabbit |
| **Dispatcher** `dispatcher.go` | publisher gate, page cursors | list a page, publish with confirm, CAS mark, activate; rearm pages | MySQL, Rabbit, Redis |
| **Reconciler / recovery** `recovery.go`, `recovery_operators.go`, `redis.go`, `store/fairqueue_operation.go` | epoch, recovery lock, progress, MySQL operation journal | `ReconcileReady`; begin, rebuild, finish a recovery; operator commands | all stores |
| **Canonical RAG tasks** `store/rag_task_claim.go`, `rag_fair_queue_repair.go`, `rag_fair_queue_poison.go`, adapter `rag/fair_queue.go` | `rag_index_tasks`, `rag_documents`, `rag_document_versions`, the capacity advisory lock | claim, heartbeat, fence, activate, retry, fail, supersede, mark dispatched, arm expired, rearm poison | MySQL |
| **Image generation** `internal/imagegen`, `store/imagegen*.go` | `image_generation_batches` and `_tasks`, artifacts under a prefix per claim | create, cancel, claim, heartbeat, retry, finish, fail, expiry sweep, rearm; salvage, publish and delete artifacts | MySQL, workspace, the same queue |
| **Rabbit client** `rabbit.go`, `rabbit_disaster_repair.go` | connections, confirms, topology | publish, get, ack, nack, depth, dead-letter, broker-loss repair | broker |

One task travels as follows.  A transaction creates the row `PENDING` with
`dispatch_generation = 1`.  The dispatcher publishes `(task, generation)` to the
tenant's queue, marks the row dispatched and activates the tenant, which puts it into
the ring.  A scheduler takes the tenant at the head of the ring (a *turn*, with an
expiry), reserves capacity (a *provisional*, with an expiry), gets one message, looks at
the queue depth, and returns the turn: the tenant goes to the back of the ring, or
becomes inactive if its queue is empty and it was not activated meanwhile.  The worker
claims the row in MySQL under the advisory lock, swaps the provisional for a *stable*
reservation named after task and claim, acknowledges, runs, and releases.  The
reconciler re-activates, corrects stable reservations, reaps what expired and reopens
closed gates.  A lease that runs out is re-armed with a new generation.

What is hard: none of these steps is atomic with the next; turns, reservations and
leases expire between any two of them; replies are lost after the effect; processes
die; the broker redelivers; and three stores each hold a partial view.  PROJECT.json
lists these hazards with the line where each bites and the property that covers it.

### 1.2 What makes each component correct

* Coordinator: an activation is never lost (an active tenant waits in the ring or holds
  a turn), ring and indexes agree, scripts never take their own state for corruption,
  turns are round robin.
* Scheduler, worker, dispatcher, reconciler: no published task is hidden by a
  deactivation, reservations respect the limits, only a failed release or a crash leaves one
  behind, every task ends.
* Canonical tasks: capacity of valid RUNNING rows holds in every state; task, version and
  document agree; one claim at a time may write; a generation is claimed once; a row
  marked dispatched has its message; every runnable row ends.
* Recovery: a fenced-off owner changes nothing, READY is entered only with a state rebuilt
  from MySQL and Rabbit, READY and the operation journal agree, an interrupted recovery can
  be resumed and ends in READY.
* Image generation: batch counters equal the sum over the tasks, a cancelled batch starts
  nothing, an ended batch never changes, a finished claim keeps its images, every batch ends.
* Worker runtime: attempts of two openings of the gates never overlap, a fatal error stops
  every run and admits none, a shutdown ends and hands back what the process held.

### 1.3 Components of a conversation

| Component | State | Operations | Talks to |
|---|---|---|---|
| **Routing** `gateway/gateway.go`, `router.go` | none | an inbound message becomes steering of the running turn or a task; a group message of another bot is injected | task queue, turns, sessions |
| **Task queue** `taskqueue/queue.go` | a channel and a processor per chat, a semaphore | submit, execute with a deadline, idle cleanup | turns |
| **Turns** `agent/turns.go` | the turn slot of a conversation, its steering inbox | acquire, steer, close or continue, stop, finish with its padding and leftovers | sessions |
| **Agent loop** `agent/loop.go` | the request, the iteration, plan mode | `HandleMessage`: model call, tool round, loop guard, iteration cap | providers, sessions |
| **Sessions** `session/manager.go`, `store/database.go` | the cached session, its revision, its persistence error; the row | get, reload, append, save under a revision | MySQL |
| **Provider requests** `provider/openai.go`, `anthropic.go` | none | which tool calls and replies a request keeps | model APIs |

What makes it correct: a message accepted as steering is neither lost nor used twice; the
saved history only grows; every request is one the model API accepts; no turn holds a
conversation for ever and every message settles.

### 1.4 The rest of the repository

Memory, channels, sandbox pool, MCP, skills, plugins, cron, the message bus, HTTP handlers,
the RAG pipeline and search, web front end, CLI and evaluation tools.  They are listed in
PROJECT.json; channel leases, the bus, the cron scheduler and the inbox deduplication have
small state machines of their own and are on the plan, the others are I/O, wiring or driven
by model output.

## 2. Modules

```
TenantQueue  <=(refined by)=  FairCoordinator  <-  MCCoordinator
                                    ^    ^---  FairCoordinatorProofs  <-  TenantQueueProofs
                                    |
                               FairScheduler   <-  MCScheduler
                                    ^---  FairSchedulerProofs  (extends TenantQueueProofs as well)
FairTask  <-  FairTaskProofs, MCTask
FairRecovery  <-  FairRecoveryProofs, MCRecovery
FairRuntime  <-  FairRuntimeProofs
ImageBatch  <-  ImageBatchProofs
Conversation  <-  ConversationProofs
MCTask, FairRuntime       <-  MCTaskLive
Conversation, ImageBatch  <-  MCServices
```

FairScheduler composes the scripts with the processes that call them.  FairTask, FairRecovery
and FairRuntime look at the same queue from the side of MySQL, of the recovery and of one
process, each with the others cut down to what it sees of them.

### 2.1 FairCoordinator

One action per READY-mode Lua script; a script is atomic.  `ring`, `members`, `active`,
`known`, `generation`, `tenantTurn` are the Redis keys; `turns` is the set of turns that
`processing_turns`, `turn_to_tenant` and `turn_to_generation` describe together (every
script writes the three together), and `reservations` likewise stands for the inflight
ZSETs, the stable index and the metadata.  `now` is Redis TIME.  The answers
`FQ_COORDINATION_CORRUPT` are the `*Corrupt` operators: the action is disabled and the
property `NoSpuriousCorruption` says the answer is never given.  `MaxGeneration` stands for
the code's MaxInt64 guard.  `CoordinatorNext` lets anybody call any script at any moment
with any arguments.  That is weaker than what the callers do, so what holds here holds for
them.  The fence that every script checks first (READY, epoch, writer) is constant in
READY mode and left out, as is the acquire script's answer for more expired entries than
its scan limit.

The abstract specification of all this is **TenantQueue**: one first-in, first-out queue of
tenants, each waiting, being served or out, where a request for a tenant that is being served
is remembered, so that it cannot leave before it has been served again.  FairCoordinator maps
`ring` to the waiting line, the tenants of turns to those served, and a generation that differs
from the turn's to a remembered request.  Reservations and expiry times are invisible to it.

### 2.2 FairScheduler

Extends FairCoordinator with the processes that call it.  `slot[p]` is one scheduler
attempt and the worker it hands over to (`pc` names the next call), `pub` the dispatcher's
publish, `recon` what the reconciler has read, `gate` the admission gate, `ready` the
tenant queues, `status` and `claims` the canonical row reduced to what these processes
see.  Each Redis script, Rabbit call and MySQL transaction is a step of its own.  The
`*Lost` actions are calls whose reply is lost: the effect may have happened, the caller
cleans up as the code does.  Every call of the cleanup itself may fail as well, and the code
then reports and goes on: `ActivateAfterPublishFailed` and `EnsureActiveFailed` leave a message
ready under a tenant that is perhaps not active, `SchedulerReleaseEmptyFailed`,
`ReleaseProvisionalFailed` and `ReleaseStableFailed` a reservation without an attempt,
`SchedulerRotateLost` a turn to the reaper.  `lost` records what such a failure, or a crash, has left
undone: the tenants whose activation is missing, until the next one, and the tokens whose release is.
`NoHiddenMessage` and `NoReservationLeak` are about everything else, and `EveryTaskEnds` about what
becomes of the rest.  A failed activation also closes the publisher gate (`PubClosed`), which
`OpenPublisherGate` opens again.  `Crash` returns unacknowledged messages to the queue and
leaves Redis as it is.  `OpenResource` opens a gate only when the process is not preparing
an attempt.  The row of a crashed or abandoned claim is re-armed by `RearmExpired`; a
claim whose worker lives is renewed by its heartbeat and does not expire here (that race
is FairTask's subject).  Poison messages, dead-lettering, direct dispatch and shutdown are
FairRuntime's subject.

### 2.3 FairTask

The MySQL side in full: `row`, `doc`, `versions` are the three tables, `capLock` the
capacity advisory lock, `enabled` the users with status active, `queue` the deliveries,
`pub` the dispatcher's candidate row, `slot` the worker slots with the fence of their
claim.  A transaction is one step, except claim and heartbeat, which decide under the lock
and commit later; in between everything happens that takes neither the lock nor the
locked rows.  In particular leases run out.  Database time is reduced to two bits per
row, lease live and next run due, which change at any step; that covers every clock value.
Every early return of the claim is an action: duplicate or stale, maintenance, inactive
owner, capacity deferred, exhausted, lost commit.  The branches for a stale target or an
inconsistent task/version are not actions, because `TargetsAgree` shows that no reachable
state enables them.  Left out: the legacy single-queue claim, progress and warning
columns, paging, candidate encoding.

`NothingGoesBack` is the action property: generations of a row only advance, and the active
version of a document only moves forward.

### 2.4 FairRecovery

How a resource gets from missing or damaged Redis state back to READY.  `run[p]` is one
runtime (the loop `RecoveryCoordinator.Run`) or one invocation of
`redis-force-rebuild --apply`; its `pc` names the next script, MySQL transaction or Rabbit
call.  `lock`, `control` and `progress` are the Redis keys `recovery_lock`, `resource` and
`recovery_progress`; `journal` is the MySQL row of the operation and `startFence` the holder
of the advisory lock under which operations start.  The coordination state that a recovery
rebuilds is cut down to `known`, `active`, `stable` and `provisional` (FairCoordinator has it
in full), tasks to a status.  A runtime reads the journal and the control and then joins the
READY epoch, completes a READY_COMMITTED operation, stops with an operator-required error,
or takes start fence and lock and begins.  Both kinds of process then run the same
`RunRecovery`: drain, high water, reset, restore, converge, final pass, finish.  Every step
after Begin tests the fence (`FenceOK`, else `FenceLost`).  Tokens are random in the code; here a new
token is any one not in use, and a step that draws one waits while there is none (`FreshTokens`).

`held` are the deliveries that a consumer has and has not settled, `returned` those put back since the
dispatched pass began.  The pass asks the broker for the *ready* depth of each tenant
(`ReadyDepthPositive`, `recovery.go:1065`), which does not count a held delivery.  One that is returned
later leaves its tenant out of the ring at READY; `ReadyIsRebuilt` speaks of the messages that were in
their queues throughout the last pass and since, and the passes of `ReconcileReady`, which begin before
the gate opens, look at the depths again (FairScheduler).  `FinishRecovery` answers OK to its own finish
when it has committed already (`redis.go:1559-1586`); the client has retries off (`redis.go:447`) and calls
it once, so that the answer is hardly ever seen.

Time is abstracted: a lease in `provisional` may be expired whenever the rebuild looks, and
waiting for `PublishAttemptTimeout` or the force deadline is modelled by what it achieves
(no attempt or admission from before is left).  `ReconcileReady` is one step here; its steps
are in FairScheduler.  That it finds damage is a nondeterministic event (`FindDivergence`).
A runtime that stopped with a terminal error is restarted by its supervisor.  Not modelled:
WRITER_REBIND and RABBIT_REPAIR, the writer fingerprint, key patterns, paging, and the
external safety checks of the operator commands, which are taken to succeed.

### 2.5 ImageBatch

The second resource of the queue.  Every transaction takes the resource's advisory lock and is
one step; a claim is many: salvage of what an earlier claim left, generate, publish, finish,
delete, with a heartbeat beside them that notices a cancellation or a lost fence.  `objects` are
the complete claim prefixes in the workspace, `slot` the workers' locals, `queue` the deliveries
and `pub` the candidate the dispatcher has read.  Cancellation may come at any moment.  A fault
is a worker or dispatcher that stops, a commit whose answer is lost, or MySQL out of reach when a
claim finishes.  Left out: providers, the older service beside the fair queue, and the cleanup of
old artifacts.

### 2.6 Conversation

`pc[m]` is the goroutine of each message: routed, queued behind others of its chat, waiting for
the turn slot, or in the turn, where it names the next append, model call or tool.  `turn` and
`inbox` are the slot and its steering inbox, `work` the locals of `HandleMessage`, `session` the
cached session, `durable` the row with its revision, `read` what a `Get` has loaded and not yet
installed.  Loading and installing are two steps, because other goroutines append in between.
`shadowed` records that a `Get` outside the turn has hidden something from it: the error of a failed save
while the loop still runs, or the list that `finishTurn` is padding (`HidesFromTurn`).
Appending a message, saving it under the revision and recording the error is one step, as it is
under the session's lock.  Around it: stop requests and deadlines, failed loads and saves, appends
of another replica, a restart that keeps only the row, group messages injected without a turn,
readers such as `WebChatHistory` whose `Get` may reload the session beside a turn (both are members
of `Injected`), and idle chats whose queue is removed.  A response has two tool calls; their results arrive in any
order.  `OrphanCalls`, `OpenAIReplies` and `AnthropicReplies` are the functions that decide which
messages of a history are sent.  Not modelled: compaction (`ReplaceMessages`), slash commands that
rewrite the history, `HandleMessageStream`, the variant of the loop behind the OpenAI-compatible
API, and the choice of the session key: `resolveOrMintKey` (`manager.go:194-203`) mints a new one when the
store fails or has no session of an IM chat yet, and the model follows one key.

### 2.7 FairRuntime

One process and one resource.  `gate` and `publisher` are the two admission gates, opened one after
the other (`opening` in between, under `gateOps`) and numbered by generation; `permit[p]` is the
permit, its snapshot of the gate and the goroutine that serves it; `direct` the calls of
`TryDispatch`; `recovery` the recovery loop as far as it works the gates; `stop`, `fatal`,
`cancelled` and `workStop` the shutdown and the fatal path.  Redis is one reservation per permit
under a fence `epoch`, 0 while READY is taken away, Rabbit one delivery per permit.  A rebuild takes
READY away first (`BeginRebuild`), under attempts, runs and dispatches that go on and whose calls are then
refused, drains the attempts (`DrainForRebuild`), and writes back the stable reservations of rows that run
(`CommitRebuild`); it may give up anywhere.  A run that ends joins its heartbeat, reads the latest fence
(`ReadLatestFence`, `runtime.go:1044`) and releases with it in a step of its own (`ReleaseRun`).  Every
call may fail, also the activation after a publish (`DispatchActivates`), which closes the publisher gate of
its opening.  `Run` may ignore its cancellation and take for ever.  `excused` collects the permits and
calls that outlived a budget, whose release failed or was refused because READY was gone, or whose fence was
read just before the gate opened under a new one: what the shutdown promises, it promises of the others.

### 2.8 MC modules

They give the bounds as *scenarios*: a set of records, each with the actors and the number of
faults of every kind that a behaviour may use, one of which is chosen in the initial state.  A run
therefore covers several instances, and each fault bound applies where it is interesting.
MCServices explores Conversation and ImageBatch in one run, MCTaskLive two tasks of FairTask and
FairRuntime: they share no state, and a behaviour gives work to one of them only.  The other has no step
that fairness asks for.  Messages of a kind are alike, so in MCServices m1 always comes before m2 and g1
before g2 (`InOrder`).

Redis and MySQL limits are checked by separate modules because they are separate
promises: the reservation limits the scheduler, the claim limits the valid RUNNING rows,
and the code does not rely on the first for the second.

## 3. Runs

| Run | Instance | What it shows |
|---|---|---|
| `coordinator` | 3 tenants, 2 turn tokens, TTL 1, time 0..2 | `CoordinatorInv` (the inductive invariant), `ActiveIsScheduled`, `NoSpuriousCorruption`, `RoundRobin`, and `ImplementsTenantQueue`, the refinement of TenantQueue |
| `scheduler_faults` | 2 processes, 2 tasks of one tenant, capacity 1, expiring turns and reservations, any one failure | type, `NoHiddenMessage`, `CapacityRespected`, `NoReservationLeak` |
| `scheduler_live` | 1 process; 2 tasks of 2 tenants, or one task with two failures, with a failure and a crash, with a failure and a stable pass, or with a redundant activation | `NoHiddenMessage`, `EveryTaskEnds`, also with the reconciler rewriting reservations |
| `task_safety` | 2 slots; 2 tasks superseding each other on one document with one fault, or while the user is disabled and enabled, or 2 documents competing for one user's capacity with one fault | `TargetsAgree`, `VersionsAccounted`, `SingleLiveFence`, `DispatchedIsDelivered`, `CapacityHeld`, `NothingGoesBack` |
| `task_live` | FairTask: 2 tasks wanting the same capacity, 1 slot, one fault. FairRuntime: 1 or 2 permits and a dispatch with a rebuild, reopened gates, failed calls, expired budgets, a fatal error and a shutdown | `EveryRowEnds`; `GenerationsDoNotOverlap`, `FatalStopsRuns`, `ShutdownHandsBack`, `ShutdownCompletes` |
| `recovery_safety` | 2 runtimes and 1 fault, or a READY state found damaged while deliveries are held; or a runtime, 2 operators, 1 fault and 1 loss of all Redis state; or a runtime, an operator and 2 faults, or 1 fault and damage | control shape, `JournalGuardsReady`, `ForceIsResumable`, `NormalYieldsToJournal`, `ReadyIsRebuilt` |
| `recovery_live` | 2 runtimes and 1 fault, or a runtime, an operator who reruns the command and 2 faults | `ReadyUnlessLateInterruption`, `ForceUnlessLateInterruption` |
| `services` | Conversation: 2 messages, or 1 to 2 messages and one or two group messages or readers, with a failed save, a stop, another replica or a restart. ImageBatch: 1 batch of 2 tasks, 2 slots, capacity 1, room for the images of one task, one fault, cancellation at any time | `SteeringKept`, `HistoryOnlyGrows`, `AnthropicAccepts`, `EveryMessageSettles`; type, `BatchAgrees`, `ImageLimitsHeld`, `OwnArtifactsKept`, `EndedIsFinal`, `EveryBatchEnds` |
| `task_reenabled`, `recovery_rerun`, `wire`, `padding` | see section 5 | a documented promise that the code does not keep |

Bounds.  Two processes and two tasks are the smallest instance in which one attempt can
overtake another; three tenants in the coordinator let two wait while one holds a turn,
which the ring order needs.  TTL 1 with time 0..1 makes every turn, provisional and stable
token able to expire at any later point exactly once.  `MaxGeneration` is chosen so that it
is never reached in the scheduler runs (8, or 12 where deferrals and passes add
activations); in the task and image runs it limits the number of re-armings of a row to two or three.
`MaxCopies` 2, in `scheduler_live`, allows a duplicate delivery.  Each fault bound is 1, any single failure at any
place, at any time (2 where a command is interrupted).  `MaxClaims` 2 and `MaxRetry` 1 allow one retry and then exhaustion.
Actions that leave something to expire (`Crash`, `SchedulerNextTurnLost`, failed releases) require that time
for it is left (`TimeToExpire`), otherwise the end of bounded time would look like a lost
task.  In the recovery runs a fault is a process that stops, a lock that expires under its
owner or a lost MySQL session.  A force rebuild needs one fault to begin, since it is only allowed
over a NORMAL recovery without an owner, so a second one is needed before it can be interrupted
itself; with two operators the loss of Redis is what lets one operator take over from another.
Nine tokens are more than are ever in use, so that no step ever waits for one.
Of the images in `services`, one unit of capacity and one of bytes for two tasks make a task wait and make one fail
at the byte limit.  Of the conversations two messages are enough for one to steer, wait behind or stop
the other's turn, and two readers outside the turn for one to install an older list than the other;
one response with two tool calls leaves every partial tool round that padding has to repair; `MaxIterations` 2
makes the cap reachable.  Two permits let one be admitted while another prepares or runs; one
reopening of the gates, with or without a rebuild, lets a task outlive the fence it was admitted
under.  Symmetry is used for interchangeable processes,
slots, tasks and tokens, and only in runs without liveness.

Fairness.  FairScheduler: weak fairness of each step of a running attempt, of the publish,
mark and activate steps, of lease expiry, the reaper, reopening and time, because each is a
loop with a ticker or a goroutine that continues; strong fairness of the entry of the
scheduler loop and of the reconciler's passes, which poll for as long as the process lives
while other steps may close the gate or empty the ring in between.  Nothing is assumed of
crashes, failures, renewals or redundant activations.  FairTask: weak fairness of the
dispatcher, the sweepers, the broker and commits; strong fairness of taking the capacity
lock for a claim and of finishing a claim, which MySQL's lock queue and a worker that
terminates justify.  FairRecovery: weak fairness of each runtime's
loop, which retries with backoff for as long as the process lives, of publish attempts and
admissions, which have a deadline, and of the expiry of a lock nobody renews; with
an operator, of one who reruns the command.  ImageBatch: as FairTask, weak
fairness of the dispatcher, sweeper, broker, each worker's claim and of abandoned leases.
Conversation: weak fairness of the steps of the running turn (model calls and tools return or fail
by their deadlines), of the chat's processor, of waiters for the turn slot and of injections that
began; nothing of arrivals, stops, restarts and replicas.  FairRuntime: weak fairness of each
permit's goroutine, each dispatch and the shutdown sequence, whose calls and waits all have a
deadline, but not of `Run`, which may never return.  In FairTask fairness is of
"some row" or "some delivery", never of a particular one.

## 4. Proofs

`FairCoordinatorProofs` proves, for every number of tenants and tokens, all limits, TTLs
and batch sizes that satisfy the ASSUMEs of FairCoordinator:

* `CoordinatorSafe`: `CoordinatorSpec => []CoordinatorInv`;
* `NoLostActivation`: an active tenant waits in the ring or holds a turn, never both;
* `CorruptionIsForeign`: no sequence of script calls makes a ring or turn script answer
  that the state is corrupt;
* `TurnsAreRoundRobin`: waiting tenants keep their order, newcomers stand behind them.

`TenantQueueProofs` proves `ScriptsImplementQueue`: `CoordinatorSpec` implements TenantQueue under
the mapping of section 2.1.  Each script is mapped to a step of the queue: `Activate` to a request,
`NextTurn` to serving the head, a rotation or a reap of expired turns to a return, a deactivation to
a leave, the rest to a stutter.  A grant is of
the head, and a deactivation is a leave, only in states of the inductive invariant: `CoordinatorInv`
together with `TurnsNotAhead` (a turn never has a generation that its tenant has not reached), without
which an activation during the turn could make the two equal and be forgotten.

`ActiveIsScheduled` is not inductive.  `NextTurn` takes a tenant off the LIST but the SET
is what `ActiveIsScheduled` speaks of, so list and set must agree and the list must be free
of duplicates (`RingMatchesMembers`); returning a turn clears `tenant_to_turn` of the turn's
tenant, so turns and tenants must be inverse and tokens unique (`TurnsMatchTenants`); and
scripts refuse to act on unknown tenants or generation 0 (`ActiveIsKnown`).  The conjunction
with the type invariant, `CoordinatorInv`, is inductive, and the proof has one step per
script with one lemma per conjunct where the script does something (rotation, grant, reap).
The order theorem rests on `NextTurnHead`: under the invariant every ring position is
eligible, so a grant removes exactly the head, and on lemmas about concatenation.

`ImageBatchProofs` proves every safety property that the `services` run checks of images, for any number of batches,
tasks, users and worker slots and for all limits: `ImageTypesHold`, `BatchesAgree`, `LimitsHold`,
`FinishedClaimsKeepImages` and `EndedStaysEnded`.  It assumes, beyond the shape of the constants, that a
batch has a task (`validateCreateImageGenerationBatch` asks for 1 to 16) and that a generation can be
claimed at all (`MaxGeneration >= 1`).  The argument does not go through the actions one property at a
time.  Two lemmas read them once: whatever a step does, its effect on the tables is one of a few kinds
(`RowSteps`: a batch is created or cancelled, an open row is touched, claimed or ended), and so is its
effect on a worker and its artifacts (`WorkerSteps`).  Everything else follows from the kinds:

* `BatchAgrees` needs `RowsShaped` and `BatchesShaped` beside it.  A claim writes the batch's status
  without a recount, which is right only if a batch and its rows exist together and a cancelled batch has
  no waiting row; the sweeper and `DONE` recount, so their case is that a recount agrees
  (`RecomputedBatch`).
* The limits hold because only a claim adds to the running rows, and it counted them; a row armed again
  or renewed does not come back, because `claim <= dispatch` (`RunningRows`).
* `OwnArtifactsKept` is not inductive: a worker about to delete must not hold the claim that finished.
  `ClaimsInv` says why it cannot: a claim has a generation its row has reached, what it salvages is
  older, no two workers have the same claim, nobody has the claim of a finished task, and a claim that
  published and is not overtaken still has its images.
* `EndedIsFinal` follows from the kinds and `BatchAgrees`: a row that still changes is open, so its batch
  has not ended.

`FairTaskProofs` proves every safety property of the task run for any number of tasks, documents, users
and worker slots, for all limits, retry budgets, generations and faults: `TypesHold`, `TasksAreTargets`,
`VersionsHaveBuilders`, `OneLiveFence`, `MarkedIsDelivered`, `LimitsHold` and `NothingReturns`.  Beyond
the shape of the constants it assumes that a generation can be claimed (`MaxGeneration >= 1`), that the
bound on copies leaves room for one (`MaxCopies >= 1`; with 0 no publish would do anything) and that
`None` is neither a task, a slot, an owner nor a delivery.

Each of the 29 actions is read once and put into one of a few kinds, and the invariant is proved of the
kinds:

* `StepTables`: the effect on the three tables is a `TableStep`.  Rows are touched within their version
  (marked, armed, renewed, expired), or one document changes: a version is opened, dropped, failed,
  activated or built by a claim.  All but the claim need the rows unlocked (`LockedDoc`).
* `RowSteps`: hence every row is kept, created, ended, armed again, or claimed or renewed by the slot that
  holds the lock, and the lock is freed with it (`RowStep`).
* `SlotSteps`, `DeliverySteps`, `CounterSteps` say the same of the slots and the lock, of the copies of
  each delivery and the dispatcher, and of users and counters.

None of the properties is inductive, and the parts of `IInv` are what they lack:

* `TablesInv`.  `TargetsAgree` and `VersionsAccounted` need each other, and that tasks of one document have
  versions of their own (so superseding a document's runnable rows supersedes exactly what was being
  built), that a claim never passes the dispatch generation, and that a PENDING or unclaimed row has no
  live lease.  The activated version is the document's newest, which is why active versions only grow.
* `LockInv`.  What a claim or a heartbeat read still holds at its commit, although leases end and delays
  run out in between: every other step leaves a locked runnable row as it is, and only expiry, which keeps
  a due row due, touches it.
* `FencesInv`.  A fence has a generation that its row has reached, and nobody else has it: a claim commits
  a generation larger than every one before.  Two live fences of a document are of one task
  (`TablesInv`), hence of one generation, hence one.
* `DeliveriesInv`.  `DispatchedIsDelivered` must speak of the row the dispatcher has published and not
  yet marked as well (`Awaited`), and of the one it has read (`Candidate`).  A delivery is acknowledged
  only when its row is claimed, ended, armed again or not due, and a row that counts on it is due.
* `CapacityInv`.  The limits are stated of the valid rows together with the row whose claim or renewal is
  pending under the lock (`Occupied`).  A claim counted the valid rows when nothing was pending; a
  heartbeat renews a row that was valid when it read it; no other step adds a row, unless a user is made
  active again (section 5).

`FairRuntimeProofs` proves every safety property of the worker runtime for any number of permits,
dispatches and workers and for all bounds on faults, rebuilds and openings: `RuntimeTypesHold`,
`OneGeneration`, `FatalReachesAllRuns` and `NothingHeldAfterShutdown`.  It assumes nothing beyond the
shape of the constants.  `RuntimeInv` consists of a part for the pool, one for the gates and one for each
permit and each call, and most steps are of one permit (`Alone`), so that their lemma has to look at that
permit only:

* `PoolCounted`, `CallsCounted`: the counters are the sizes of the sets they stand for.  `OpenResource`
  and the rebuild look at counters only; that zero means nobody is what makes them safe.
* `GatesFollowRecovery`: a gate is open only in the state `open` of the recovery loop and under the fence
  of Redis, and never after the shutdown has closed it.  A rebuild takes READY away under attempts, but
  commits a new fence only after they are drained, and the gate takes it only then.  Hence
  `GenerationsDoNotOverlap` holds in the stronger form that *every* attempt has the latest generation and
  the fence of the gate, whether it is open or not, and Redis has that fence or none (`PermitOK`): the
  release of an attempt is refused only when READY is gone, and then nothing of it survives the rebuild.
* A run has no such guarantee: it outlives openings.  What it read at `releasing` is the fence of the gate
  unless the gate opened under another since, which excuses it (`OpenEnds`).
* `HoldsWhatItNames`: the names an attempt hands to its release cover the reservation it holds, also when
  a bind failed after it was committed, and a permit that is finished holds nothing or is excused.
* `PoisonIsKept`: a poison message without a copy is on no way to an ACK.
* After the drain every attempt and every call is excused; after the forced release every reservation is
  gone or excused.  A rebuild that is still under way could write one back: `PermitOK` has it that its
  running tasks are excused then, because READY had no fence when their release was tried.

The theorems are about `RuntimeSpec`; MCTaskLive explores the same actions next to those of FairTask,
with which they share no variable.  The type invariants of both modules are proved
(`RuntimeTypesHold`, `ConversationTypesHold`) and not repeated in that run.

`FairSchedulerProofs` proves every safety property of the scheduler runs for any number of processes,
tasks, tenants and tokens and for all limits, TTLs, retry budgets and bounds on failures:
`SchedulerTypes`, `NoMessageIsHidden`, `LimitsAreKept` and `NoReservationIsLeft`.  It assumes that there
are finitely many processes, that `None` is no token, turn or delivery and that deliveries name stable
tokens.  An action that draws a token waits until one is free (`FreshTurnTokens`, `FreshAttempts`); in
the code 128 random bits always give one, and in the runs there are enough for it never to wait.

The scripts are not looked into again.  A step of the loops is a script with names that the loops have
(`ScriptStep`), hence a step of FairCoordinator; `LoopsOnlyCallScripts` concludes that the composition
implements `CoordinatorSpec`, and `LoopsShareFairQueue` that everything proved of arbitrary sequences of
scripts holds of it.  What a script does to reservations is one of three things: it drops some
(`ReservationsShrink`), puts one in the place of another of its tenant (`Swaps`: bind and renewal), or
adds one, which only a grant does, after a decision that found room.  That gives `CapacityRespected`; the
write of the reconciler has no decision before it, so the limits are claimed until its first pass
(`Decided`).  Of each action there remains `StepOK`, mostly about one process:

* `RowOK`: what a process holds at each place: a turn up to the rotate, an attempt from the acquire to
  its release, a delivery from the `basic.get`.
* `NothingHidden`: `NoHiddenMessage` is not inductive.  A scheduler that read depth 0 deactivates its tenant
  later, so the invariant must speak of it already (`Deactivates`: it saw an empty queue and the generation
  is still that of its turn): every message that waits is then announced.  An announcement (`Announced`) is
  weaker than `ActivationUnderway`: the dispatcher must have *marked this very delivery*, or a worker of the
  tenant must have put one back.  A dispatcher that has only published owes nothing yet, because its row is
  not dispatched.  An announcement ends with an activation, which moves the generation, so nobody
  `Deactivates` any more; that needs turns not to be ahead of the generation (`TurnsHeldNotAhead`).  Or the
  activation fails: then the tenant joins `lost.activations`, which the next activation of it empties,
  whoever makes it.  A failed `EnsureActive` of a tenant that is active all the same, and is deactivated by a
  scheduler that had seen its queue empty, is covered by this too.
* `Owned`: `NoReservationLeak` with the places at which a process owns a stable token (`Owns`), and that a
  process whose attempt is over for Redis has no provisional left (`AttemptSpent`), so that the ACK may
  forget its name, each up to the releases that failed (`lost.releases`).

`FairRecoveryProofs` proves every safety property of the recovery runs for any number of runtimes,
operators, tasks and tenants and for all bounds on faults: `RecoveryTypesHold`, `JournalGuardsReadyHolds`,
`ForceStaysResumable`, `NormalYields` and `ReadyMeansRebuilt`.  It assumes that runtimes and operators are
disjoint, that there are finitely many tasks and that `None` is no process and no token.  Nearly every step is of
one process and of one of two kinds: it goes to a place outside any operation (`GoesOutside`), or on
inside the one it owns (`GoesOn`).  The protocol is proved of these two kinds and then of the few steps that
are neither: the raw lock, the steps up to Begin, Begin, Finish and the writes of the journal.  None of
the properties is inductive; `RecoveryInv` adds what they lack:

* `ProtocolInv`.  `NormalYieldsToJournal` needs an argument about a *second* process: between a runtime's last
  look at the journal and its Begin, an operator can write the journal only while it starts under the MySQL
  fence, and then nobody else who holds the Redis lock is at a Begin or behind one (`PairOK`).  A process at
  its Begin that still holds the lock therefore finds the journal as it left it (`BeginOK`): without an
  unfinished operation for a runtime, with its own for an operator.
* What a process has read of the journal is never ahead of it (`RecordBehind`), which makes the compare and
  swap of a fenced-off operator harmless.  An operator at its Finish has committed (`RecordAt`), and one that
  completes the journal finished in Redis (`CompleteOK`).  From these follow `JournalGuardsReady` and
  `ForceIsResumable`.
* `RebuildInv`.  `ReadyIsRebuilt` speaks of a step whose script looks at marks only, so the invariant says of
  *each* place of a rebuild what its owner has restored so far (`Rebuilt`), and only of an owner whose fence
  still matches (`Owns`).  There is at most one, since two processes never have the same token, so nobody can
  undo it; a takeover begins at a place where nothing is claimed.  `HighWaterOK` carries what a takeover keeps:
  after the drain no publish is open, so a captured high water covers every message and every claim for the
  rest of the recovery.  A task that is claimed after the drain had no provisional any more and is `late`.
  Of the messages it covers `Waiting`: those nobody held, and nobody put back, since the last dispatched
  pass began.

`ConversationProofs` proves every safety property of a conversation for any number of messages, group
messages and readers, for any number of responses and any bounds on stops, failed saves, other replicas and
restarts: `ConversationTypesHold`, `SteeringIsKept`, `HistoryGrows` and `RequestsAreAccepted`.  It assumes
only what Conversation assumes of its constants.  The first three follow from
one inductive invariant (`ConversationInvariant`):

* `ControlInv`: whose the turn slot is, and that the inbox is empty once the turn has closed it and the
  loop's hand empty outside the fold.  A message can therefore not be accepted by a turn that will not
  look again, the race of `steer` with the end of the turn.
* `SteerInv`: an accepted message never becomes a turn, and has been appended once, is in the inbox, or is in
  the hand of the loop, just one of the three.
* `StoreInv`: of two lists under the same revision, that of the row and that of a session without a failed
  save, or one a `Get` has loaded, are the same list, and no list is ahead of the row.  That is why a save that
  passes the revision check extends the row, although `Get` installs what it loaded some steps ago.

`AnthropicAccepts` needs to know what is in *every* list at once.  `WireInv`: the row, the session, the request
and each list read by a `Get` has no call or result twice and no result before its call; the results the
loop still owes (`Owed`) are in none of them, those that `finishTurn` is padding (`Padded`) not in the
session.  `CallsInv`: every result is of a call in the same list, and the call of an owed one is in the
request and saved.  The code does not keep either while a `Get` outside the turn interferes: it may clear the
error of a failed save while the loop runs, or replace the list while `finishTurn` pads what the old one
missed.  Nothing in the code prevents that, so nothing in the model or in the theorem does: `AnthropicAccepts`
is stated of requests before such a `Get` (`~shadowed`), and the theorem is that these two windows are the
only ones.  The first leads to results without a call, the second to results twice, which the run `padding` shows.

Each action is put into a few kinds.  Its effect on row and session is one of those `StoreKinds` lists (an
append, a `Get` that loads or installs, a write of another replica, a restart, or none), its effect on accepted
messages `KeepsSteer`, `DrainsInbox`, `UsesSteer` or `RecordsOwn`; for calls and results most steps are a
`PlainStep`, which appends at most a message that is neither.

Only model-checked is liveness under fairness, which is outside what the prover handles: `EveryTaskEnds`,
`EveryRowEnds`, `EveryBatchEnds`, `ReadyUnlessLateInterruption`, `ForceUnlessLateInterruption`,
`EveryMessageSettles` and `ShutdownCompletes`.

## 5. Findings

Four sentences of the documentation and comments are not kept by the code; each has a run that ends in a
counterexample.

* `task_reenabled`: rows of a disabled user are not counted (`rag_task_claim.go:859`); made
  active before the leases expire they count again, above the limit.
* `recovery_rerun`: the design says that an interrupted recovery can be rerun from the start.
  A takeover keeps the pass marks, the rerun starts at cycle 1, and `MarkRecoveryPass` refuses
  a cycle below the recorded one (`redis.go:1208`).  After an interruption in the last pass,
  or after a convergence cycle that found a difference, every rerun is refused.  The same
  holds for `redis-force-rebuild`, for which the operations guide says that the command is
  rerun.  `recovery_live` shows that this is the only way in which the instances
  fail to reach READY.
* `wire`: after a restart between a tool call and its results, the next turn records its user
  message and its `finishTurn` pads the results behind it.  `findOrphanToolCalls` removes the call
  from later requests but only the replies that follow it without a gap (`openai.go:182`), although
  its comment promises to drop every reply to a removed call.  The Anthropic function searches the
  whole history and sends such a request in order.
* `padding`: `padOrphanToolResults` promises a made-up result only for a call that has none
  (`loop.go:2852-2855`), but looks for results in the list it read at its start (`loop.go:2863`).  The `Get`
  of a group message or a reader may install an older list before that, and a second `Get` the newer one
  before the padding is saved; two results of one call are then stored.

Further behaviour is in the models as the code has it, without a run of its own.  Fair queue:

* an activation that fails after a confirmed publish (`dispatcher.go:580`), or after a NACK
  (`runtime.go:904`), leaves a message ready under an inactive tenant until a pass of the reconciler; a
  release that fails leaves its reservation to its TTL (`scheduler.go:376`, `runtime.go:942`);
* a publish attempt that expires right after the confirm returns without activation
  (`dispatcher.go:528`); the next dispatch page publishes again;
* the stable pass reads rows before tokens (`recovery.go:1572`) and releases the token of a
  task claimed and bound in between; the worker's next renewal is refused;
* the stable pass may write the stable token between claim and bind; the bind then finds two
  tokens and reports corruption (`redis_runtime.go:608`), and the claim waits for its lease.
  For these four `scheduler_live` shows that the task still ends;
* the journal is completed after the recovery lock was released (`recovery_operators.go:601`).
  If Redis is lost in between and a second operator resumes, the journal becomes COMPLETED
  while Redis is in the operation.  `ForceIsResumable` is therefore checked without Redis
  losses.

Image generation:

* the last scheduled retry of a task is failed at its claim (`imagegen_claim.go:681`) and never run;
* when MySQL fails before the commit of a finish, `finishManifest` deletes the manifest, although the
  design (`2026-08-02-imagegen-batch-fair-queue-design.md:979`) lets the next claim salvage it;
* a stale worker whose finish is refused deletes the prefix of its claim (`imagegen_claim.go:866`),
  which a later claim may have salvaged and finished with.  `OwnArtifactsKept` therefore speaks of
  claims that finish with images of their own.

Conversation:

* a concurrent `Get` clears the persistence error of a failed save (`manager.go:326`); the loop goes
  on and may record results whose call is not in the history.  Neither provider function looks for
  them; `AnthropicAccepts` and `OpenAIAccepts` are stated of the requests before that;
* a stale reload that races an append makes the next save conflict with the process's own row;
* leftovers of a turn whose session failed are lost, although they are logged as saved;
* `cleanupIdleQueues` can leave a chat with two processors for a moment; the turn slot still
  serialises their turns.

Worker runtime:

* a task that ends while READY is taken away, or that reads the fence between a committed rebuild and the
  reopening of the gate (`runtime.go:1044`), has its release refused and leaves its reservation, if the rebuild
  wrote one, to the reconciler or its TTL; it is among the `excused`;
* a corrupt answer in the periodic `ReconcileReady` ends the recovery loop of a process
  (`recovery.go:197`); FairRecovery assumes that a supervisor restarts it.

## 6. Plan

Done: FairCoordinator, FairScheduler, FairTask, FairRecovery, ImageBatch and FairRuntime with their
proofs, TenantQueue and its refinement, Conversation and its proofs.  Next, in this order:

1. WRITER_REBIND and RABBIT_REPAIR in FairRecovery, and an abstract specification of the
   READY/RECOVERING state refined by it.
2. Compaction and the streaming loop in Conversation.
3. The small state machines: channel leases, inbox deduplication, message bus, cron.

### Not modelled

* HTTP handlers, CLI, configuration, metrics and logs: wiring without state that a property speaks of.
* The RAG pipeline, parsers, search, skills, tools and providers: what a task or a tool computes.
  The models see that it returns, fails or takes for ever.
* Most of `store/database.go`: one statement per method over tables no two actors race for; of it,
  the session row is modelled.
* The Rabbit client's connections and topology, channel adapters, MCP and sandbox processes: external
  systems, seen by the models through what their callers observe.
* The web front end and the evaluation tools.
