------------------------------ MODULE ImageBatch ------------------------------
(***************************************************************************)
(* Image generation batches, the second resource of the fair queue: the      *)
(* image_generation_batches and _tasks rows (internal/store imagegen.go,     *)
(* imagegen_claim.go, imagegen_repair.go), the worker that runs a claim      *)
(* (internal/imagegen fair_queue.go) and the artifacts it leaves in the      *)
(* workspace (artifacts.go).                                                 *)
(*                                                                         *)
(* Every transaction takes the resource's advisory lock, so it is one step.  *)
(* A worker's claim is many: salvage, generate, publish, finish, delete,     *)
(* with a heartbeat goroutine beside them.  A lease is live or expired, a    *)
(* next_run_at due or not.                                                   *)
(***************************************************************************)
EXTENDS Integers, FiniteSets

CONSTANTS
    Batches, Tasks,
    BatchOf,            \* [Tasks -> Batches]
    Users, UserOf,      \* [Batches -> Users]
    Slots, ProcOf,      \* worker slots, [Slots -> worker ids]
    None,
    GlobalConcurrency, PerUserBurstConcurrency,
    MaxRetry,
    ArtifactByteLimit,  \* of a batch; every task's images take one unit
    MaxGeneration,      \* bound on dispatch_generation (MaxInt64 in the code)
    MaxFaults           \* bound on failures, see Fault

ASSUME ImageAssumption ==
    /\ BatchOf \in [Tasks -> Batches] /\ UserOf \in [Batches -> Users]
    /\ \A b \in Batches : \E k \in Tasks : BatchOf[k] = b
    /\ IsFiniteSet(Tasks) /\ IsFiniteSet(Slots)
    /\ None \notin Tasks /\ None \notin {ProcOf[w] : w \in Slots}
    /\ GlobalConcurrency \in Nat \ {0} /\ PerUserBurstConcurrency \in Nat \ {0}
    /\ {MaxRetry, ArtifactByteLimit, MaxFaults} \subseteq Nat /\ MaxGeneration \in Nat \ {0}

VARIABLES
    task,       \* image_generation_tasks
    batch,      \* image_generation_batches
    objects,    \* complete claim prefixes in the workspace: <<task, claim generation>>
    queue,      \* deliveries that wait in Rabbit: <<task, dispatch generation>>
    pub,        \* the dispatcher: the candidate it has read
    slot,       \* worker slots
    faults

vars == <<task, batch, objects, queue, pub, slot, faults>>

Generations == 0..MaxGeneration
Message == Tasks \X Generations

Task == [status : {"NONE", "PENDING", "RUNNING", "DONE", "FAILED", "CANCELED"},
         dispatch : 0..MaxGeneration + 1, claim : Generations, dispatched : BOOLEAN,
         owner : {ProcOf[w] : w \in Slots} \cup {None},
         live : BOOLEAN,        \* lease_until > now
         due : BOOLEAN,         \* next_run_at IS NULL or <= now
         retry : 0..MaxRetry,
         manifest : Generations]  \* the claim whose manifest_key a DONE row holds

TerminalTask == {"DONE", "FAILED", "CANCELED"}
TerminalBatch == {"DONE", "PARTIAL", "FAILED", "CANCELED"}

NoTask == [status |-> "NONE", dispatch |-> 0, claim |-> 0, dispatched |-> FALSE,
           owner |-> None, live |-> FALSE, due |-> TRUE, retry |-> 0, manifest |-> 0]
PubIdle == [pc |-> "idle", task |-> None, row |-> NoTask]
SlotIdle == [pc |-> "idle", task |-> None, gen |-> 0, previous |-> 0, manifest |-> 0,
             beat |-> "extended"]

(* The shape of rows, batches, workers and queue; and no claim runs with its    *)
(* retry budget used up, which retries and claims check in two places.          *)
ImageTypeOK ==
    /\ task \in [Tasks -> Task]
    /\ batch \in [Batches ->
         [status : {"NONE", "PENDING", "RUNNING", "CANCELING"} \cup TerminalBatch,
          cancel : BOOLEAN, succeeded : Nat, failed : Nat, canceled : Nat]]
    /\ objects \subseteq Message /\ queue \subseteq Message
    /\ pub \in [pc : {"idle", "listed", "published"}, task : Tasks \cup {None}, row : Task]
    /\ slot \in [Slots ->
         [pc : {"idle", "held", "salvage", "generate", "publish", "finish", "delete"},
          task : Tasks \cup {None}, gen : Generations, previous : Generations,
          manifest : Generations, beat : {"extended", "canceled", "stale"}]]
    /\ faults \in 0..MaxFaults
    /\ \A k \in Tasks : task[k].status = "RUNNING" =>
         task[k].claim > 0 /\ (task[k].retry < MaxRetry \/ task[k].retry = 0)

Init ==
    /\ task = [k \in Tasks |-> NoTask]
    /\ batch = [b \in Batches |-> [status |-> "NONE", cancel |-> FALSE,
                                   succeeded |-> 0, failed |-> 0, canceled |-> 0]]
    /\ objects = {} /\ queue = {}
    /\ pub = PubIdle
    /\ slot = [w \in Slots |-> SlotIdle]
    /\ faults = 0

Fault == faults < MaxFaults /\ faults' = faults + 1

(***************************************************************************)
(* Batches.                                                                 *)
(***************************************************************************)
TasksOf(b) == {k \in Tasks : BatchOf[k] = b}
CountOf(b, rows, s) == Cardinality({k \in TasksOf(b) : rows[k].status = s})

\* computeImageBatchAggregate
AggregateStatus(b, rows, cancel) ==
    LET is(s) == \E k \in TasksOf(b) : rows[k].status = s
        all(S) == \A k \in TasksOf(b) : rows[k].status \in S IN
    CASE cancel -> IF is("RUNNING") THEN "CANCELING" ELSE "CANCELED"
      [] ~cancel /\ all({"DONE"}) -> "DONE"
      [] ~cancel /\ all(TerminalTask) /\ ~all({"DONE"}) ->
           IF is("DONE") THEN "PARTIAL" ELSE IF is("FAILED") THEN "FAILED" ELSE "CANCELED"
      [] OTHER -> IF all({"PENDING"}) THEN "PENDING" ELSE "RUNNING"

\* recomputeImageBatchOn, in the transaction that leaves the tasks as rows.
Recompute(b, rows, cancel) ==
    batch' = [batch EXCEPT ![b] =
                [status |-> AggregateStatus(b, rows, cancel), cancel |-> cancel,
                 succeeded |-> CountOf(b, rows, "DONE"), failed |-> CountOf(b, rows, "FAILED"),
                 canceled |-> CountOf(b, rows, "CANCELED")]]

Closed(r, s) == [r EXCEPT !.status = s, !.owner = None, !.live = FALSE, !.due = TRUE]
Rearmed(r) == [r EXCEPT !.dispatch = @ + 1, !.dispatched = FALSE]
Canceled(r) == Rearmed(Closed(r, "CANCELED"))

CreateImageGenerationBatch(b) ==
    /\ batch[b].status = "NONE"
    /\ task' = [k \in Tasks |-> IF k \in TasksOf(b)
                  THEN [NoTask EXCEPT !.status = "PENDING", !.dispatch = 1] ELSE task[k]]
    /\ batch' = [batch EXCEPT ![b].status = "PENDING"]
    /\ UNCHANGED <<objects, queue, pub, slot, faults>>

RequestImageBatchCancel(b) ==
    LET rows == [k \in Tasks |-> IF k \in TasksOf(b) /\ task[k].status = "PENDING"
                                   THEN Canceled(task[k]) ELSE task[k]] IN
    /\ batch[b].status \notin TerminalBatch \cup {"NONE"}
    /\ ~batch[b].cancel     \* a second request writes the same rows
    /\ task' = rows
    /\ Recompute(b, rows, TRUE)
    /\ UNCHANGED <<objects, queue, pub, slot, faults>>

(***************************************************************************)
(* Dispatcher, sweeper and repair.                                          *)
(***************************************************************************)
Cancelled(k) == batch[BatchOf[k]].cancel

\* imageTaskDuePredicate
Due(k) == task[k].due /\ (task[k].status = "PENDING" \/ ~task[k].live)

Dispatchable(k) ==
    /\ task[k].status \in {"PENDING", "RUNNING"}
    /\ task[k].dispatch > task[k].claim
    /\ ~task[k].dispatched /\ ~Cancelled(k) /\ Due(k)

ListDispatchable(k) ==
    /\ pub = PubIdle
    /\ Dispatchable(k)
    /\ pub' = [pc |-> "listed", task |-> k, row |-> task[k]]
    /\ UNCHANGED <<task, batch, objects, queue, slot, faults>>

Publish ==
    /\ pub.pc = "listed"
    /\ queue' = queue \cup {<<pub.task, pub.row.dispatch>>}
    /\ pub' = [pub EXCEPT !.pc = "published"]
    /\ UNCHANGED <<task, batch, objects, slot, faults>>

\* MarkImageTaskDispatched compares the whole candidate.
Mark ==
    /\ pub.pc = "published"
    /\ task' = IF task[pub.task] = pub.row /\ Dispatchable(pub.task)
                 THEN [task EXCEPT ![pub.task].dispatched = TRUE] ELSE task
    /\ pub' = PubIdle
    /\ UNCHANGED <<batch, objects, queue, slot, faults>>

DispatcherStops ==
    /\ pub # PubIdle
    /\ Fault
    /\ pub' = PubIdle
    /\ UNCHANGED <<task, batch, objects, queue, slot>>

\* Mutant: the sweeper arms expired tasks and leaves cancelled ones alone.
SweepWithoutCancel(k) ==
    /\ task[k].status = "RUNNING" /\ ~task[k].live
    /\ ~Cancelled(k)
    /\ task[k].dispatch = task[k].claim /\ task[k].claim < MaxGeneration
    /\ task' = [task EXCEPT ![k] = Rearmed(@)]
    /\ UNCHANGED <<batch, objects, queue, pub, slot, faults>>

\* SweepExpiredImageGenerationTasks, one task of the page.
SweepExpired(k) ==
    /\ task[k].status = "RUNNING" /\ ~task[k].live
    /\ \/ /\ Cancelled(k)
          /\ task' = [task EXCEPT ![k] = Canceled(@)]
          /\ Recompute(BatchOf[k], task', TRUE)
       \/ /\ ~Cancelled(k)
          /\ task[k].dispatch = task[k].claim /\ task[k].claim < MaxGeneration
          /\ task' = [task EXCEPT ![k] = Rearmed(@)]
          /\ UNCHANGED batch
    /\ UNCHANGED <<objects, queue, pub, slot, faults>>

\* RearmImageCandidateAfterBrokerLoss and RepairPoisonImageCandidate: the message
\* of a dispatched, unclaimed row is gone.
RearmUnclaimed(k) ==
    /\ task[k].status \in {"PENDING", "RUNNING"}
    /\ task[k].dispatch > task[k].claim /\ task[k].dispatch < MaxGeneration
    /\ task[k].dispatched /\ ~Cancelled(k) /\ Due(k)
    /\ Fault
    /\ task' = [task EXCEPT ![k] = Rearmed(@)]
    /\ queue' = queue \ {<<k, task[k].dispatch>>}
    /\ UNCHANGED <<batch, objects, pub, slot>>

(***************************************************************************)
(* Claim.                                                                   *)
(***************************************************************************)
TakeDelivery(w, m) ==
    /\ slot[w] = SlotIdle
    /\ m \in queue
    /\ queue' = queue \ {m}
    /\ slot' = [slot EXCEPT ![w] = [SlotIdle EXCEPT !.pc = "held", !.task = m[1], !.gen = m[2]]]
    /\ UNCHANGED <<task, batch, objects, pub, faults>>

Holding(w) == slot[w].pc = "held"
Idle(w) == slot' = [slot EXCEPT ![w] = SlotIdle]
Ack(w) == Idle(w) /\ UNCHANGED queue
NackRequeue(w) == Idle(w) /\ queue' = queue \cup {<<slot[w].task, slot[w].gen>>}

\* Mutant: the claim does not look at the batch.
ClaimableIgnoringBatch(w) ==
    LET k == slot[w].task IN
    /\ Holding(w)
    /\ task[k].dispatch = slot[w].gen /\ task[k].dispatch > task[k].claim
    /\ \/ task[k].status = "PENDING" /\ task[k].due
       \/ task[k].status = "RUNNING" /\ ~task[k].live

Claimable(w) ==
    LET k == slot[w].task IN
    /\ Holding(w)
    /\ task[k].dispatch = slot[w].gen /\ task[k].dispatch > task[k].claim
    /\ ~Cancelled(k) /\ batch[BatchOf[k]].status \notin TerminalBatch
    /\ \/ task[k].status = "PENDING" /\ task[k].due
       \/ task[k].status = "RUNNING" /\ ~task[k].live

\* Mutant: one claim too many.
ExhaustedLate(k) == task[k].retry > MaxRetry

Exhausted(k) == task[k].retry >= MaxRetry /\ task[k].retry > 0

Running == {k \in Tasks : task[k].status = "RUNNING" /\ task[k].live
                          /\ task[k].dispatch = task[k].claim}
RunningOf(u) == {k \in Running : UserOf[BatchOf[k]] = u}

\* Mutant: only the rows of the user are counted.
CapacityOfUser(k) == Cardinality(RunningOf(UserOf[BatchOf[k]])) < PerUserBurstConcurrency

CapacityAvailable(k) ==
    /\ Cardinality(Running) < GlobalConcurrency
    /\ Cardinality(RunningOf(UserOf[BatchOf[k]])) < PerUserBurstConcurrency

\* Duplicate, stale, cancelled, not due: acknowledged.
ClaimDuplicateStale(w) ==
    /\ Holding(w) /\ ~Claimable(w)
    /\ Ack(w)
    /\ UNCHANGED <<task, batch, objects, pub, faults>>

\* Mutant: the exhausted task is failed and its batch not recomputed.
ClaimExhaustedWithoutRecompute(w) ==
    /\ Claimable(w) /\ Exhausted(slot[w].task)
    /\ task' = [task EXCEPT ![slot[w].task] = Closed(@, "FAILED")]
    /\ Ack(w)
    /\ UNCHANGED <<batch, objects, pub, faults>>

ClaimExhausted(w) ==
    /\ Claimable(w) /\ Exhausted(slot[w].task)
    /\ task' = [task EXCEPT ![slot[w].task] = Closed(@, "FAILED")]
    /\ Recompute(BatchOf[slot[w].task], task', FALSE)
    /\ Ack(w)
    /\ UNCHANGED <<objects, pub, faults>>

ClaimCapacityDeferred(w) ==
    /\ Claimable(w) /\ ~Exhausted(slot[w].task) /\ ~CapacityAvailable(slot[w].task)
    /\ NackRequeue(w)
    /\ UNCHANGED <<task, batch, objects, pub, faults>>

ClaimWrite(w) ==
    LET k == slot[w].task IN
    /\ task' = [task EXCEPT ![k] =
                  [@ EXCEPT !.status = "RUNNING", !.claim = task[k].dispatch, !.owner = ProcOf[w],
                            !.live = TRUE, !.due = TRUE, !.dispatched = TRUE]]
    /\ batch' = [batch EXCEPT ![BatchOf[k]].status =
                   IF @ \in {"PENDING", "RUNNING"} THEN "RUNNING" ELSE @]

Claim(w) ==
    LET k == slot[w].task IN
    /\ Claimable(w) /\ ~Exhausted(k) /\ CapacityAvailable(k)
    /\ ClaimWrite(w)
    /\ slot' = [slot EXCEPT ![w].pc = "salvage", ![w].previous = task[k].claim]
    /\ UNCHANGED <<objects, queue, pub, faults>>

\* The commit's answer is lost: requeued, whether or not the claim stands.
ClaimCommitLost(w) ==
    /\ Claimable(w) /\ ~Exhausted(slot[w].task) /\ CapacityAvailable(slot[w].task)
    /\ Fault
    /\ ClaimWrite(w) \/ UNCHANGED <<task, batch>>
    /\ NackRequeue(w)
    /\ UNCHANGED <<objects, pub>>

(***************************************************************************)
(* The running claim.                                                       *)
(***************************************************************************)
Working(w) == slot[w].pc \in {"salvage", "generate", "publish", "finish"}

Publishing == {w \in Slots : slot[w].pc = "publish"}

\* withLiveImageGenerationFenceTx
LiveFence(w) ==
    LET r == task[slot[w].task] IN
    /\ r.status = "RUNNING" /\ r.claim = slot[w].gen /\ r.dispatch = r.claim
    /\ r.owner = ProcOf[w] /\ r.live

\* The goroutine's tick; an outcome other than extended ends it and is read by
\* checkHeartbeat after the step that is under way.  An extension leaves a live
\* lease live, so only the other outcomes are steps.
Heartbeat(w) ==
    /\ Working(w) /\ slot[w].pc # "finish" /\ slot[w].beat = "extended"
    /\ \/ LiveFence(w) /\ Cancelled(slot[w].task)
          /\ slot' = [slot EXCEPT ![w].beat = "canceled"]
       \/ ~LiveFence(w) /\ slot' = [slot EXCEPT ![w].beat = "stale"]
    /\ UNCHANGED <<task, batch, objects, queue, pub, faults>>

\* A fenced transaction that ends the task as r; refused, nothing changes.
FencedFinish(w, r) ==
    IF LiveFence(w)
      THEN /\ task' = [task EXCEPT ![slot[w].task] = r]
           /\ Recompute(BatchOf[slot[w].task], task', Cancelled(slot[w].task))
      ELSE UNCHANGED <<task, batch>>

\* A publish that is given up may have written its manifest, which comes last.
PerhapsPublished(w) ==
    objects' \in {objects} \cup
        {objects \cup {<<slot[v].task, slot[v].gen>>} : v \in {w} \cap Publishing}

\* checkHeartbeat found an outcome: a cancelled claim is finished as CANCELED.
StoppedByHeartbeat(w) ==
    /\ slot[w].pc \in {"salvage", "generate", "publish"} /\ slot[w].beat # "extended"
    /\ IF slot[w].beat = "canceled" THEN FencedFinish(w, Canceled(task[slot[w].task]))
                                    ELSE UNCHANGED <<task, batch>>
    /\ PerhapsPublished(w)
    /\ Ack(w)
    /\ UNCHANGED <<pub, faults>>

\* The step under way is done and checkHeartbeat found nothing.
StepDone(w, pc) == slot[w].pc = pc /\ slot[w].beat = "extended"

\* FinishImageGenerationTaskRetry: refused for a cancelled batch.
Retry(w) ==
    LET k == slot[w].task IN
    IF LiveFence(w) /\ ~Cancelled(k)
      THEN IF task[k].retry >= MaxRetry
             THEN FencedFinish(w, Closed(task[k], "FAILED"))
             ELSE /\ task[k].dispatch < MaxGeneration
                  /\ task' = [task EXCEPT ![k] =
                       [Rearmed(Closed(task[k], "PENDING")) EXCEPT !.due = FALSE, !.retry = @ + 1]]
                  /\ UNCHANGED batch
      ELSE UNCHANGED <<task, batch>>

Salvageable(w) ==
    slot[w].previous > 0 /\ <<slot[w].task, slot[w].previous>> \in objects

SalvageFound(w) ==
    /\ StepDone(w, "salvage") /\ Salvageable(w)
    /\ slot' = [slot EXCEPT ![w].pc = "finish", ![w].manifest = slot[w].previous]
    /\ UNCHANGED <<task, batch, objects, queue, pub, faults>>

SalvageNothing(w) ==
    /\ StepDone(w, "salvage") /\ ~Salvageable(w)
    /\ slot' = [slot EXCEPT ![w].pc = "generate"]
    /\ UNCHANGED <<task, batch, objects, queue, pub, faults>>

Generated(w) ==
    /\ StepDone(w, "generate")
    /\ slot' = [slot EXCEPT ![w].pc = "publish"]
    /\ UNCHANGED <<task, batch, objects, queue, pub, faults>>

\* Invalid request, safety, configuration, empty or incomplete result.
GenerateFailed(w) ==
    /\ StepDone(w, "generate")
    /\ FencedFinish(w, Closed(task[slot[w].task], "FAILED"))
    /\ Ack(w)
    /\ UNCHANGED <<objects, pub, faults>>

\* A transient failure of salvage, provider or publish.
RetryClaim(w) ==
    /\ slot[w].pc \in {"salvage", "generate", "publish"} /\ slot[w].beat = "extended"
    /\ Retry(w)
    /\ PerhapsPublished(w)
    /\ Ack(w)
    /\ UNCHANGED <<pub, faults>>

PublishArtifacts(w) ==
    /\ StepDone(w, "publish")
    /\ objects' = objects \cup {<<slot[w].task, slot[w].gen>>}
    /\ slot' = [slot EXCEPT ![w].pc = "finish", ![w].manifest = slot[w].gen]
    /\ UNCHANGED <<task, batch, queue, pub, faults>>

DoneRow(w) ==
    [Closed(task[slot[w].task], "DONE") EXCEPT !.manifest = slot[w].manifest]
LimitExceeded(w) ==
    CountOf(BatchOf[slot[w].task], task, "DONE") + 1 > ArtifactByteLimit

FinishDone(w) ==
    /\ slot[w].pc = "finish" /\ LiveFence(w) /\ ~LimitExceeded(w)
    /\ FencedFinish(w, DoneRow(w))
    /\ Ack(w)
    /\ UNCHANGED <<objects, pub, faults>>

\* The task is FAILED, or the fence is gone: the manifest's objects are deleted.
FinishRefused(w) ==
    /\ slot[w].pc = "finish" /\ (~LiveFence(w) \/ LimitExceeded(w))
    /\ FencedFinish(w, Closed(task[slot[w].task], "FAILED"))
    /\ slot' = [slot EXCEPT ![w].pc = "delete"]
    /\ UNCHANGED <<objects, queue, pub, faults>>

\* The lock or the connection fails before the commit: nothing changed either.
FinishUnavailable(w) ==
    /\ slot[w].pc = "finish"
    /\ Fault
    /\ slot' = [slot EXCEPT ![w].pc = "delete"]
    /\ UNCHANGED <<task, batch, objects, queue, pub>>

\* Mutant: the objects are deleted on any error.
FinishCommitLostDeleting(w) ==
    /\ slot[w].pc = "finish" /\ LiveFence(w) /\ ~LimitExceeded(w)
    /\ Fault
    /\ FencedFinish(w, DoneRow(w)) \/ UNCHANGED <<task, batch>>
    /\ slot' = [slot EXCEPT ![w].pc = "delete"]
    /\ UNCHANGED <<objects, queue, pub>>

\* The commit's answer is lost: the manifest stays for the next claim.
FinishCommitLost(w) ==
    /\ slot[w].pc = "finish" /\ LiveFence(w) /\ ~LimitExceeded(w)
    /\ Fault
    /\ FencedFinish(w, DoneRow(w)) \/ UNCHANGED <<task, batch>>
    /\ Ack(w)
    /\ UNCHANGED <<objects, pub>>

DeleteClaimArtifacts(w) ==
    /\ slot[w].pc = "delete"
    /\ objects' = objects \ {<<slot[w].task, slot[w].manifest>>}
    /\ Ack(w)
    /\ UNCHANGED <<task, batch, pub, faults>>

\* A process dies: an unacknowledged delivery returns, a claim keeps its lease.
SlotStops(w) ==
    /\ slot[w].pc # "idle"
    /\ Fault
    /\ IF Holding(w) THEN NackRequeue(w) ELSE Ack(w)
    /\ UNCHANGED <<task, batch, objects, pub>>

\* The heartbeat goroutine stops once the worker stops or saw an outcome.
Abandoned(k) == ~\E w \in Slots :
    Working(w) /\ slot[w].task = k /\ LiveFence(w) /\ slot[w].beat = "extended"

\* Late heartbeats of a working claim are a fault.
LeaseExpires(k) ==
    /\ task[k].live
    /\ IF Abandoned(k) THEN UNCHANGED faults ELSE Fault
    /\ task' = [task EXCEPT ![k].live = FALSE]
    /\ UNCHANGED <<batch, objects, queue, pub, slot>>

NextRunDue(k) ==
    /\ ~task[k].due
    /\ task' = [task EXCEPT ![k].due = TRUE]
    /\ UNCHANGED <<batch, objects, queue, pub, slot, faults>>

Prepare(w) ==
    ClaimDuplicateStale(w) \/ ClaimExhausted(w) \/ ClaimCapacityDeferred(w) \/ Claim(w)

RunClaim(w) ==
    \/ StoppedByHeartbeat(w) \/ SalvageFound(w) \/ SalvageNothing(w)
    \/ Generated(w) \/ GenerateFailed(w) \/ RetryClaim(w) \/ PublishArtifacts(w)
    \/ FinishDone(w) \/ FinishRefused(w) \/ DeleteClaimArtifacts(w)

Next ==
    \/ \E b \in Batches : CreateImageGenerationBatch(b) \/ RequestImageBatchCancel(b)
    \/ \E k \in Tasks :
         \/ ListDispatchable(k) \/ SweepExpired(k) \/ RearmUnclaimed(k)
         \/ LeaseExpires(k) \/ NextRunDue(k)
    \/ Publish \/ Mark \/ DispatcherStops
    \/ \E w \in Slots :
         \/ \E m \in Message : TakeDelivery(w, m)
         \/ Prepare(w) \/ ClaimCommitLost(w)
         \/ Heartbeat(w) \/ RunClaim(w)
         \/ FinishUnavailable(w) \/ FinishCommitLost(w) \/ SlotStops(w)

Spec == Init /\ [][Next]_vars

(***************************************************************************)
(* Fairness: the dispatcher, the sweeper and the broker go on, a claim's     *)
(* steps end, abandoned leases and retry delays run out.                     *)
(***************************************************************************)
Fairness ==
    /\ WF_vars(\E k \in Tasks : ListDispatchable(k))
    /\ WF_vars(Publish) /\ WF_vars(Mark)
    /\ WF_vars(\E k \in Tasks : SweepExpired(k))
    /\ WF_vars(\E k \in Tasks : (Abandoned(k) /\ LeaseExpires(k)) \/ NextRunDue(k))
    /\ WF_vars(\E w \in Slots, m \in Message : TakeDelivery(w, m))
    /\ \A w \in Slots : WF_vars(Prepare(w)) /\ WF_vars(RunClaim(w))

FairSpec == Spec /\ Fairness

(***************************************************************************)
(* Properties.                                                              *)
(***************************************************************************)
(* The counters of a batch are those of its tasks in every state, a batch is    *)
(* ended exactly when all its tasks are, and a cancelled one is CANCELING as    *)
(* long as a task runs: every transaction that ends a task recomputes its batch.*)
BatchAgrees ==
    \A b \in Batches : batch[b].status # "NONE" =>
        /\ batch[b].succeeded = CountOf(b, task, "DONE")
        /\ batch[b].failed = CountOf(b, task, "FAILED")
        /\ batch[b].canceled = CountOf(b, task, "CANCELED")
        /\ batch[b].status \in TerminalBatch
             <=> \A k \in TasksOf(b) : task[k].status \in TerminalTask
        /\ batch[b].cancel =>
             batch[b].status = (IF CountOf(b, task, "RUNNING") > 0 THEN "CANCELING"
                                                                   ELSE "CANCELED")

(* The limits hold of the RUNNING rows with a live lease in every state, not    *)
(* only when a claim counts them; and the images of a batch stay within its     *)
(* byte limit although its tasks finish in any order.                           *)
ImageLimitsHeld ==
    /\ Cardinality(Running) <= GlobalConcurrency
    /\ \A u \in Users : Cardinality(RunningOf(u)) <= PerUserBurstConcurrency
    /\ \A b \in Batches : CountOf(b, task, "DONE") <= ArtifactByteLimit

(* An ended task and an ended batch never change, whatever a late worker, a     *)
(* redelivery, the sweeper or a cancel request does; a batch whose cancellation *)
(* was requested starts nothing more.                                           *)
EndedIsFinal ==
    [][/\ \A k \in Tasks : task[k].status \in TerminalTask => task'[k] = task[k]
       /\ \A b \in Batches : batch[b].status \in TerminalBatch => batch'[b] = batch[b]
       /\ \A k \in Tasks : Cancelled(k) => task'[k].claim = task[k].claim]_vars

(* A task that finished with the images its own claim published has them: no    *)
(* worker that lost its fence deletes the prefix of a claim that finished.  (A   *)
(* prefix that a later claim salvaged is not protected: see the README.)        *)
OwnArtifactsKept ==
    \A k \in Tasks : task[k].status = "DONE" /\ task[k].manifest = task[k].claim =>
        <<k, task[k].manifest>> \in objects

(* Every batch ends, cancelled or not, through crashes, lost commits, redelivery *)
(* and expired leases.                                                          *)
EveryBatchEnds ==
    \A b \in Batches : []<>(batch[b].status \in {"NONE"} \cup TerminalBatch)
===============================================================================
