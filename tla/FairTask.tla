------------------------------- MODULE FairTask -------------------------------
(***************************************************************************)
(* The canonical MySQL side of the fair queue: rag_index_tasks rows, the     *)
(* documents and versions they build, and every transaction that moves them  *)
(* (internal/store rag_task_claim.go, rag_fair_queue_repair.go, _poison.go), *)
(* with the dispatcher that publishes rows and the worker slots that claim,  *)
(* renew, retry and finish them.                                             *)
(*                                                                         *)
(* A transaction is one step, except the two that run under the capacity     *)
(* advisory lock, claim and heartbeat: they are two steps, what they read    *)
(* and the commit, and everything that does not take the lock or the locked  *)
(* rows happens in between.  DB time is abstracted: a lease is live or has   *)
(* expired, a next_run_at is due or not, and either may change at any step.  *)
(***************************************************************************)
EXTENDS Integers, Sequences, FiniteSets

CONSTANTS
    Tasks, Docs, Users,
    Slots,              \* worker slots
    DocOf,              \* [Tasks -> Docs]
    UserOf,             \* [Docs -> Users], the owner of the document's KB
    ProcOf,             \* [Slots -> owner ids]: slots of a process share its worker id
    None,
    GlobalConcurrency, PerUserBurstConcurrency,
    MaxRetry,
    MaxGeneration,      \* bound on dispatch_generation (MaxInt64 in the code)
    MaxCopies,          \* bound on copies of one delivery
    Bounds              \* what the runs bound; a behaviour has one of these records:
                        \*   tasks      the tasks that are ever created
                        \*   faults     crashes, lost commits, deferrals, poison
                        \*   reenables  disabled users made active again

ASSUME TaskAssumption ==
    /\ DocOf \in [Tasks -> Docs] /\ UserOf \in [Docs -> Users]
    /\ None \notin Tasks /\ None \notin Slots /\ None \notin {ProcOf[w] : w \in Slots}
    /\ IsFiniteSet(Tasks) /\ IsFiniteSet(Slots)
    /\ GlobalConcurrency \in Nat \ {0} /\ PerUserBurstConcurrency \in Nat \ {0}
    /\ None \notin Tasks \X Nat
    /\ MaxRetry \in Nat /\ MaxGeneration \in Nat \ {0} /\ MaxCopies \in Nat \ {0}
    /\ Bounds \subseteq [tasks : SUBSET Tasks, faults : Nat, reenables : Nat]

VARIABLES
    row,        \* rag_index_tasks
    doc,        \* rag_documents: version, active_version, status
    versions,   \* rag_document_versions: status of versions 1, 2, ... of a document
    enabled,    \* users with status 'active'
    queue,      \* ready copies of each delivery
    pub,        \* the dispatcher: the candidate it has read
    slot,       \* worker slots
    capLock,    \* holder of the capacity advisory lock
    faults      \* counters, and the bounds of this behaviour

vars == <<row, doc, versions, enabled, queue, pub, slot, capLock, faults>>

Message == Tasks \X (1..MaxGeneration)

Row == [status : {"NONE", "PENDING", "RUNNING", "DONE", "FAILED", "SUPERSEDED"},
        version : Nat, dispatch : 0..MaxGeneration, claim : 0..MaxGeneration,
        dispatched : BOOLEAN,           \* dispatched_at IS NOT NULL
        owner : {ProcOf[w] : w \in Slots} \cup {None},
        live : BOOLEAN,                 \* lease_until > now
        due : BOOLEAN,                  \* next_run_at IS NULL or <= now
        retry : 0..MaxRetry]

VersionStatus == {"PENDING", "RUNNING", "DONE", "FAILED", "SUPERSEDED", "RETIRED"}

\* IndexFence of a claim.
Fence == [task : Tasks, version : Nat, claim : 1..MaxGeneration]

NoRow == [status |-> "NONE", version |-> 0, dispatch |-> 0, claim |-> 0,
          dispatched |-> FALSE, owner |-> None, live |-> FALSE, due |-> TRUE, retry |-> 0]
PubIdle == [pc |-> "idle", task |-> None, row |-> NoRow]
SlotIdle == [pc |-> "idle", msg |-> None, fence |-> None]

TaskTypeOK ==
    /\ row \in [Tasks -> Row]
    /\ doc \in [Docs -> [version : Nat, active : Nat,
                         status : {"PENDING", "PROCESSING", "DONE", "FAILED"}]]
    /\ versions \in [Docs -> Seq(VersionStatus)]
    /\ enabled \in SUBSET Users
    /\ queue \in [Message -> 0..MaxCopies]
    /\ pub \in [pc : {"idle", "listed", "published"}, task : Tasks \cup {None}, row : Row]
    /\ slot \in [Slots -> [pc : {"idle", "held", "claiming", "running", "beating"},
                           msg : Message \cup {None}, fence : Fence \cup {None}]]
    /\ capLock \in Slots \cup {None}
    /\ faults.bound \in Bounds
    /\ \A c \in {"faults", "reenables"} : faults[c] \in 0..faults.bound[c]

Init ==
    /\ row = [k \in Tasks |-> NoRow]
    /\ doc = [d \in Docs |-> [version |-> 0, active |-> 0, status |-> "PENDING"]]
    /\ versions = [d \in Docs |-> <<>>]
    /\ enabled = Users
    /\ queue = [m \in Message |-> 0]
    /\ pub = PubIdle
    /\ slot = [w \in Slots |-> SlotIdle]
    /\ capLock = None
    /\ faults \in [faults : {0}, reenables : {0}, bound : Bounds]

(***************************************************************************)
(* Helpers.                                                                 *)
(***************************************************************************)
Runnable(k) == row[k].status \in {"PENDING", "RUNNING"}

\* ragTaskDue
Due(k) ==
    /\ Runnable(k)
    /\ row[k].due
    /\ row[k].status = "RUNNING" => ~row[k].live

\* The row of a claim or heartbeat in progress is locked until it commits.
LockedDoc(d) ==
    \E w \in Slots :
        \/ slot[w].pc = "claiming" /\ DocOf[slot[w].msg[1]] = d
        \/ slot[w].pc = "beating" /\ DocOf[slot[w].fence.task] = d

\* Valid RUNNING rows: what ragFairQueueCapacityAvailableInTx counts.
Valid(k) ==
    LET d == DocOf[k] IN
    /\ row[k].status = "RUNNING"
    /\ row[k].dispatch = row[k].claim
    /\ row[k].owner # None /\ row[k].live /\ row[k].due
    /\ versions[d][row[k].version] = "RUNNING"
    /\ doc[d].version = row[k].version
    /\ doc[d].status = "PROCESSING"
    /\ UserOf[d] \in enabled

ValidRunning == {k \in Tasks : Valid(k)}
ValidRunningOf(u) == {k \in ValidRunning : UserOf[DocOf[k]] = u}

\* Mutant: the limits are tested with > instead of >=.
CapacityOffByOne(k) ==
    /\ Cardinality(ValidRunning) <= GlobalConcurrency
    /\ Cardinality(ValidRunningOf(UserOf[DocOf[k]])) <= PerUserBurstConcurrency

CapacityAvailable(k) ==
    /\ Cardinality(ValidRunning) < GlobalConcurrency
    /\ Cardinality(ValidRunningOf(UserOf[DocOf[k]])) < PerUserBurstConcurrency

Fault ==
    /\ faults.faults < faults.bound.faults
    /\ faults' = [faults EXCEPT !.faults = @ + 1]

\* Copies of a delivery: ready, or unacknowledged in a slot.
Held(m) == {w \in Slots : slot[w].pc \in {"held", "claiming"} /\ slot[w].msg = m}
Copies(m) == queue[m] + Cardinality(Held(m))

Ack(w) == UNCHANGED queue
NackRequeue(w) == queue' = [queue EXCEPT ![slot[w].msg] = @ + 1]
Idle(w) == slot' = [slot EXCEPT ![w] = SlotIdle]

\* dispatch_generation moves past both generations, the marker is cleared.
Rearmed(r) == [r EXCEPT !.dispatch = @ + 1, !.dispatched = FALSE]

(***************************************************************************)
(* Documents and users.                                                     *)
(***************************************************************************)
\* supersedeRunnableRAGTasksInTx: owner and lease stay for the tombstone.
Superseded(d) ==
    [k \in Tasks |-> IF DocOf[k] = d /\ Runnable(k)
                       THEN [row[k] EXCEPT !.status = "SUPERSEDED", !.due = TRUE] ELSE row[k]]
SupersededVersions(d) ==
    [v \in 1..Len(versions[d]) |->
        IF versions[d][v] \in {"PENDING", "RUNNING"}
           /\ \E k \in Tasks : DocOf[k] = d /\ Runnable(k) /\ row[k].version = v
          THEN "SUPERSEDED" ELSE versions[d][v]]

NextVersion(d) == Len(versions[d]) + 1

\* createRAGIndexTaskForVersion
NewRow(v) == [NoRow EXCEPT !.status = "PENDING", !.version = v, !.dispatch = 1]

AdvanceDocumentVersionAndCreateTask(k) ==
    LET d == DocOf[k] IN
    /\ row[k].status = "NONE" /\ k \in faults.bound.tasks
    /\ UserOf[d] \in enabled
    /\ ~LockedDoc(d)
    /\ row' = [Superseded(d) EXCEPT ![k] = NewRow(NextVersion(d))]
    /\ versions' = [versions EXCEPT ![d] = Append(SupersededVersions(d), "PENDING")]
    /\ doc' = [doc EXCEPT ![d].version = NextVersion(d), ![d].status = "PENDING"]
    /\ UNCHANGED <<enabled, queue, pub, slot, capLock, faults>>

\* UpdateUser: nothing is done to the user's tasks.
DisableUser(u) ==
    /\ u \in enabled
    /\ ~\E d \in Docs : UserOf[d] = u /\ LockedDoc(d)
    /\ enabled' = enabled \ {u}
    /\ UNCHANGED <<row, doc, versions, queue, pub, slot, capLock, faults>>

EnableUser(u) ==
    /\ u \notin enabled
    /\ faults.reenables < faults.bound.reenables
    /\ faults' = [faults EXCEPT !.reenables = @ + 1]
    /\ enabled' = enabled \cup {u}
    /\ UNCHANGED <<row, doc, versions, queue, pub, slot, capLock>>

(***************************************************************************)
(* Dispatcher and sweepers.                                                 *)
(***************************************************************************)
Dispatchable(k) ==
    /\ Due(k)
    /\ ~row[k].dispatched
    /\ row[k].dispatch > row[k].claim

ListDispatchable(k) ==
    /\ pub = PubIdle
    /\ Dispatchable(k)
    /\ pub' = [pc |-> "listed", task |-> k, row |-> row[k]]
    /\ UNCHANGED <<row, doc, versions, enabled, queue, slot, capLock, faults>>

\* The candidate may be stale by now.
Publish ==
    LET m == <<pub.task, pub.row.dispatch>> IN
    /\ pub.pc = "listed"
    /\ IF Copies(m) < MaxCopies THEN queue' = [queue EXCEPT ![m] = @ + 1] ELSE UNCHANGED queue
    /\ pub' = [pub EXCEPT !.pc = "published"]
    /\ UNCHANGED <<row, doc, versions, enabled, slot, capLock, faults>>

\* Mutant: the mark looks up the task but does not compare the candidate.
MarkWithoutGuard ==
    LET k == pub.task IN
    /\ pub.pc = "published"
    /\ ~LockedDoc(DocOf[k])
    /\ row' = IF Dispatchable(k) THEN [row EXCEPT ![k].dispatched = TRUE] ELSE row
    /\ pub' = PubIdle
    /\ UNCHANGED <<doc, versions, enabled, queue, slot, capLock, faults>>

\* MarkRAGIndexTaskDispatched: compare the whole candidate, and set.
Mark ==
    LET k == pub.task IN
    /\ pub.pc = "published"
    /\ ~LockedDoc(DocOf[k])
    /\ row' = IF row[k] = pub.row /\ Dispatchable(k)
                THEN [row EXCEPT ![k].dispatched = TRUE] ELSE row
    /\ pub' = PubIdle
    /\ UNCHANGED <<doc, versions, enabled, queue, slot, capLock, faults>>

\* The dispatcher dies, or its publish attempt times out after the confirm.
DispatcherStops ==
    /\ pub # PubIdle
    /\ Fault
    /\ pub' = PubIdle
    /\ UNCHANGED <<row, doc, versions, enabled, queue, slot, capLock>>

\* Mutant: the sweeper clears the marker and keeps the generation.
ArmKeepingGeneration(k) ==
    /\ row[k].status = "RUNNING" /\ Due(k) /\ row[k].dispatch = row[k].claim
    /\ row[k].dispatch < MaxGeneration
    /\ ~LockedDoc(DocOf[k])
    /\ row' = [row EXCEPT ![k].dispatched = FALSE]
    /\ UNCHANGED <<doc, versions, enabled, queue, pub, slot, capLock, faults>>

ArmExpired(k) ==
    /\ row[k].status = "RUNNING" /\ Due(k) /\ row[k].dispatch = row[k].claim
    /\ row[k].dispatch < MaxGeneration
    /\ ~LockedDoc(DocOf[k])
    /\ row' = [row EXCEPT ![k] = Rearmed(@)]
    /\ UNCHANGED <<doc, versions, enabled, queue, pub, slot, capLock, faults>>

\* rearmRAGPoisonCandidateOn, also the broker-loss repair: due and unclaimed.
RearmUnclaimed(k) ==
    /\ Due(k) /\ row[k].dispatch > row[k].claim
    /\ row[k].dispatch < MaxGeneration
    /\ ~LockedDoc(DocOf[k])
    /\ Fault
    /\ row' = [row EXCEPT ![k] = Rearmed(@)]
    /\ UNCHANGED <<doc, versions, enabled, queue, pub, slot, capLock>>

(***************************************************************************)
(* Claim.                                                                   *)
(***************************************************************************)
TakeDelivery(w, m) ==
    /\ slot[w].pc = "idle"
    /\ queue[m] > 0
    /\ queue' = [queue EXCEPT ![m] = @ - 1]
    /\ slot' = [slot EXCEPT ![w] = [SlotIdle EXCEPT !.pc = "held", !.msg = m]]
    /\ UNCHANGED <<row, doc, versions, enabled, pub, capLock, faults>>

\* Every claim starts under the capacity lock.
Claiming(w) == slot[w].pc = "held" /\ capLock = None

\* Mutant: a delivery is compared with the row's dispatch generation only.
MatchesClaimed(m) == Due(m[1]) /\ row[m[1]].dispatch = m[2]

Matches(m) ==
    /\ Due(m[1])
    /\ row[m[1]].dispatch = m[2]
    /\ row[m[1]].dispatch > row[m[1]].claim

ClaimDuplicateStale(w) ==
    /\ Claiming(w)
    /\ ~Matches(slot[w].msg)
    /\ Ack(w) /\ Idle(w)
    /\ UNCHANGED <<row, doc, versions, enabled, pub, capLock, faults>>

\* Policy synchronisation, or the claim failed before it decided anything.
ClaimDeferred(w) ==
    /\ Claiming(w)
    /\ Fault
    /\ NackRequeue(w) /\ Idle(w)
    /\ UNCHANGED <<row, doc, versions, enabled, pub, capLock>>

\* Document maintenance: a new generation, later.
ClaimMaintenance(w) ==
    LET k == slot[w].msg[1] IN
    /\ Claiming(w)
    /\ Matches(slot[w].msg)
    /\ row[k].dispatch < MaxGeneration
    /\ Fault
    /\ row' = [row EXCEPT ![k] = [Rearmed(@) EXCEPT !.due = FALSE]]
    /\ Ack(w) /\ Idle(w)
    /\ UNCHANGED <<doc, versions, enabled, pub, capLock>>

ClaimInactiveOwner(w) ==
    LET d == DocOf[slot[w].msg[1]] IN
    /\ Claiming(w)
    /\ Matches(slot[w].msg)
    /\ UserOf[d] \notin enabled
    /\ row' = Superseded(d)
    /\ versions' = [versions EXCEPT ![d] = SupersededVersions(d)]
    /\ Ack(w) /\ Idle(w)
    /\ UNCHANGED <<doc, enabled, pub, capLock, faults>>

\* What is left to decide after ownership: capacity, then the retry budget.
Eligible(w) ==
    /\ Claiming(w)
    /\ Matches(slot[w].msg)
    /\ UserOf[DocOf[slot[w].msg[1]]] \in enabled

ClaimCapacityDeferred(w) ==
    /\ Eligible(w)
    /\ ~CapacityAvailable(slot[w].msg[1])
    /\ NackRequeue(w) /\ Idle(w)
    /\ UNCHANGED <<row, doc, versions, enabled, pub, capLock, faults>>

\* Mutant: one retry too many.
ExhaustedLate(k) == row[k].status = "RUNNING" /\ row[k].retry > MaxRetry

Exhausted(k) == row[k].status = "RUNNING" /\ row[k].retry >= MaxRetry

\* failInvalidRAGTaskInTx
ClaimExhausted(w) ==
    LET k == slot[w].msg[1]  d == DocOf[k] IN
    /\ Eligible(w)
    /\ CapacityAvailable(k)
    /\ Exhausted(k)
    /\ row' = [row EXCEPT ![k].status = "FAILED", ![k].owner = None, ![k].live = FALSE]
    /\ versions' = [versions EXCEPT ![d][row[k].version] = "FAILED"]
    /\ doc' = [doc EXCEPT ![d].status = "FAILED"]
    /\ Ack(w) /\ Idle(w)
    /\ UNCHANGED <<enabled, pub, capLock, faults>>

\* Mutant: the claim does not keep the capacity lock.
ClaimBeginWithoutLock(w) ==
    /\ Eligible(w)
    /\ CapacityAvailable(slot[w].msg[1])
    /\ ~Exhausted(slot[w].msg[1])
    /\ slot' = [slot EXCEPT ![w].pc = "claiming"]
    /\ UNCHANGED <<row, doc, versions, enabled, queue, pub, faults, capLock>>

ClaimBegin(w) ==
    /\ Eligible(w)
    /\ CapacityAvailable(slot[w].msg[1])
    /\ ~Exhausted(slot[w].msg[1])
    /\ slot' = [slot EXCEPT ![w].pc = "claiming"]
    /\ capLock' = w
    /\ UNCHANGED <<row, doc, versions, enabled, queue, pub, faults>>

\* Anything but a first attempt builds a fresh version.
Fresh(k) == row[k].status = "RUNNING" \/ versions[DocOf[k]][row[k].version] = "FAILED"
ClaimedVersion(k) == IF Fresh(k) THEN NextVersion(DocOf[k]) ELSE row[k].version

ClaimWrite(w) ==
    LET m == slot[w].msg  k == m[1]  d == DocOf[k]  v == row[k].version IN
    /\ row' = [row EXCEPT ![k] =
                 [@ EXCEPT !.status = "RUNNING", !.version = ClaimedVersion(k),
                           !.claim = m[2], !.dispatched = TRUE, !.owner = ProcOf[w],
                           !.live = TRUE,
                           !.retry = row[k].retry + (IF row[k].status = "RUNNING" THEN 1 ELSE 0)]]
    /\ versions' = [versions EXCEPT ![d] =
                      IF Fresh(k)
                        THEN Append([@ EXCEPT ![v] =
                               IF row[k].status = "RUNNING" THEN "SUPERSEDED" ELSE "FAILED"],
                               "RUNNING")
                        ELSE [@ EXCEPT ![v] = "RUNNING"]]
    /\ doc' = [doc EXCEPT ![d].version = ClaimedVersion(k), ![d].status = "PROCESSING"]

FenceOf(w) ==
    [task |-> slot[w].msg[1], version |-> ClaimedVersion(slot[w].msg[1]),
     claim |-> slot[w].msg[2]]

\* An acknowledgement that is lost leaves a duplicate behind.
ClaimCommit(w) ==
    /\ slot[w].pc = "claiming"
    /\ ClaimWrite(w)
    /\ slot' = [slot EXCEPT ![w] = [pc |-> "running", msg |-> None, fence |-> FenceOf(w)]]
    /\ capLock' = None
    /\ \/ Ack(w) /\ UNCHANGED faults
       \/ NackRequeue(w) /\ Fault
    /\ UNCHANGED <<enabled, pub>>

\* The connection fails at the commit, which may or may not have happened: the
\* delivery is requeued and nobody runs the claim.
ClaimCommitLost(w) ==
    /\ slot[w].pc = "claiming"
    /\ Fault
    /\ ClaimWrite(w) \/ UNCHANGED <<row, versions, doc>>
    /\ NackRequeue(w) /\ Idle(w)
    /\ capLock' = None
    /\ UNCHANGED <<enabled, pub>>

(***************************************************************************)
(* Running claims.                                                          *)
(***************************************************************************)
\* Mutant: the fence does not compare the claim generation.
LiveFenceByOwner(w) ==
    LET f == slot[w].fence  k == f.task  d == DocOf[k] IN
    /\ row[k].status = "RUNNING" /\ row[k].dispatch = row[k].claim /\ row[k].live
    /\ row[k].owner = ProcOf[w]
    /\ UserOf[d] \in enabled

\* lockRAGIndexFence
LiveFence(w) ==
    LET f == slot[w].fence  k == f.task  d == DocOf[k] IN
    /\ row[k].status = "RUNNING" /\ row[k].dispatch = row[k].claim /\ row[k].live
    /\ row[k].owner = ProcOf[w] /\ row[k].claim = f.claim /\ row[k].version = f.version
    /\ versions[d][f.version] = "RUNNING"
    /\ doc[d].version = f.version /\ doc[d].status = "PROCESSING"
    /\ UserOf[d] \in enabled

\* heartbeatRAGIndexTaskFair: the guarded update, then the commit.
HeartbeatBegin(w) ==
    /\ slot[w].pc = "running"
    /\ capLock = None
    /\ LiveFence(w)
    /\ slot' = [slot EXCEPT ![w].pc = "beating"]
    /\ capLock' = w
    /\ UNCHANGED <<row, doc, versions, enabled, queue, pub, faults>>

HeartbeatCommit(w) ==
    /\ slot[w].pc = "beating"
    /\ row' = [row EXCEPT ![slot[w].fence.task].live = TRUE]
    /\ slot' = [slot EXCEPT ![w].pc = "running"]
    /\ capLock' = None
    /\ UNCHANGED <<doc, versions, enabled, queue, pub, faults>>

FenceTx(w) ==
    /\ slot[w].pc = "running"
    /\ LiveFence(w)
    /\ ~LockedDoc(DocOf[slot[w].fence.task])

Closed(r) == [r EXCEPT !.owner = None, !.live = FALSE]

\* Mutant: the activation of a finished build is not fenced.
ActivateUnfenced(w) ==
    LET f == slot[w].fence  d == DocOf[f.task]  old == doc[d].active IN
    /\ slot[w].pc = "running"
    /\ ~LockedDoc(d)
    /\ row' = [row EXCEPT ![f.task] = [Closed(@) EXCEPT !.status = "DONE"]]
    /\ versions' = [versions EXCEPT ![d] =
                      [v \in DOMAIN @ |-> CASE v = f.version -> "DONE"
                                            [] v = old -> "RETIRED"
                                            [] OTHER -> @[v]]]
    /\ doc' = [doc EXCEPT ![d].active = f.version, ![d].status = "DONE"]
    /\ Idle(w)
    /\ UNCHANGED <<enabled, queue, pub, capLock, faults>>

\* The previous active version must be DONE, or nothing is committed.
ActivateAndFinish(w) ==
    LET f == slot[w].fence  d == DocOf[f.task]  old == doc[d].active IN
    /\ FenceTx(w)
    /\ old # 0 => versions[d][old] = "DONE"
    /\ row' = [row EXCEPT ![f.task] = [Closed(@) EXCEPT !.status = "DONE"]]
    /\ versions' = [versions EXCEPT ![d] =
                      [v \in DOMAIN @ |-> CASE v = f.version -> "DONE"
                                            [] v = old -> "RETIRED"
                                            [] OTHER -> @[v]]]
    /\ doc' = [doc EXCEPT ![d].active = f.version, ![d].status = "DONE"]
    /\ Idle(w)
    /\ UNCHANGED <<enabled, queue, pub, capLock, faults>>

\* RetryRAGIndexTask with budget left: PENDING again, later, new generation.
Retry(w) ==
    LET f == slot[w].fence  d == DocOf[f.task] IN
    /\ FenceTx(w)
    /\ row[f.task].retry < MaxRetry
    /\ row[f.task].dispatch < MaxGeneration
    /\ row' = [row EXCEPT ![f.task] =
                 [Rearmed(Closed(@)) EXCEPT !.status = "PENDING", !.due = FALSE,
                                            !.retry = row[f.task].retry + 1]]
    /\ versions' = [versions EXCEPT ![d][f.version] = "FAILED"]
    /\ doc' = [doc EXCEPT ![d].status = "PENDING"]
    /\ Idle(w)
    /\ UNCHANGED <<enabled, queue, pub, capLock, faults>>

\* FailRAGIndexTask, or a retry without budget.
Fail(w) ==
    LET f == slot[w].fence  d == DocOf[f.task] IN
    /\ FenceTx(w)
    /\ row' = [row EXCEPT ![f.task] = [Closed(@) EXCEPT !.status = "FAILED"]]
    /\ versions' = [versions EXCEPT ![d][f.version] = "FAILED"]
    /\ doc' = [doc EXCEPT ![d].status = "FAILED"]
    /\ Idle(w)
    /\ UNCHANGED <<enabled, queue, pub, capLock, faults>>

\* The provider snapshot of a running claim has changed: its worker replaces the
\* claim by a new task for a new version.
SupersedeRAGIndexTaskAndCreateVersion(w, k) ==
    LET f == slot[w].fence  d == DocOf[f.task] IN
    /\ FenceTx(w)
    /\ DocOf[k] = d /\ row[k].status = "NONE" /\ k \in faults.bound.tasks
    /\ row' = [row EXCEPT ![f.task] = [Closed(@) EXCEPT !.status = "SUPERSEDED"],
                          ![k] = NewRow(NextVersion(d))]
    /\ versions' = [versions EXCEPT ![d] =
                      Append([@ EXCEPT ![f.version] = "SUPERSEDED"], "PENDING")]
    /\ doc' = [doc EXCEPT ![d].version = NextVersion(d), ![d].status = "PENDING"]
    /\ Idle(w)
    /\ UNCHANGED <<enabled, queue, pub, capLock, faults>>

\* A worker that finds its fence gone stops, and acknowledges a supersession of
\* its own claim.
Quiesce(w) ==
    LET f == slot[w].fence  r == row[f.task] IN
    /\ slot[w].pc = "running"
    /\ ~LiveFence(w)
    /\ row' = IF r.status = "SUPERSEDED" /\ r.claim = f.claim /\ r.dispatch = r.claim
                 /\ r.owner = ProcOf[w] /\ r.version = f.version
                THEN [row EXCEPT ![f.task] = Closed(@)] ELSE row
    /\ Idle(w)
    /\ UNCHANGED <<doc, versions, enabled, queue, pub, capLock, faults>>

\* The process dies, or gives the claim up: an unacknowledged delivery returns,
\* an open transaction is rolled back and its lock is freed.
SlotStops(w) ==
    /\ slot[w].pc # "idle"
    /\ Fault
    /\ IF slot[w].msg # None THEN NackRequeue(w) ELSE UNCHANGED queue
    /\ Idle(w)
    /\ capLock' = IF capLock = w THEN None ELSE capLock
    /\ UNCHANGED <<row, doc, versions, enabled, pub>>

LeaseExpires(k) ==
    /\ row[k].live
    /\ row' = [row EXCEPT ![k].live = FALSE]
    /\ UNCHANGED <<doc, versions, enabled, queue, pub, slot, capLock, faults>>

NextRunDue(k) ==
    /\ ~row[k].due
    /\ row' = [row EXCEPT ![k].due = TRUE]
    /\ UNCHANGED <<doc, versions, enabled, queue, pub, slot, capLock, faults>>

Claim(w) ==
    \/ ClaimDuplicateStale(w) \/ ClaimInactiveOwner(w) \/ ClaimCapacityDeferred(w)
    \/ ClaimExhausted(w) \/ ClaimBegin(w)

Finish(w) == ActivateAndFinish(w) \/ Fail(w) \/ Quiesce(w)

Next ==
    \/ \E k \in Tasks :
         \/ AdvanceDocumentVersionAndCreateTask(k) \/ ListDispatchable(k)
         \/ ArmExpired(k) \/ RearmUnclaimed(k) \/ LeaseExpires(k) \/ NextRunDue(k)
    \/ \E u \in Users : DisableUser(u) \/ EnableUser(u)
    \/ Publish \/ Mark \/ DispatcherStops
    \/ \E w \in Slots :
         \/ \E m \in Message : TakeDelivery(w, m)
         \/ Claim(w) \/ ClaimDeferred(w) \/ ClaimMaintenance(w)
         \/ ClaimCommit(w) \/ ClaimCommitLost(w)
         \/ HeartbeatBegin(w) \/ HeartbeatCommit(w)
         \/ Finish(w) \/ Retry(w) \/ SlotStops(w)
         \/ \E k \in Tasks : SupersedeRAGIndexTaskAndCreateVersion(w, k)

Spec == Init /\ [][Next]_vars

\* Nobody can renew the lease any more.
Abandoned(k) == ~\E w \in Slots :
    slot[w].pc \in {"running", "beating"} /\ slot[w].fence.task = k /\ LiveFence(w)

(***************************************************************************)
(* Fairness.  The dispatcher and the sweepers come round again and find some *)
(* row there is to find, the broker serves some ready delivery; a wait for   *)
(* the advisory lock or a row lock ends; transactions commit; a running      *)
(* claim ends by itself; abandoned leases and retry delays run out.  Nothing *)
(* is assumed of faults, users, heartbeats, retries or of the order in which *)
(* rows and deliveries are served.                                           *)
(***************************************************************************)
Fairness ==
    /\ WF_vars(\E k \in Tasks : ListDispatchable(k))
    /\ WF_vars(Publish) /\ WF_vars(Mark)
    /\ WF_vars(\E k \in Tasks : ArmExpired(k))
    /\ WF_vars(\E k \in Tasks : (Abandoned(k) /\ LeaseExpires(k)) \/ NextRunDue(k))
    /\ WF_vars(\E w \in Slots, m \in Message : TakeDelivery(w, m))
    /\ \A w \in Slots :
         /\ SF_vars(Claim(w)) /\ SF_vars(Finish(w))
         /\ WF_vars(ClaimCommit(w) \/ HeartbeatCommit(w))

FairSpec == Spec /\ Fairness

(***************************************************************************)
(* Properties.                                                              *)
(***************************************************************************)
(* The limits the claim enforces hold of the valid RUNNING rows in every      *)
(* state, not only when they are counted: a lease that runs out is not        *)
(* counted, and its renewal, decided before it ran out, may commit later.     *)
(* Until a disabled user is made active again.                                *)
CapacityHeld ==
    faults.reenables = 0 =>
        /\ Cardinality(ValidRunning) <= GlobalConcurrency
        /\ \A u \in Users : Cardinality(ValidRunningOf(u)) <= PerUserBurstConcurrency

(* What the design promises of the same limits, whatever happens to users.    *)
CapacityAlwaysHeld ==
    /\ Cardinality(ValidRunning) <= GlobalConcurrency
    /\ \A u \in Users : Cardinality(ValidRunningOf(u)) <= PerUserBurstConcurrency

(* A runnable task is the target of its document, and the version it builds   *)
(* is where the task is: the claim's branches for a stale task and an invalid *)
(* task/version state are never taken, and a document has one runnable task.  *)
TargetsAgree ==
    \A k \in Tasks : Runnable(k) =>
        LET d == DocOf[k]  v == row[k].version IN
        /\ doc[d].version = v /\ v = Len(versions[d])
        /\ row[k].status = "RUNNING" =>
             /\ versions[d][v] = "RUNNING" /\ doc[d].status = "PROCESSING"
             /\ row[k].claim > 0
        /\ row[k].status = "PENDING" =>
             /\ versions[d][v] = IF row[k].claim = 0 /\ row[k].retry = 0
                                   THEN "PENDING" ELSE "FAILED"
             /\ doc[d].status = "PENDING"

(* A version is being built only while a runnable task builds it; the active  *)
(* version is the only DONE one, and a DONE task's version was published.     *)
VersionsAccounted ==
    /\ \A d \in Docs : \A v \in DOMAIN versions[d] :
         /\ versions[d][v] \in {"PENDING", "RUNNING"} =>
              \E k \in Tasks : DocOf[k] = d /\ Runnable(k) /\ row[k].version = v
         /\ versions[d][v] = "DONE" <=> v = doc[d].active
    /\ \A k \in Tasks : row[k].status = "DONE" =>
         versions[DocOf[k]][row[k].version] \in {"DONE", "RETIRED"}

(* At most one slot may write for a document, also when the slots of one      *)
(* process, which share the lease owner, hold claims of the same task.        *)
SingleLiveFence ==
    \A w1, w2 \in Slots :
        /\ slot[w1].pc \in {"running", "beating"} /\ slot[w2].pc \in {"running", "beating"}
        /\ DocOf[slot[w1].fence.task] = DocOf[slot[w2].fence.task]
        /\ LiveFence(w1) /\ LiveFence(w2)
        => w1 = w2

(* A row marked dispatched and not yet claimed is due, and a copy of exactly  *)
(* its generation is on its way: otherwise no sweeper would publish it again. *)
DispatchedIsDelivered ==
    \A k \in Tasks :
        Runnable(k) /\ row[k].dispatched /\ row[k].dispatch > row[k].claim
        => Due(k) /\ Copies(<<k, row[k].dispatch>>) > 0

(* Nothing goes back, whoever commits late: a generation is claimed at most   *)
(* once and generations never decrease, an ended task stays ended, and a      *)
(* document never returns to an older version.                                *)
NothingGoesBack ==
    [][/\ \A k \in Tasks :
            /\ row'[k].dispatch >= row[k].dispatch /\ row'[k].claim >= row[k].claim
            /\ row'[k].status = "RUNNING" =>
                 \/ row'[k].claim > row[k].claim
                 \/ row[k].status = "RUNNING" /\ row'[k].version = row[k].version
            /\ row[k].status \in {"DONE", "FAILED", "SUPERSEDED"} =>
                 row'[k].status = row[k].status
       /\ \A d \in Docs : doc'[d].active >= doc[d].active]_vars

(* Every task ends: DONE, FAILED or SUPERSEDED, through crashes of workers and *)
(* dispatcher, lost commits, capacity deferrals, maintenance and supersession. *)
EveryRowEnds == \A k \in Tasks : []<>~Runnable(k)
=============================================================================
