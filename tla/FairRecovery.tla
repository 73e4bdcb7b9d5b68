----------------------------- MODULE FairRecovery -----------------------------
(***************************************************************************)
(* How one fair-queue resource gets from lost or damaged Redis state back   *)
(* to READY: the runtimes' NORMAL recovery (recovery.go), the operator      *)
(* command FORCE_REBUILD (recovery_operators.go), the recovery Lua scripts  *)
(* of redis.go that fence them, and the MySQL operation journal             *)
(* (store/fairqueue_operation.go).                                          *)
(*                                                                         *)
(* A Lua script is one step, and so is a MySQL transaction; a process may   *)
(* stop, lose its lock or lose its MySQL session between any two of them.   *)
(* recoveryMutation's renewals before and after a script test the same      *)
(* fence as the script, so they add no step.                                *)
(*                                                                         *)
(* READY-mode scheduling is the subject of FairCoordinator; here it is cut  *)
(* down to what a recovery must restore: which tenants are known and active *)
(* (ring, ring_members and active_users agree, see CoordinatorInv), which   *)
(* claims hold a stable reservation, which provisional reservations and     *)
(* turns are left.                                                          *)
(***************************************************************************)
EXTENDS Integers, FiniteSets

CONSTANTS
    Runtimes,       \* processes that run RecoveryCoordinator.Run
    Operators,      \* invocations of redis-force-rebuild --apply
    Tasks, Tenants,
    TenantOf,       \* [Tasks -> Tenants]
    Tokens,         \* owner tokens and epochs (128-bit random in the code)
    Scenarios       \* what a behaviour may start from: a set of records with
                    \*   procs    the processes that take part
                    \*   tasks    the tasks' statuses
                    \*   stop     bound on stops, lock expiries and lost sessions
                    \*   loss     bound on losses of the whole Redis state
                    \*   diverge  bound on READY states found to be damaged

ASSUME RecoveryAssumption ==
    /\ Runtimes \cap Operators = {} /\ 0 \notin Runtimes \cup Operators \cup Tokens
    /\ TenantOf \in [Tasks -> Tenants] /\ IsFiniteSet(Tasks)
    /\ Scenarios \subseteq [procs : SUBSET (Runtimes \cup Operators),
                             tasks : SUBSET {"absent", "published", "running"},
                             stop : Nat, loss : Nat, diverge : Nat]

Procs == Runtimes \cup Operators
None == 0
Statuses == {"absent", "pending", "published", "running", "done"}
Passes == {"known", "dispatched", "running"}

VARIABLES
    lock,           \* recovery_lock: the owner token, or None
    control,        \* HASH resource
    progress,       \* HASH recovery_progress
    known, active,  \* tenants in known_users; tenants in the ring
    stable,         \* tasks whose claim holds a stable reservation
    provisional,    \* tasks with an unexpired or unreaped provisional or turn
    startFence,     \* who holds the MySQL advisory lock of operation starts
    journal,        \* the resource's row of fairqueue_resource_operations
    task,           \* [Tasks -> Statuses]: rag_index_tasks and the Rabbit queues
    publishing,     \* tasks in a publish attempt that passed its READY check
    admitted,       \* tasks whose worker believes it holds a provisional
    held,           \* tasks whose delivery a worker holds unacknowledged
    returned,       \* messages given back in RECOVERING since the last pass over the
                    \* dispatched tasks began (auxiliary: ReadyIsRebuilt speaks of it)
    late,           \* tasks claimed in RECOVERING without a provisional in Redis
    run,            \* [Procs -> what the process is doing]
    faults          \* what is left of the three bounds, and whether Redis lost its state

redisData == <<known, active, stable, provisional>>
redisVars == <<lock, control, progress, known, active, stable, provisional>>
worldVars == <<task, publishing, admitted, held, returned, late>>
vars == <<lock, control, progress, known, active, stable, provisional, startFence,
          journal, task, publishing, admitted, held, returned, late, run, faults>>

NoMark == [cycle |-> 0, complete |-> FALSE, diff |-> 0]
NoProgress == [captured |-> FALSE, highWater |-> {},
               mark |-> [q \in Passes |-> NoMark], forceDelete |-> FALSE]
NoControl == [state |-> "ABSENT", epoch |-> None, kind |-> "NONE", op |-> None,
              last |-> None]
NoRecord == [phase |-> "NONE", op |-> None, forceDelete |-> FALSE]

IdleRun == [pc |-> "idle", token |-> None, epoch |-> None, record |-> NoRecord,
            cycle |-> 0, todo |-> {}, stale |-> {}, diff |-> 0]

StartPCs == {"start", "locking", "inspect", "recheck", "check", "journal", "begin"}
RebuildPCs == {"drain", "leases", "highWater", "reset", "known", "running",
               "dispatched", "canonical", "listStable", "repair", "mark"}
ForcePCs == {"wait", "delete", "markJournal", "markRedis", "commitCheck", "commit",
             "finishCheck", "complete"}
FencedPCs == RebuildPCs \cup {"delete", "markRedis", "commitCheck", "finishCheck", "finish"}

KindOf(p) == IF p \in Operators THEN "FORCE_REBUILD" ELSE "NORMAL"

\* Mutant: READY_COMMITTED counts as finished.
UnfinishedActive(r) == r.phase = "ACTIVE"

Unfinished(r) == r.phase \in {"ACTIVE", "READY_COMMITTED"}

\* The shape every script demands of the control before it does anything.
ControlWellFormed ==
    /\ (control.state = "ABSENT") = (control.epoch = None)
    /\ (control.state = "RECOVERING") = (control.kind # "NONE")
    /\ (control.kind = "FORCE_REBUILD") = (control.op # None)
    /\ control.op # None => control.op # control.last

\* Every variable has its type, and the control the shape that the recovery
\* scripts test (anything else is FQ_COORDINATION_CORRUPT and ends the runtime).
RecoveryTypeOK ==
    /\ lock \in Tokens \cup {None}
    /\ control \in [state : {"ABSENT", "READY", "RECOVERING"},
                    epoch : Tokens \cup {None},
                    kind : {"NONE", "NORMAL", "FORCE_REBUILD"},
                    op : Tokens \cup {None}, last : Tokens \cup {None}]
    /\ ControlWellFormed
    /\ progress.captured \in BOOLEAN /\ progress.highWater \subseteq Tasks
    /\ progress.mark \in [Passes -> [cycle : Nat, complete : BOOLEAN, diff : Nat]]
    /\ progress.forceDelete \in BOOLEAN
    /\ {known, active} \subseteq SUBSET Tenants
    /\ {stable, provisional, publishing, admitted, held, returned, late} \subseteq SUBSET Tasks
    /\ startFence \in Procs \cup {None}
    /\ journal \in [phase : {"NONE", "ACTIVE", "READY_COMMITTED", "COMPLETED"},
                    op : Tokens \cup {None}, forceDelete : BOOLEAN]
    /\ task \in [Tasks -> Statuses]
    /\ \A p \in Procs :
          /\ run[p].pc \in {"away", "idle", "observe", "stopped", "reconcile", "rejoin", "open",
                            "finish", "finished"} \cup StartPCs \cup RebuildPCs \cup ForcePCs
          /\ run[p].token \in Tokens \cup {None}
    /\ faults \in [stop : Nat, loss : Nat, diverge : Nat, lost : BOOLEAN]

RecoveryInit ==
    /\ lock = None /\ control = NoControl /\ progress = NoProgress
    /\ known = {} /\ active = {} /\ stable = {} /\ provisional = {}
    /\ startFence = None /\ journal = NoRecord
    /\ publishing = {} /\ admitted = {} /\ held = {} /\ returned = {} /\ late = {}
    /\ \E s \in Scenarios :
          /\ task \in [Tasks -> s.tasks]
          /\ run = [p \in Procs |->
                      IF p \in s.procs THEN IdleRun ELSE [IdleRun EXCEPT !.pc = "away"]]
          /\ faults = [stop |-> s.stop, loss |-> s.loss, diverge |-> s.diverge, lost |-> FALSE]

TenantsOf(S) == {TenantOf[x] : x \in S}
In(status) == {x \in Tasks : task[x] = status}

\* CaptureHighWater: every row that exists.
Existing == Tasks \ In("absent")

\* A random token differs from every token still in use.  Tokens bounds how many
\* there are.
TokensInUse ==
    {lock, control.epoch, control.op, control.last, journal.op}
        \cup UNION {{run[p].token, run[p].epoch, run[p].record.op} : p \in Procs}
FreshTokens == Tokens \ TokensInUse
NextToken == CHOOSE k \in FreshTokens : TRUE

Goto(p, label) == run' = [run EXCEPT ![p].pc = label]
BecomesIdle(p) == run' = [run EXCEPT ![p] = IdleRun]
Stops(p) == run' = [run EXCEPT ![p] = [IdleRun EXCEPT !.pc = "stopped"]]

\* The callback of WithStartFence ends: RELEASE_LOCK.
ReleaseStartFence(p) == startFence' = IF startFence = p THEN None ELSE startFence

\* redisReleaseRawLockScript: compare and delete.
ReleaseRawLock(p) == lock' = IF lock = run[p].token THEN None ELSE lock

\* A lost session is an ErrAuthoritativeWriterMismatch, which ends a runtime.
LeavesStart(p) == IF p \in Runtimes /\ startFence # p THEN Stops(p) ELSE BecomesIdle(p)

\* A start that is refused: both locks are given back.
StartRefused(p) == ReleaseStartFence(p) /\ ReleaseRawLock(p)

(***************************************************************************)
(* A runtime looks at the journal and at the control (EnsureResourceReady). *)
(***************************************************************************)
ReadJournal(p) ==
    /\ run[p].pc = "idle"
    /\ IF journal.phase = "ACTIVE"
         THEN Stops(p)
         ELSE run' = [run EXCEPT ![p].pc = "observe", ![p].record = journal]
    /\ UNCHANGED <<redisVars, startFence, journal, worldVars, faults>>

Observe(p) ==
    /\ run[p].pc = "observe"
    /\ LET committed == run[p].record.phase = "READY_COMMITTED" IN
         CASE control.state = "READY" ->
                run' = [run EXCEPT ![p].pc = IF committed THEN "start" ELSE "reconcile",
                                   ![p].epoch = control.epoch]
           [] control.state # "READY" /\ committed -> Stops(p)
           [] OTHER -> Goto(p, "start")
    /\ UNCHANGED <<redisVars, startFence, journal, worldVars, faults>>

(***************************************************************************)
(* Starts: the MySQL start fence, then the raw lock, then the two records.  *)
(* A runtime whose record is READY_COMMITTED only completes the journal     *)
(* (reconcileReadyCommitted).                                               *)
(***************************************************************************)
\* GET_LOCK timed out.
StartFenceBusy(p) ==
    /\ run[p].pc = "start"
    /\ startFence # None
    /\ BecomesIdle(p)
    /\ UNCHANGED <<redisVars, startFence, journal, worldVars, faults>>

AcquireStartFence(p) ==
    /\ run[p].pc = "start"
    /\ startFence = None
    /\ IF IF run[p].record.phase = "READY_COMMITTED"
            THEN journal # run[p].record
            ELSE p \in Runtimes /\ Unfinished(journal)
         THEN Stops(p) /\ UNCHANGED startFence
         ELSE Goto(p, "locking") /\ startFence' = p
    /\ UNCHANGED <<redisVars, journal, worldVars, faults>>

\* Mutant: a busy lock is reported without leaving the start fence.
AcquireRawLockKeepingFence(p) ==
    /\ run[p].pc = "locking"
    /\ FreshTokens # {}
    /\ IF lock = None
         THEN /\ lock' = NextToken
              /\ run' = [run EXCEPT ![p].pc = "inspect", ![p].token = NextToken]
         ELSE BecomesIdle(p) /\ UNCHANGED lock
    /\ UNCHANGED <<control, progress, redisData, startFence, journal, worldVars, faults>>

AcquireRawLock(p) ==
    /\ run[p].pc = "locking"
    /\ FreshTokens # {}
    /\ IF lock = None
         THEN /\ lock' = NextToken
              /\ run' = [run EXCEPT ![p].pc = "inspect", ![p].token = NextToken]
              /\ UNCHANGED startFence
         ELSE LeavesStart(p) /\ ReleaseStartFence(p) /\ UNCHANGED lock
    /\ UNCHANGED <<control, progress, redisData, journal, worldVars, faults>>

\* Any check of the raw lock or of the session that fails ends the start.
StartLost(p) ==
    /\ \/ run[p].pc \in {"inspect", "check", "begin"} /\ lock # run[p].token
       \/ run[p].pc \in {"recheck", "journal"} /\ startFence # p
       \/ run[p].pc = "inspect" /\ p \in Operators /\ startFence # p
    /\ LeavesStart(p) /\ StartRefused(p)
    /\ UNCHANGED <<control, progress, redisData, journal, worldVars, faults>>

\* controlTerminal: Redis says that this very operation was the last to finish.
ControlTerminal(r) == control.state = "READY" /\ control.last = r.op

InspectRecoveryStart(p) ==
    /\ run[p].pc = "inspect" /\ p \in Runtimes
    /\ lock = run[p].token
    /\ LET committed == run[p].record.phase = "READY_COMMITTED"
           refused == IF committed
                        THEN ~ControlTerminal(run[p].record)
                        ELSE control.state = "RECOVERING" /\ control.kind # "NORMAL"
       IN IF refused
            THEN Stops(p) /\ StartRefused(p)
            ELSE /\ Goto(p, IF committed THEN "complete" ELSE "recheck")
                 /\ UNCHANGED <<lock, startFence>>
    /\ UNCHANGED <<control, progress, redisData, journal, worldVars, faults>>

RecheckJournal(p) ==
    /\ run[p].pc = "recheck"
    /\ startFence = p
    /\ IF Unfinished(journal)
         THEN Stops(p) /\ StartRefused(p)
         ELSE Goto(p, "begin") /\ UNCHANGED <<lock, startFence>>
    /\ UNCHANGED <<control, progress, redisData, journal, worldVars, faults>>

(***************************************************************************)
(* redis-force-rebuild --apply up to its Begin.                             *)
(***************************************************************************)
Apply(o) ==
    /\ run[o].pc = "idle"
    /\ Goto(o, "start")
    /\ UNCHANGED <<redisVars, startFence, journal, worldVars, faults>>

ForceFresh == control.state = "RECOVERING" /\ control.kind = "NORMAL" /\ ~Unfinished(journal)

\* The Redis delete marker may not be ahead of the journal's.
MarkerAhead == progress.forceDelete /\ ~journal.forceDelete

\* Mutant: a rebuild that already began in Redis is not taken up again.
ForceResumeUnbegun ==
    \/ control.state = "RECOVERING" /\ control.kind = "NORMAL" /\ journal.phase = "ACTIVE"
    \/ control.state = "ABSENT" /\ Unfinished(journal)

ForceResume ==
    \/ control.state = "RECOVERING" /\ control.kind = "NORMAL" /\ journal.phase = "ACTIVE"
    \/ control.state = "ABSENT" /\ Unfinished(journal)
    \/ /\ control.state = "RECOVERING" /\ control.kind = "FORCE_REBUILD"
       /\ Unfinished(journal) /\ control.op = journal.op /\ ~MarkerAhead

ForceStartAllowed(o) ==
    /\ run[o].pc = "inspect" /\ o \in Operators
    /\ lock = run[o].token /\ startFence = o
    /\ FreshTokens # {}
    /\ CASE journal.phase = "READY_COMMITTED" /\ ControlTerminal(journal) ->
              /\ run' = [run EXCEPT ![o].pc = "complete", ![o].record = journal]
              /\ UNCHANGED <<lock, startFence>>
         [] ForceFresh ->
              /\ run' = [run EXCEPT ![o].pc = "check",
                            ![o].record = [NoRecord EXCEPT !.phase = "ACTIVE",
                                                           !.op = NextToken]]
              /\ UNCHANGED <<lock, startFence>>
         [] ForceResume ->
              /\ run' = [run EXCEPT ![o].pc = "check", ![o].record = journal]
              /\ UNCHANGED <<lock, startFence>>
         [] OTHER -> BecomesIdle(o) /\ StartRefused(o)
    /\ UNCHANGED <<control, progress, redisData, journal, worldVars, faults>>

CheckRecoveryLock(o) ==
    /\ run[o].pc = "check"
    /\ lock = run[o].token
    /\ Goto(o, "journal")
    /\ UNCHANGED <<redisVars, startFence, journal, worldVars, faults>>

\* Insert, replace a COMPLETED row, or find the same operation unfinished.
BeginSpecial(o) ==
    /\ run[o].pc = "journal"
    /\ startFence = o
    /\ IF Unfinished(journal)
         THEN /\ UNCHANGED journal
              /\ IF journal.op = run[o].record.op
                   THEN /\ run' = [run EXCEPT ![o].pc = "begin", ![o].record = journal]
                        /\ UNCHANGED <<lock, startFence>>
                   ELSE BecomesIdle(o) /\ StartRefused(o)
         ELSE IF journal.op = run[o].record.op
           THEN BecomesIdle(o) /\ StartRefused(o) /\ UNCHANGED journal
           ELSE /\ journal' = run[o].record
                /\ Goto(o, "begin")
                /\ UNCHANGED <<lock, startFence>>
    /\ UNCHANGED <<control, progress, redisData, worldVars, faults>>

(***************************************************************************)
(* redisBeginRecoveryScript.  A takeover keeps the progress of the previous *)
(* owner.  If the MySQL session was lost meanwhile, WithStartFence reports  *)
(* an error although the script ran, and the caller goes away.              *)
(***************************************************************************)
BeginInitializes(p) ==
    \/ control.state = "ABSENT"
    \/ control.state = "READY" /\ p \in Runtimes
    \/ control.state = "RECOVERING" /\ control.kind = "NORMAL" /\ p \in Operators

OpOf(p) == IF p \in Operators THEN run[p].record.op ELSE None

BeginTakesOver(p) ==
    control.state = "RECOVERING" /\ control.kind = KindOf(p) /\ control.op = OpOf(p)

BeginRecovery(p) ==
    /\ run[p].pc = "begin"
    /\ lock = run[p].token
    /\ IF BeginInitializes(p) \/ BeginTakesOver(p)
         THEN /\ control' = [state |-> "RECOVERING", epoch |-> run[p].token,
                             kind |-> KindOf(p), op |-> OpOf(p), last |-> control.last]
              /\ progress' = IF BeginInitializes(p) THEN NoProgress ELSE progress
              /\ late' = {}
              /\ IF startFence = p
                   THEN Goto(p, IF p \in Operators THEN "wait" ELSE "drain")
                   ELSE LeavesStart(p)
              /\ ReleaseStartFence(p)
              /\ UNCHANGED lock
         ELSE LeavesStart(p) /\ StartRefused(p) /\ UNCHANGED <<control, progress, late>>
    /\ UNCHANGED <<redisData, journal, task, publishing, admitted, held, returned, faults>>

\* fq_recovery_fence, which every recovery script runs first.
FenceOK(p) ==
    /\ lock = run[p].token
    /\ control.state = "RECOVERING" /\ control.epoch = run[p].token
    /\ control.kind = KindOf(p) /\ control.op = OpOf(p)

\* redisFinishRecoveryScript: this very recovery has made the resource READY.
FinishCommitted(p) ==
    /\ run[p].pc = "finish"
    /\ control.state = "READY" /\ control.epoch = run[p].token
    /\ p \in Operators => control.last = OpOf(p)

FenceLost(p) ==
    /\ run[p].pc \in FencedPCs
    /\ ~FenceOK(p) /\ ~FinishCommitted(p)
    /\ BecomesIdle(p)
    /\ UNCHANGED <<redisVars, startFence, journal, worldVars, faults>>

(***************************************************************************)
(* FORCE_REBUILD: wait, delete, mark (applyForceDeletePass).  The deadline  *)
(* lies a full drain window after the operation was recorded, so publishes  *)
(* and admissions from before are over.                                     *)
(***************************************************************************)
WaitForForceDeadline(o) ==
    /\ run[o].pc = "wait"
    /\ IF lock = run[o].token
         THEN /\ run[o].record.phase = "ACTIVE" => admitted = {} /\ publishing = {}
              /\ Goto(o, "delete")
         ELSE BecomesIdle(o)
    /\ UNCHANGED <<redisVars, startFence, journal, worldVars, faults>>

\* Mutant: the delete marker goes to Redis without going to the journal.
DeleteUnjournaled(o) ==
    /\ run[o].pc = "delete"
    /\ FenceOK(o)
    /\ known' = {} /\ active' = {} /\ stable' = {} /\ provisional' = {}
    /\ Goto(o, "markRedis")
    /\ UNCHANGED <<lock, control, progress, startFence, journal, worldVars, faults>>

DeleteForceOwnedKeys(o) ==
    /\ run[o].pc = "delete"
    /\ FenceOK(o)
    /\ known' = {} /\ active' = {} /\ stable' = {} /\ provisional' = {}
    /\ Goto(o, "markJournal")
    /\ UNCHANGED <<lock, control, progress, startFence, journal, worldVars, faults>>

\* A journal CAS: the same change already made is a success, another row is not.
Updated(o, done, changed) ==
    IF journal.op = run[o].record.op /\ done THEN journal
    ELSE IF journal = run[o].record THEN changed
    ELSE NoRecord

\* The caller goes on with the row the CAS returned.
JournalStep(o, row, label) ==
    IF row = NoRecord
      THEN BecomesIdle(o) /\ UNCHANGED journal
      ELSE journal' = row /\ run' = [run EXCEPT ![o].pc = label, ![o].record = row]

MarkForceDeleteJournal(o) ==
    /\ run[o].pc = "markJournal"
    /\ IF run[o].record.phase = "ACTIVE"
         THEN JournalStep(o, Updated(o, journal.forceDelete,
                                        [journal EXCEPT !.forceDelete = TRUE]),
                          "markRedis")
         ELSE Goto(o, "markRedis") /\ UNCHANGED journal
    /\ UNCHANGED <<redisVars, startFence, worldVars, faults>>

MarkForceDeleteRedis(o) ==
    /\ run[o].pc = "markRedis"
    /\ FenceOK(o)
    /\ IF UNION {known, active, stable, provisional} = {}
         THEN Goto(o, "drain") /\ progress' = [progress EXCEPT !.forceDelete = TRUE]
         ELSE BecomesIdle(o) /\ UNCHANGED progress
    /\ UNCHANGED <<lock, control, redisData, startFence, journal, worldVars, faults>>

(***************************************************************************)
(* RunRecovery, for both kinds.                                             *)
(***************************************************************************)
\* Mutant: the attempts of other processes are not waited for.
DrainNothing(p) ==
    /\ run[p].pc = "drain"
    /\ FenceOK(p)
    /\ Goto(p, "leases")
    /\ UNCHANGED <<redisVars, startFence, journal, worldVars, faults>>

\* DrainAttempts: local attempts have ended, and those of other processes
\* have exceeded PublishAttemptTimeout.
DrainAttempts(p) ==
    /\ run[p].pc = "drain"
    /\ FenceOK(p)
    /\ publishing = {}
    /\ Goto(p, "leases")
    /\ UNCHANGED <<redisVars, startFence, journal, worldVars, faults>>

\* drainRecoveryLeases: RecoveryReapExpired until nothing is left.  Any
\* provisional or turn may be past its expiry.
DrainRecoveryLeases(p) ==
    /\ run[p].pc = "leases"
    /\ FenceOK(p)
    /\ IF provisional = {}
         THEN Goto(p, "highWater") /\ UNCHANGED provisional
         ELSE \E x \in provisional : provisional' = provisional \ {x} /\ UNCHANGED run
    /\ UNCHANGED <<lock, control, progress, known, active, stable, startFence, journal,
                   worldVars, faults>>

\* The high water of an earlier owner is kept, with its pass marks.
SetRecoveryHighWater(p) ==
    /\ run[p].pc = "highWater"
    /\ FenceOK(p)
    /\ progress' = IF progress.captured THEN progress
                   ELSE [NoProgress EXCEPT !.captured = TRUE, !.highWater = Existing,
                                           !.forceDelete = progress.forceDelete]
    /\ Goto(p, "reset")
    /\ UNCHANGED <<lock, control, redisData, startFence, journal, worldVars, faults>>

\* ResetResource and deleteOwnedResourceKeys.
ResetResource(p) ==
    /\ run[p].pc = "reset"
    /\ FenceOK(p)
    /\ IF provisional = {}
         THEN /\ known' = {} /\ active' = {} /\ stable' = {}
              /\ run' = [run EXCEPT ![p].pc = "known", ![p].cycle = 1,
                                    ![p].todo = TenantsOf(progress.highWater)]
         ELSE BecomesIdle(p) /\ UNCHANGED <<known, active, stable>>
    /\ UNCHANGED <<lock, control, progress, provisional, startFence, journal, worldVars, faults>>

\* redisMarkRecoveryPassScript: a cycle may not go back, and a complete mark
\* may only be repeated.
MarkAccepted(pass, cycle, diff) ==
    LET m == progress.mark[pass] IN
    /\ cycle >= m.cycle
    /\ cycle = m.cycle /\ m.complete => diff = m.diff

Marked(pass, cycle, diff) ==
    [progress EXCEPT !.mark[pass] = [cycle |-> cycle, complete |-> TRUE, diff |-> diff]]

\* Run next when the mark is accepted, else leave with FQ_FENCE_MISMATCH.
MarkRecoveryPass(p, pass, diff, next) ==
    IF MarkAccepted(pass, run[p].cycle, diff)
      THEN progress' = Marked(pass, run[p].cycle, diff) /\ next
      ELSE BecomesIdle(p) /\ UNCHANGED progress

\* The rows of a pass over the dispatched tasks (restoreDispatchedRecovery).
Dispatched == (In("published") \cup In("running")) \cap progress.highWater

RestoreKnown(p) ==
    /\ run[p].pc = "known"
    /\ FenceOK(p)
    /\ IF run[p].todo = {}
         THEN /\ MarkRecoveryPass(p, "known", 0,
                   run' = [run EXCEPT
                     ![p].pc = IF run[p].cycle = 1 THEN "running" ELSE "dispatched",
                     ![p].todo = IF run[p].cycle = 1
                                   THEN In("running") \cap progress.highWater
                                   ELSE Dispatched])
              /\ returned' = IF run[p].cycle = 1 THEN returned ELSE {}
              /\ UNCHANGED known
         ELSE /\ \E t \in run[p].todo :
                   known' = known \cup {t} /\ run' = [run EXCEPT ![p].todo = @ \ {t}]
              /\ UNCHANGED <<progress, returned>>
    /\ UNCHANGED <<lock, control, active, stable, provisional, startFence, journal,
                   task, publishing, admitted, held, late, faults>>

RestoreRunning(p) ==
    /\ run[p].pc = "running"
    /\ FenceOK(p)
    /\ IF run[p].todo = {}
         THEN /\ run' = [run EXCEPT ![p].pc = "dispatched", ![p].todo = Dispatched]
              /\ returned' = {}
              /\ UNCHANGED stable
         ELSE /\ \E x \in run[p].todo :
                   stable' = stable \cup {x} /\ run' = [run EXCEPT ![p].todo = @ \ {x}]
              /\ UNCHANGED returned
    /\ UNCHANGED <<lock, control, progress, known, active, provisional, startFence, journal,
                   task, publishing, admitted, held, late, faults>>

\* The tenant's queue has ready messages: a delivery that a worker holds
\* unacknowledged is not one of them.
ReadyDepthPositive(t) == t \in TenantsOf(In("published") \ held)

RestoreDispatched(p) ==
    /\ run[p].pc = "dispatched"
    /\ FenceOK(p)
    /\ IF run[p].todo = {}
         THEN /\ MarkRecoveryPass(p, "dispatched", 0,
                   Goto(p, CASE run[p].cycle = 1 -> "canonical"
                             [] run[p].cycle > 1 /\ p \in Operators -> "commitCheck"
                             [] run[p].cycle > 1 /\ p \in Runtimes -> "finish"))
              /\ UNCHANGED <<known, active>>
         ELSE /\ \E x \in run[p].todo :
                   /\ IF ReadyDepthPositive(TenantOf[x])
                        THEN /\ active' = active \cup {TenantOf[x]}
                             /\ known' = known \cup {TenantOf[x]}
                        ELSE UNCHANGED <<known, active>>
                   /\ run' = [run EXCEPT ![p].todo = @ \ {x}]
              /\ UNCHANGED progress
    /\ UNCHANGED <<lock, control, stable, provisional, startFence, journal, worldVars, faults>>

\* reconcileRecoveryStable: the canonical claims, then the Redis tokens.
LoadCanonicalStable(p) ==
    /\ run[p].pc = "canonical"
    /\ FenceOK(p)
    /\ run' = [run EXCEPT ![p].pc = "listStable",
                          ![p].todo = In("running") \cap progress.highWater]
    /\ UNCHANGED <<redisVars, startFence, journal, worldVars, faults>>

LoadRedisStable(p) ==
    /\ run[p].pc = "listStable"
    /\ FenceOK(p)
    /\ LET canonical == run[p].todo IN
         run' = [run EXCEPT ![p].pc = "repair",
                   ![p].stale = stable \ canonical,
                   ![p].diff = Cardinality(stable \ canonical)
                               + Cardinality(canonical \ stable)]
    /\ UNCHANGED <<redisVars, startFence, journal, worldVars, faults>>

RepairStable(p) ==
    /\ run[p].pc = "repair"
    /\ FenceOK(p)
    /\ CASE run[p].stale # {} ->
              \E x \in run[p].stale :
                 stable' = stable \ {x} /\ run' = [run EXCEPT ![p].stale = @ \ {x}]
         [] run[p].stale = {} /\ run[p].todo # {} ->
              \E x \in run[p].todo :
                 stable' = stable \cup {x} /\ run' = [run EXCEPT ![p].todo = @ \ {x}]
         [] OTHER -> Goto(p, "mark") /\ UNCHANGED stable
    /\ UNCHANGED <<lock, control, progress, known, active, provisional, startFence, journal,
                   worldVars, faults>>

\* Once a cycle found no difference, one more known and dispatched pass.
MarkRunning(p) ==
    /\ run[p].pc = "mark"
    /\ FenceOK(p)
    /\ MarkRecoveryPass(p, "running", run[p].diff,
         run' = [run EXCEPT ![p].cycle = @ + 1,
                            ![p].pc = IF run[p].diff = 0 THEN "known" ELSE "canonical",
                            ![p].todo = IF run[p].diff = 0
                                          THEN TenantsOf(progress.highWater) ELSE {}])
    /\ UNCHANGED <<lock, control, redisData, startFence, journal, worldVars, faults>>

(***************************************************************************)
(* finishSpecial and FinishRecovery.  The journal is written after a check  *)
(* of the fence, not under it.                                              *)
(***************************************************************************)
RenewBeforeJournal(o) ==
    /\ run[o].pc \in {"commitCheck", "finishCheck"}
    /\ FenceOK(o)
    /\ Goto(o, IF run[o].pc = "commitCheck" THEN "commit" ELSE "finish")
    /\ UNCHANGED <<redisVars, startFence, journal, worldVars, faults>>

CommitReady(o) ==
    /\ run[o].pc = "commit"
    /\ LET row == Updated(o, journal.phase \in {"READY_COMMITTED", "COMPLETED"},
                              [journal EXCEPT !.phase = "READY_COMMITTED"])
       IN IF row.phase = "READY_COMMITTED"
            THEN JournalStep(o, row, "finishCheck")
            ELSE BecomesIdle(o) /\ UNCHANGED journal
    /\ UNCHANGED <<redisVars, startFence, worldVars, faults>>

\* What redisFinishRecoveryScript demands besides the fence.
Finishable(p) ==
    /\ provisional = {}
    /\ progress.captured
    /\ \A q \in Passes : progress.mark[q].complete /\ progress.mark[q].diff = 0
    /\ p \in Operators => progress.forceDelete

\* Mutant: the operation is not recorded as the last one completed.
FinishUnrecorded(p) ==
    /\ run[p].pc = "finish"
    /\ FenceOK(p)
    /\ IF Finishable(p)
         THEN /\ control' = [control EXCEPT !.state = "READY", !.kind = "NONE", !.op = None]
              /\ progress' = NoProgress
              /\ lock' = None
              /\ run' = [run EXCEPT ![p].pc = "finished", ![p].epoch = run[p].token]
         ELSE BecomesIdle(p) /\ UNCHANGED <<lock, control, progress>>
    /\ UNCHANGED <<redisData, startFence, journal, worldVars, faults>>

\* Mutant: the control keeps its operation kind.
FinishKeepingKind(p) ==
    /\ run[p].pc = "finish"
    /\ FenceOK(p)
    /\ IF Finishable(p)
         THEN /\ control' = [control EXCEPT !.state = "READY"]
              /\ progress' = NoProgress
              /\ lock' = None
              /\ run' = [run EXCEPT ![p].pc = "finished", ![p].epoch = run[p].token]
         ELSE BecomesIdle(p) /\ UNCHANGED <<lock, control, progress>>
    /\ UNCHANGED <<redisData, startFence, journal, worldVars, faults>>

\* A finish that has already been made is answered with OK again.
FinishRecovery(p) ==
    /\ run[p].pc = "finish"
    /\ FenceOK(p) \/ FinishCommitted(p)
    /\ CASE FinishCommitted(p) ->
              /\ run' = [run EXCEPT ![p].pc = "finished", ![p].epoch = run[p].token]
              /\ UNCHANGED <<lock, control, progress, returned>>
         [] ~FinishCommitted(p) /\ Finishable(p) ->
              /\ control' = [control EXCEPT !.state = "READY", !.kind = "NONE", !.op = None,
                             !.last = IF p \in Operators THEN OpOf(p) ELSE @]
              /\ progress' = NoProgress /\ returned' = {}
              /\ lock' = None
              /\ run' = [run EXCEPT ![p].pc = "finished", ![p].epoch = run[p].token]
         [] ~FinishCommitted(p) /\ ~Finishable(p) ->
              BecomesIdle(p) /\ UNCHANGED <<lock, control, progress, returned>>
    /\ UNCHANGED <<redisData, startFence, journal, task, publishing, admitted, held, late,
                   faults>>

CurrentReady(p) == control.state = "READY" /\ control.epoch = run[p].epoch

ObserveFinished(p) ==
    /\ run[p].pc = "finished"
    /\ IF CurrentReady(p)
         THEN Goto(p, IF p \in Operators THEN "complete" ELSE "rejoin")
         ELSE BecomesIdle(p)
    /\ UNCHANGED <<redisVars, startFence, journal, worldVars, faults>>

Complete(p) ==
    /\ run[p].pc = "complete"
    /\ LET row == Updated(p, journal.phase = "COMPLETED",
                              [journal EXCEPT !.phase = "COMPLETED"])
       IN /\ journal' = IF row = NoRecord THEN journal ELSE row
          /\ IF p \in Runtimes /\ startFence = p /\ lock = run[p].token /\ row # NoRecord
               THEN run' = [run EXCEPT ![p].pc = "reconcile", ![p].token = None,
                                       ![p].record = row]
               ELSE LeavesStart(p)
    /\ StartRefused(p)
    /\ UNCHANGED <<control, progress, redisData, worldVars, faults>>

(***************************************************************************)
(* ReconcileReady (FairScheduler has its steps): to join the READY epoch,   *)
(* and once more after ReconcileInterval, whereupon Run starts over.  If it *)
(* finds the coordination state damaged, that starts a NORMAL recovery when *)
(* EnsureResourceReady had found the resource READY, and ends the runtime   *)
(* (a terminal error) otherwise.                                            *)
(***************************************************************************)
ReconcileReady(p) ==
    /\ run[p].pc \in {"reconcile", "rejoin", "open"}
    /\ IF CurrentReady(p)
         THEN /\ known' = known \cup TenantsOf(Existing)
              /\ stable' = In("running")
              /\ active' = active \cup TenantsOf(In("published") \ held)
         ELSE UNCHANGED <<known, stable, active>>
    /\ IF CurrentReady(p) /\ run[p].pc # "open" THEN Goto(p, "open") ELSE BecomesIdle(p)
    /\ UNCHANGED <<lock, control, progress, provisional, startFence, journal, worldVars, faults>>

FindDivergence(p) ==
    /\ run[p].pc \in {"reconcile", "rejoin", "open"} /\ CurrentReady(p)
    /\ faults.diverge > 0
    /\ faults' = [faults EXCEPT !.diverge = @ - 1]
    /\ IF run[p].pc = "reconcile" THEN Goto(p, "start") ELSE Stops(p)
    /\ UNCHANGED <<redisVars, startFence, journal, worldVars>>

(***************************************************************************)
(* Tasks and workers.  READY scripts are refused in any other state.        *)
(***************************************************************************)
Ready == control.state = "READY"

CreateTask(x) ==
    /\ task[x] = "absent"
    /\ task' = [task EXCEPT ![x] = "pending"]
    /\ UNCHANGED <<redisVars, startFence, journal, publishing, admitted, held, returned, late,
                   run, faults>>

StartPublish(x) ==
    /\ Ready /\ task[x] = "pending" /\ x \notin publishing
    /\ publishing' = publishing \cup {x}
    /\ UNCHANGED <<redisVars, startFence, journal, task, admitted, held, returned, late, run, faults>>

\* Confirm and mark; the activation that follows is READY-fenced.
FinishPublish(x) ==
    /\ x \in publishing
    /\ publishing' = publishing \ {x}
    /\ task' = [task EXCEPT ![x] = "published"]
    /\ IF Ready
         THEN active' = active \cup {TenantOf[x]} /\ known' = known \cup {TenantOf[x]}
         ELSE UNCHANGED <<active, known>>
    /\ UNCHANGED <<lock, control, progress, stable, provisional, startFence, journal,
                   admitted, held, returned, late, run, faults>>

AcquireProvisional(x) ==
    /\ Ready /\ task[x] = "published" /\ TenantOf[x] \in active
    /\ x \notin provisional \cup admitted
    /\ provisional' = provisional \cup {x} /\ admitted' = admitted \cup {x}
    /\ UNCHANGED <<lock, control, progress, known, active, stable, startFence, journal,
                   task, publishing, held, returned, late, run, faults>>

\* The Get of the turn: nothing fences it.
GetDelivery(x) ==
    /\ x \in admitted \ held /\ task[x] = "published"
    /\ held' = held \cup {x}
    /\ UNCHANGED <<redisVars, startFence, journal, task, publishing, admitted, returned,
                   late, run, faults>>

ClaimTask(x) ==
    /\ x \in held /\ task[x] = "published"
    /\ task' = [task EXCEPT ![x] = "running"]
    /\ late' = IF control.state = "RECOVERING" /\ x \notin provisional
                 THEN late \cup {x} ELSE late
    /\ UNCHANGED <<redisVars, startFence, journal, publishing, admitted, held, returned,
                   run, faults>>

\* The worker binds its reservation and acknowledges, or gives both up: what it
\* holds goes back to the queue (a Nack, or the end of the worker's channel).
LeaveAdmission(x) ==
    /\ x \in admitted
    /\ admitted' = admitted \ {x} /\ held' = held \ {x}
    /\ returned' = IF x \in held /\ task[x] = "published" /\ control.state = "RECOVERING"
                     THEN returned \cup {x} ELSE returned
    /\ IF Ready
         THEN /\ provisional' = provisional \ {x}
              /\ stable' = IF task[x] = "running" /\ x \in provisional
                             THEN stable \cup {x} ELSE stable
         ELSE UNCHANGED <<provisional, stable>>
    /\ UNCHANGED <<lock, control, progress, known, active, startFence, journal, task,
                   publishing, late, run, faults>>

\* A worker finishes, or its lease runs out.
EndTask(x) ==
    /\ task[x] = "running" /\ x \notin admitted
    /\ task' = [task EXCEPT ![x] = "done"]
    /\ stable' = IF Ready THEN stable \ {x} ELSE stable
    /\ UNCHANGED <<lock, control, progress, known, active, provisional, startFence, journal,
                   publishing, admitted, held, returned, late, run, faults>>

(***************************************************************************)
(* What can go wrong.                                                       *)
(***************************************************************************)
Busy(p) == run[p].pc \notin {"away", "idle", "stopped"}

\* A process dies or gives up; MySQL drops its session lock, Redis keeps the
\* recovery lock until it expires.
StopProcess(p) ==
    /\ Busy(p)
    /\ faults.stop > 0
    /\ faults' = [faults EXCEPT !.stop = @ - 1]
    /\ BecomesIdle(p) /\ ReleaseStartFence(p)
    /\ UNCHANGED <<redisVars, journal, worldVars>>

LoseSession(p) ==
    /\ startFence = p
    /\ faults.stop > 0
    /\ faults' = [faults EXCEPT !.stop = @ - 1]
    /\ startFence' = None
    /\ UNCHANGED <<redisVars, journal, worldVars, run>>

LockIsOwned == lock \in {run[p].token : p \in Procs}

\* The owner did not renew in time.
LockExpires ==
    /\ lock # None /\ LockIsOwned
    /\ faults.stop > 0
    /\ faults' = [faults EXCEPT !.stop = @ - 1]
    /\ lock' = None
    /\ UNCHANGED <<control, progress, redisData, startFence, journal, worldVars, run>>

OrphanLockExpires ==
    /\ lock # None /\ ~LockIsOwned
    /\ lock' = None
    /\ UNCHANGED <<control, progress, redisData, startFence, journal, worldVars, run, faults>>

RedisLosesState ==
    /\ faults.loss > 0
    /\ faults' = [faults EXCEPT !.loss = @ - 1, !.lost = TRUE]
    /\ lock' = None /\ control' = NoControl /\ progress' = NoProgress
    /\ known' = {} /\ active' = {} /\ stable' = {} /\ provisional' = {}
    /\ returned' = {}
    /\ UNCHANGED <<startFence, journal, task, publishing, admitted, held, late, run>>

RestartRuntime(p) ==
    /\ run[p].pc = "stopped"
    /\ BecomesIdle(p)
    /\ UNCHANGED <<redisVars, startFence, journal, worldVars, faults>>

(***************************************************************************)
(* Specifications.                                                          *)
(***************************************************************************)
RebuildStep(p) ==
    \/ BeginRecovery(p) \/ FenceLost(p) \/ DrainAttempts(p) \/ DrainRecoveryLeases(p)
    \/ SetRecoveryHighWater(p) \/ ResetResource(p) \/ RestoreKnown(p)
    \/ RestoreRunning(p) \/ RestoreDispatched(p) \/ LoadCanonicalStable(p)
    \/ LoadRedisStable(p) \/ RepairStable(p) \/ MarkRunning(p) \/ FinishRecovery(p)
    \/ ObserveFinished(p) \/ Complete(p)

StartStep(p) ==
    StartFenceBusy(p) \/ AcquireStartFence(p) \/ AcquireRawLock(p) \/ StartLost(p)

RuntimeStep(p) ==
    \/ ReadJournal(p) \/ Observe(p) \/ StartStep(p) \/ InspectRecoveryStart(p)
    \/ RecheckJournal(p) \/ RebuildStep(p) \/ ReconcileReady(p) \/ RestartRuntime(p)

OperatorStep(o) ==
    \/ StartStep(o) \/ ForceStartAllowed(o) \/ CheckRecoveryLock(o) \/ BeginSpecial(o)
    \/ WaitForForceDeadline(o) \/ DeleteForceOwnedKeys(o) \/ MarkForceDeleteJournal(o)
    \/ MarkForceDeleteRedis(o) \/ RebuildStep(o) \/ RenewBeforeJournal(o) \/ CommitReady(o)

TaskStep(x) ==
    \/ CreateTask(x) \/ StartPublish(x) \/ FinishPublish(x) \/ AcquireProvisional(x)
    \/ GetDelivery(x) \/ ClaimTask(x) \/ LeaveAdmission(x) \/ EndTask(x)

Fault ==
    \/ \E p \in Procs : StopProcess(p) \/ LoseSession(p)
    \/ \E p \in Runtimes : FindDivergence(p)
    \/ LockExpires \/ RedisLosesState

RecoveryNext ==
    \/ \E p \in Runtimes : RuntimeStep(p)
    \/ \E o \in Operators : OperatorStep(o) \/ Apply(o)
    \/ \E x \in Tasks : TaskStep(x)
    \/ OrphanLockExpires
    \/ Fault

RecoverySpec == RecoveryInit /\ [][RecoveryNext]_vars

\* What runs by itself keeps running: the runtimes' loops, publish attempts and
\* admissions with a deadline, and the expiry of a lock nobody renews.
RuntimeFairness ==
    /\ \A p \in Runtimes : WF_vars(RuntimeStep(p))
    /\ \A x \in Tasks : WF_vars(FinishPublish(x)) /\ WF_vars(LeaveAdmission(x))
    /\ WF_vars(OrphanLockExpires)

RecoveryLiveSpec == RecoverySpec /\ RuntimeFairness

\* An operator who reruns the command whenever it ended.
RecoveryRerunSpec ==
    RecoveryLiveSpec /\ \A o \in Operators : WF_vars(OperatorStep(o) \/ Apply(o))

(***************************************************************************)
(* Properties.                                                              *)
(***************************************************************************)

\* The step that makes the resource READY finds it rebuilt: every claim that is
\* still running holds a stable reservation (unless its worker claimed it after
\* its reservation was gone), every tenant with a message that was in its queue
\* throughout the last pass and since is in the ring (a delivery that was held
\* meanwhile the pass could not see: the reconciler of READY is to find it), and
\* nothing of the old epoch is left.  FinishRecovery itself only looks at marks,
\* which a fenced-off owner and a rebuild restarted over another's progress
\* must not falsify.
ReadyIsRebuilt ==
    [][control.state = "RECOVERING" /\ control'.state = "READY" =>
         /\ In("running") \ late \subseteq stable
         /\ TenantsOf(In("published") \ (held \cup returned)) \subseteq active \cap known
         /\ TenantsOf(In("running")) \ TenantsOf(late) \subseteq known
         /\ provisional = {}]_vars

\* A NORMAL recovery never begins over an unfinished special operation, although
\* the MySQL start fence and the Redis lock can each be lost between the last
\* look at the journal and the script.
NormalYieldsToJournal ==
    [][control'.kind = "NORMAL" /\ control'.epoch # control.epoch =>
         journal.phase \notin {"ACTIVE", "READY_COMMITTED"}]_vars

\* READY and the journal agree: no gate can open while an operation is ACTIVE,
\* and after READY_COMMITTED only by that operation's own finish.
JournalGuardsReady ==
    control.state = "READY" =>
        /\ journal.phase # "ACTIVE"
        /\ journal.phase = "READY_COMMITTED" => control.last = journal.op

\* As long as Redis keeps its state: while it is in FORCE_REBUILD the journal
\* holds the same operation, not completed and not behind the delete marker, so
\* that rerunning the command is accepted by forceStartAllowed
\* (recovery_operators.go 813-852).
ForceIsResumable ==
    control.kind = "FORCE_REBUILD" /\ ~faults.lost =>
        /\ journal.phase \in {"ACTIVE", "READY_COMMITTED"} /\ journal.op = control.op
        /\ ~MarkerAhead

\* The rebuild of another owner left marks that a rebuild from cycle 1 cannot
\* repeat.
MarksPastFirstCycle ==
    \E q \in Passes : progress.mark[q].cycle > 1 \/ progress.mark[q].diff > 0

NoOperators == \A o \in Operators : run[o].pc = "away"

\* Where no operator takes part the resource becomes READY again and again,
\* whatever stops, unless a NORMAL rebuild was interrupted after it had marked
\* more than the first clean cycle.
ReadyUnlessLateInterruption ==
    NoOperators => []<>Ready \/ <>[]MarksPastFirstCycle

\* An interrupted NORMAL rebuild can be rerun from the start: the resource
\* becomes READY again and again.
InterruptedRecoveryReruns == []<>Ready

\* A FORCE_REBUILD that began ends in READY when an interrupted command is
\* rerun, unless it was interrupted after more than the first clean cycle.
ForceUnlessLateInterruption ==
    (control.kind = "FORCE_REBUILD" ~> Ready) \/ <>[]MarksPastFirstCycle
===============================================================================
