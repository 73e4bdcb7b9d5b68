----------------------------- MODULE FairScheduler -----------------------------
(***************************************************************************)
(* The loops that share one fair-queue resource: scheduler loops, each with  *)
(* the worker it hands a delivery to (scheduler.go runOne, runtime.go       *)
(* executeWorker), a dispatcher (dispatcher.go dispatchCandidate) and a     *)
(* READY reconciler (recovery.go ReconcileReady).  They meet in Redis       *)
(* (FairCoordinator), in the tenants' Rabbit queues (ready) and in the      *)
(* canonical MySQL rows, of which only the dispatch status is kept here.    *)
(*                                                                         *)
(* Every Redis script, Rabbit call and MySQL transaction is a step of its   *)
(* own: other processes run, time passes and the process may die between    *)
(* any two of them.                                                         *)
(***************************************************************************)
EXTENDS FairCoordinator

CONSTANTS
    Procs,          \* scheduler processes, one attempt (permit) each
    Tasks,
    TenantOf,       \* [Tasks -> Tenants]
    MaxCopies,      \* bound on copies of one task's message
    MaxClaims,      \* retry budget: claims of one task
    Bounds          \* what the runs bound; a behaviour has one of these records:
                    \*   tasks      the tasks that are not done yet
                    \*   crashes    process crashes
                    \*   deferrals  negative outcomes: NACKs, timeouts, lost replies
                    \*   redundant  EnsureActive calls for tenants already active
                    \*   passes     passes over the stable reservations; the later
                    \*              ones are those that find a token without a claim

\* A delivery names a task and the dispatch generation it was published for.
Message == Tasks \X (1..MaxClaims + 1)

ASSUME SchedulerAssumption ==
    /\ IsFiniteSet(Procs)
    /\ None \notin Attempts \cup Message \cup Turn
    /\ TenantOf \in [Tasks -> Tenants]
    /\ Message \subseteq Stables
    /\ {MaxCopies, MaxClaims} \subseteq Nat
    /\ Bounds \subseteq [tasks : SUBSET Tasks, crashes : Nat, deferrals : Nat,
                        redundant : Nat, passes : Nat]

VARIABLES
    status,         \* [Tasks -> {"pending", "dispatched", "claimed", "done", "failed"}]
    claims,         \* [Tasks -> Nat]: claim_generation
    ready,          \* [Message -> Nat]: ready copies in the tenant's queue
    gate,           \* [Procs -> BOOLEAN]: the local admission gate
    pub,            \* the dispatcher's publish in progress
    slot,           \* [Procs -> scheduler/worker state]
    recon,          \* the reconciler: what it has read and not yet acted on
    faults,         \* counters, and the bounds of this behaviour
    lost            \* auxiliary: what a failed call or a dead process left undone

ownVars == <<status, claims, ready, gate, pub, slot, recon, faults, lost>>
vars == <<coordVars, ownVars>>

PubIdle == [pc |-> "idle", msg |-> None]
\* The publisher gate is closed.
PubClosed == [pc |-> "closed", msg |-> None]
SlotIdle == [pc |-> "idle", tenant |-> None, turn |-> None, attempt |-> None,
             msg |-> None, hasReady |-> FALSE]

ReconIdle == [pc |-> "idle", tenant |-> None, canonical |-> {}, redis |-> {}]

SlotPCs == {"idle", "turn", "granted", "emptyGet", "depth", "rotate", "release",
            "prepare", "nacked", "bind", "bound", "running", "finished"}

Statuses == {"pending", "dispatched", "claimed", "done", "failed"}

SchedulerTypeOK ==
    /\ status \in [Tasks -> Statuses]
    /\ claims \in [Tasks -> 0..MaxClaims]
    /\ ready \in [Message -> 0..MaxCopies]
    /\ gate \in [Procs -> BOOLEAN]
    /\ pub \in [pc : {"idle", "published", "marked", "closed"}, msg : Message \cup {None}]
    /\ \A p \in Procs :
         /\ slot[p].pc \in SlotPCs
         /\ slot[p].tenant \in Tenants \cup {None}
         /\ slot[p].turn \in Turn \cup {None}
         /\ slot[p].attempt \in Attempts \cup {None}
         /\ slot[p].msg \in Message \cup {None}
         /\ slot[p].hasReady \in BOOLEAN
    /\ recon \in [pc : {"idle", "activate", "running", "stable"},
                  tenant : Tenants \cup {None},
                  canonical : SUBSET Message, redis : SUBSET Message]
    /\ faults.bound \in Bounds
    /\ \A c \in {"crashes", "deferrals", "redundant", "passes"} :
         faults[c] \in 0..faults.bound[c]
    /\ lost \in [activations : SUBSET Tenants, releases : SUBSET (Attempts \cup Message)]

Init ==
    /\ CoordinatorInit
    /\ \E b \in Bounds :
         /\ faults = [crashes |-> 0, deferrals |-> 0, redundant |-> 0, passes |-> 0, bound |-> b]
         /\ status = [k \in Tasks |-> IF k \in b.tasks THEN "pending" ELSE "done"]
    /\ claims = [k \in Tasks |-> 0]
    /\ ready = [m \in Message |-> 0]
    /\ gate = [p \in Procs |-> TRUE]
    /\ pub = PubIdle
    /\ slot = [p \in Procs |-> SlotIdle]
    /\ recon = ReconIdle
    /\ lost = [activations |-> {}, releases |-> {}]

(***************************************************************************)
(* Helpers.                                                                 *)
(***************************************************************************)
TasksOf(t) == {k \in Tasks : TenantOf[k] = t}
HasReady(t) == \E m \in Message : TenantOf[m[1]] = t /\ ready[m] > 0

Unacked(p) ==
    slot[p].msg # None /\ slot[p].pc \in {"depth", "rotate", "prepare", "bind", "bound"}
Copies(m) == ready[m] + Cardinality({p \in Procs : Unacked(p) /\ slot[p].msg = m})

\* dispatch_generation: one more than claim_generation until the row is claimed.
Current(k) == <<k, claims[k] + 1>>
\* The delivery the row waits for; its claim sets claim_generation to its
\* generation, so that the message also names the stable reservation.
Claimable(m) == status[m[1]] \in {"pending", "dispatched"} /\ m = Current(m[1])

Goto(p, pc) == slot' = [slot EXCEPT ![p].pc = pc]
Idle(p) == slot' = [slot EXCEPT ![p] = SlotIdle]
\* reportCoordinationFailure: a corrupt, invalid or fenced answer closes the gate.
CloseGate(p) == gate' = [gate EXCEPT ![p] = FALSE]

\* One of the bounded negative outcomes.
Deferral ==
    /\ faults.deferrals < faults.bound.deferrals
    /\ faults' = [faults EXCEPT !.deferrals = @ + 1]

\* An activation of t makes up for the ones that were lost.
Activated(t) == lost' = [lost EXCEPT !.activations = @ \ {t}]

\* The activation of t will not happen.
ActivationLost(t) == lost' = [lost EXCEPT !.activations = @ \cup {t}]

\* Nobody will release these tokens: the reservations they have expire.
LeftBehind(tokens) == tokens \cap {r.token : r \in reservations}

\* What is left behind now expires before the bounded time ends.
TimeToExpire ==
    \A ttl \in {ProcessingTurnTTL, ProvisionalTTL, ReservationTTL} : now + ttl <= MaxTime

\* The tokens that nothing holds: a token is 128 random bits, so which of them is
\* drawn is immaterial.  A step that needs one waits until there is one; the runs
\* have enough of them for that never to happen.
FreshTurnTokens ==
    {x \in TurnTokens :
        TurnsOf(x) = {} /\ \A p \in Procs : slot[p].turn = None \/ slot[p].turn.token # x}
FreshAttempts ==
    {a \in Attempts :
        /\ a \notin lost.releases
        /\ \A r \in reservations : r.token # a
        /\ \A p \in Procs : slot[p].attempt # a}

FreshTurnToken == CHOOSE x \in FreshTurnTokens : TRUE
FreshAttempt == CHOOSE a \in FreshAttempts : TRUE

(***************************************************************************)
(* Dispatcher: publish with confirm, CAS-mark the row, activate the tenant. *)
(***************************************************************************)
PublishMandatoryConfirmed(k) ==
    /\ pub = PubIdle
    /\ status[k] = "pending"
    /\ Copies(Current(k)) < MaxCopies
    /\ ready' = [ready EXCEPT ![Current(k)] = @ + 1]
    /\ pub' = [pc |-> "published", msg |-> Current(k)]
    /\ UNCHANGED <<coordVars, status, claims, gate, slot, recon, faults, lost>>

\* The CAS on the generation fails when the delivery was claimed first; the
\* tenant is activated in both cases.
MarkDispatched ==
    /\ pub.pc = "published"
    /\ status' = [status EXCEPT ![pub.msg[1]] =
                     IF Claimable(pub.msg) THEN "dispatched" ELSE @]
    /\ pub' = [pub EXCEPT !.pc = "marked"]
    /\ UNCHANGED <<coordVars, claims, ready, gate, slot, recon, faults, lost>>

\* The row keeps its state, the tenant is activated all the same.
MarkFailed ==
    /\ pub.pc = "published"
    /\ Deferral
    /\ pub' = [pub EXCEPT !.pc = "marked"]
    /\ UNCHANGED <<coordVars, status, claims, ready, gate, slot, recon, lost>>

ActivateAfterPublish ==
    /\ pub.pc = "marked"
    /\ Activate(TenantOf[pub.msg[1]])
    /\ Activated(TenantOf[pub.msg[1]])
    /\ pub' = PubIdle
    /\ UNCHANGED <<status, claims, ready, gate, slot, recon, faults>>

\* The activation fails, or its reply is lost: the message stays where it is, the
\* publisher gate closes.
ActivateAfterPublishFailed ==
    LET t == TenantOf[pub.msg[1]] IN
    /\ pub.pc = "marked"
    /\ Deferral
    /\ \/ Activate(t) /\ Activated(t)
       \/ ActivationLost(t) /\ UNCHANGED coordVars
    /\ pub' = PubClosed
    /\ UNCHANGED <<status, claims, ready, gate, slot, recon>>

\* The supervisor opens the resource again.
OpenPublisherGate ==
    /\ pub = PubClosed
    /\ pub' = PubIdle
    /\ UNCHANGED <<coordVars, status, claims, ready, gate, slot, recon, faults, lost>>

\* The bound on the copies has room for the next attempt.
PublishesAgain == pub.pc = "published" /\ Copies(pub.msg) < MaxCopies

\* The publish attempt's deadline passes between the confirm and the mark.
PublishAttemptExpired ==
    /\ PublishesAgain
    /\ Deferral
    /\ pub' = PubIdle
    /\ UNCHANGED <<coordVars, status, claims, ready, gate, slot, recon, lost>>

(***************************************************************************)
(* Scheduler attempt.                                                       *)
(***************************************************************************)
SchedulerNextTurn(p) ==
    /\ gate[p]
    /\ slot[p].pc = "idle"
    /\ FreshTurnTokens # {}
    /\ NextTurn(FreshTurnToken)
    /\ LET granted == turns' \ turns IN
       slot' = [slot EXCEPT ![p] =
                  IF granted = {} THEN SlotIdle
                  ELSE LET u == CHOOSE x \in granted : TRUE IN
                       [SlotIdle EXCEPT !.pc = "turn", !.tenant = u.tenant, !.turn = u]]
    /\ UNCHANGED <<status, claims, ready, gate, pub, recon, faults, lost>>

\* The reply is lost: a turn that was given is left to expire.
SchedulerNextTurnLost(p) ==
    /\ gate[p]
    /\ slot[p].pc = "idle"
    /\ Deferral
    /\ TimeToExpire
    /\ FreshTurnTokens # {}
    /\ NextTurn(FreshTurnToken)
    /\ CloseGate(p)
    /\ UNCHANGED <<status, claims, ready, pub, slot, recon, lost>>

\* Mutant: an empty get keeps its provisional reservation.
KeepReservation(p) ==
    /\ slot[p].pc = "emptyGet"
    /\ slot' = [slot EXCEPT ![p].pc = "depth", ![p].attempt = None]
    /\ UNCHANGED <<coordVars, status, claims, ready, gate, pub, recon, faults, lost>>

\* Denied: rotate with hasReady.  Corrupt: close the gate, rotate, release.
SchedulerAcquire(p) ==
    LET t == slot[p].tenant  a == FreshAttempt IN
    /\ slot[p].pc = "turn"
    /\ FreshAttempts # {}
    /\ \/ /\ AcquireCorrupt(t)
          /\ CloseGate(p)
          /\ slot' = [slot EXCEPT ![p].pc = "rotate", ![p].hasReady = TRUE, ![p].attempt = a]
          /\ UNCHANGED coordVars
       \/ /\ AcquireProvisional(t, a)
          /\ slot' = [slot EXCEPT ![p] =
                        IF \E r \in reservations' : r.token = a
                          THEN [@ EXCEPT !.pc = "granted", !.attempt = a]
                          ELSE [@ EXCEPT !.pc = "rotate", !.hasReady = TRUE]]
          /\ UNCHANGED gate
    /\ UNCHANGED <<status, claims, ready, pub, recon, faults, lost>>

\* The reply of the script is lost: the reservation may exist, so it is released
\* after the rotate.
SchedulerAcquireLost(p) ==
    LET a == FreshAttempt IN
    /\ slot[p].pc = "turn"
    /\ Deferral
    /\ FreshAttempts # {}
    /\ AcquireProvisional(slot[p].tenant, a) \/ UNCHANGED coordVars
    /\ CloseGate(p)
    /\ slot' = [slot EXCEPT ![p].pc = "rotate", ![p].hasReady = TRUE, ![p].attempt = a]
    /\ UNCHANGED <<status, claims, ready, pub, recon, lost>>

SchedulerGetOne(p) ==
    /\ slot[p].pc = "granted"
    /\ \/ \E m \in Message :
            /\ TenantOf[m[1]] = slot[p].tenant
            /\ ready[m] > 0
            /\ ready' = [ready EXCEPT ![m] = @ - 1]
            /\ slot' = [slot EXCEPT ![p].pc = "depth", ![p].msg = m]
       \/ /\ ~HasReady(slot[p].tenant)
          /\ Goto(p, "emptyGet")
          /\ UNCHANGED ready
    /\ UNCHANGED <<coordVars, status, claims, gate, pub, recon, faults, lost>>

SchedulerGetFailed(p) ==
    /\ slot[p].pc = "granted"
    /\ Deferral
    /\ slot' = [slot EXCEPT ![p].pc = "rotate", ![p].hasReady = TRUE]
    /\ UNCHANGED <<coordVars, status, claims, ready, gate, pub, recon, lost>>

\* A Release that fails, or whose reply is lost, is reported and not repeated: the
\* reservation may live on until it expires.  The report closes the gate unless it
\* was the deadline that ended the call.
ReleaseFails(p, token) ==
    /\ Deferral
    /\ TimeToExpire
    /\ \/ Release(slot[p].tenant, token) /\ UNCHANGED lost
       \/ /\ lost' = [lost EXCEPT !.releases = @ \cup LeftBehind({token})]
          /\ UNCHANGED coordVars
    /\ CloseGate(p) \/ UNCHANGED gate

\* An empty basic.get gives its capacity back before it looks at the depth.
InspectDepth(p) == slot' = [slot EXCEPT ![p].pc = "depth", ![p].attempt = None]

SchedulerReleaseEmpty(p) ==
    /\ slot[p].pc = "emptyGet"
    /\ Release(slot[p].tenant, slot[p].attempt)
    /\ InspectDepth(p)
    /\ UNCHANGED <<status, claims, ready, gate, pub, recon, faults, lost>>

SchedulerReleaseEmptyFailed(p) ==
    /\ slot[p].pc = "emptyGet"
    /\ ReleaseFails(p, slot[p].attempt)
    /\ InspectDepth(p)
    /\ UNCHANGED <<status, claims, ready, pub, recon>>

SchedulerReadyDepth(p) ==
    /\ slot[p].pc = "depth"
    /\ slot' = [slot EXCEPT ![p].pc = "rotate", ![p].hasReady = HasReady(slot[p].tenant)]
    /\ UNCHANGED <<coordVars, status, claims, ready, gate, pub, recon, faults, lost>>

\* A failed depth call counts as "has messages".
SchedulerDepthFailed(p) ==
    /\ slot[p].pc = "depth"
    /\ Deferral
    /\ slot' = [slot EXCEPT ![p].pc = "rotate", ![p].hasReady = TRUE]
    /\ UNCHANGED <<coordVars, status, claims, ready, gate, pub, recon, lost>>

\* The turn is over; a delivery in hand goes to the worker whatever the rotate said.
TurnSettled(p) ==
    slot' = [slot EXCEPT ![p] =
               IF @.attempt = None THEN SlotIdle
               ELSE [@ EXCEPT !.pc = IF slot[p].msg = None THEN "release" ELSE "prepare",
                              !.turn = None, !.hasReady = FALSE]]

\* A turn that expired in the meantime is refused (ErrFenceMismatch) and closes
\* the gate.
SchedulerRotate(p) ==
    /\ slot[p].pc = "rotate"
    /\ \/ RotateOrDeactivate(slot[p].turn, slot[p].hasReady) /\ UNCHANGED gate
       \/ ~RotateValid(slot[p].turn) /\ CloseGate(p) /\ UNCHANGED coordVars
    /\ TurnSettled(p)
    /\ UNCHANGED <<status, claims, ready, pub, recon, faults, lost>>

\* The rotate fails or its reply is lost: the turn may be left to the reaper.
SchedulerRotateLost(p) ==
    /\ slot[p].pc = "rotate"
    /\ Deferral
    /\ TimeToExpire
    /\ RotateOrDeactivate(slot[p].turn, slot[p].hasReady) \/ UNCHANGED coordVars
    /\ CloseGate(p)
    /\ TurnSettled(p)
    /\ UNCHANGED <<status, claims, ready, pub, recon, lost>>

(***************************************************************************)
(* Worker: canonical Prepare, bind, ack, run.                               *)
(***************************************************************************)
\* Mutant: the retry budget is not looked at.
ClaimOverBudget(p) ==
    LET k == slot[p].msg[1] IN
    /\ slot[p].pc = "prepare"
    /\ Claimable(slot[p].msg)
    /\ status' = [status EXCEPT ![k] = "claimed"]
    /\ claims' = [claims EXCEPT ![k] = @ + 1]
    /\ Goto(p, "bind")
    /\ UNCHANGED <<coordVars, ready, gate, pub, recon, faults, lost>>

PrepareClaimed(p) ==
    LET k == slot[p].msg[1] IN
    /\ slot[p].pc = "prepare"
    /\ Claimable(slot[p].msg)
    /\ claims[k] < MaxClaims
    /\ status' = [status EXCEPT ![k] = "claimed"]
    /\ claims' = [claims EXCEPT ![k] = @ + 1]
    /\ Goto(p, "bind")
    /\ UNCHANGED <<coordVars, ready, gate, pub, recon, faults, lost>>

\* The retry budget is spent: the row becomes FAILED, acknowledge and release.
PrepareTerminal(p) ==
    LET k == slot[p].msg[1] IN
    /\ slot[p].pc = "prepare"
    /\ Claimable(slot[p].msg)
    /\ claims[k] = MaxClaims
    /\ status' = [status EXCEPT ![k] = "failed"]
    /\ slot' = [slot EXCEPT ![p].pc = "release", ![p].msg = None]
    /\ UNCHANGED <<coordVars, claims, ready, gate, pub, recon, faults, lost>>

\* A copy of a task that is no longer claimable: acknowledge and release.
PrepareDuplicateStale(p) ==
    /\ slot[p].pc = "prepare"
    /\ ~Claimable(slot[p].msg)
    /\ slot' = [slot EXCEPT ![p].pc = "release", ![p].msg = None]
    /\ UNCHANGED <<coordVars, status, claims, ready, gate, pub, recon, faults, lost>>

\* Capacity deferred or transient failure: requeue, reactivate, release.
PrepareNackRequeue(p) ==
    /\ slot[p].pc = "prepare"
    /\ Deferral
    /\ ready' = [ready EXCEPT ![slot[p].msg] = @ + 1]
    /\ slot' = [slot EXCEPT ![p].pc = "nacked", ![p].msg = None]
    /\ UNCHANGED <<coordVars, status, claims, gate, pub, recon, lost>>

\* Mutant: a requeued message does not activate its tenant.
ReleaseAfterNack(p) ==
    /\ slot[p].pc = "nacked"
    /\ Goto(p, "release")
    /\ UNCHANGED <<coordVars, status, claims, ready, gate, pub, recon, faults, lost>>

EnsureActiveAfterNack(p) ==
    /\ slot[p].pc = "nacked"
    /\ Activate(slot[p].tenant)
    /\ Activated(slot[p].tenant)
    /\ Goto(p, "release")
    /\ UNCHANGED <<status, claims, ready, gate, pub, recon, faults>>

\* The activation fails or its reply is lost: the worker goes on to the release.
EnsureActiveFailed(p) ==
    /\ slot[p].pc = "nacked"
    /\ Deferral
    /\ \/ Activate(slot[p].tenant) /\ Activated(slot[p].tenant)
       \/ ActivationLost(slot[p].tenant) /\ UNCHANGED coordVars
    /\ CloseGate(p) \/ UNCHANGED gate
    /\ Goto(p, "release")
    /\ UNCHANGED <<status, claims, ready, pub, recon>>

\* A worker that failed after its claim goes on to release the stable token too.
ProvisionalSettled(p) == IF slot[p].msg = None THEN Idle(p) ELSE Goto(p, "finished")

ReleaseProvisional(p) ==
    /\ slot[p].pc = "release"
    /\ Release(slot[p].tenant, slot[p].attempt)
    /\ ProvisionalSettled(p)
    /\ UNCHANGED <<status, claims, ready, gate, pub, recon, faults, lost>>

ReleaseProvisionalFailed(p) ==
    /\ slot[p].pc = "release"
    /\ ReleaseFails(p, slot[p].attempt)
    /\ ProvisionalSettled(p)
    /\ UNCHANGED <<status, claims, ready, pub, recon>>

\* A provisional that expired, or a stable token that is already there, cannot be
\* bound: the gate closes, the delivery is acknowledged, both tokens are released
\* and the claim is left to its lease.
WorkerBind(p) ==
    LET t == slot[p].tenant  a == slot[p].attempt  s == slot[p].msg IN
    /\ slot[p].pc = "bind"
    /\ \/ /\ BindReservation(t, a, s)
          /\ Goto(p, "bound")
          /\ UNCHANGED gate
       \/ /\ BindReplayed(t, a, s)
          /\ Goto(p, "bound")
          /\ UNCHANGED <<coordVars, gate>>
       \/ /\ BindCorrupt(a, s) \/ ~\E r \in Live : r.token \in {a, s}
          /\ CloseGate(p)
          /\ Goto(p, "release")
          /\ UNCHANGED coordVars
    /\ UNCHANGED <<status, claims, ready, pub, recon, faults, lost>>

\* The reply of the script is lost: both names are released.
WorkerBindLost(p) ==
    /\ slot[p].pc = "bind"
    /\ Deferral
    /\ BindReservation(slot[p].tenant, slot[p].attempt, slot[p].msg) \/ UNCHANGED coordVars
    /\ CloseGate(p)
    /\ Goto(p, "release")
    /\ UNCHANGED <<status, claims, ready, pub, recon, lost>>

\* The prepare deadline passes after the claim: acknowledge and release what is
\* held; the claim is left to its lease.
WorkerAbandon(p) ==
    /\ slot[p].pc \in {"bind", "bound"}
    /\ Deferral
    /\ slot' = [slot EXCEPT ![p].pc = "release",
                           ![p].msg = IF slot[p].pc = "bind" THEN None ELSE @]
    /\ UNCHANGED <<coordVars, status, claims, ready, gate, pub, recon, lost>>

WorkerAck(p) ==
    /\ slot[p].pc = "bound"
    /\ slot' = [slot EXCEPT ![p].pc = "running", ![p].attempt = None]
    /\ UNCHANGED <<coordVars, status, claims, ready, gate, pub, recon, faults, lost>>

\* The heartbeat of a running task; a reservation that is gone closes the gate.
WorkerRenew(p) ==
    /\ slot[p].pc = "running"
    /\ gate[p]
    /\ \/ RenewStable(slot[p].tenant, slot[p].msg) /\ UNCHANGED gate
       \/ /\ ~\E r \in Live : r.token = slot[p].msg
          /\ CloseGate(p)
          /\ UNCHANGED coordVars
    /\ UNCHANGED <<status, claims, ready, pub, slot, recon, faults, lost>>

WorkerFinish(p) ==
    /\ slot[p].pc = "running"
    /\ status' = [status EXCEPT ![slot[p].msg[1]] = "done"]
    /\ Goto(p, "finished")
    /\ UNCHANGED <<coordVars, claims, ready, gate, pub, recon, faults, lost>>

\* The run fails with a transient error: the row waits for its next generation.
WorkerRunFailed(p) ==
    /\ slot[p].pc = "running"
    /\ Deferral
    /\ status' = [status EXCEPT ![slot[p].msg[1]] = "pending"]
    /\ Goto(p, "finished")
    /\ UNCHANGED <<coordVars, claims, ready, gate, pub, recon, lost>>

ReleaseStable(p) ==
    /\ slot[p].pc = "finished"
    /\ Release(slot[p].tenant, slot[p].msg)
    /\ Idle(p)
    /\ UNCHANGED <<status, claims, ready, gate, pub, recon, faults, lost>>

ReleaseStableFailed(p) ==
    /\ slot[p].pc = "finished"
    /\ ReleaseFails(p, slot[p].msg)
    /\ Idle(p)
    /\ UNCHANGED <<status, claims, ready, pub, recon>>

(***************************************************************************)
(* Reconciler: reactivate the tenants of dispatched rows that have ready    *)
(* messages (reconcileReadyDispatched), correct the stable reservations     *)
(* (reconcileReadyStable), reap, reopen the gate.                           *)
(***************************************************************************)
\* Mutant: the reconciler lists the undispatched rows.
ReconcileUndispatched(t) ==
    /\ recon = ReconIdle
    /\ \E k \in TasksOf(t) : status[k] = "pending"
    /\ HasReady(t)
    /\ t \notin active
    /\ recon' = [ReconIdle EXCEPT !.pc = "activate", !.tenant = t]
    /\ UNCHANGED <<coordVars, status, claims, ready, gate, pub, slot, faults, lost>>

ReconcileReadyDepth(t) ==
    /\ recon = ReconIdle
    /\ \E k \in TasksOf(t) : status[k] = "dispatched"
    /\ HasReady(t)
    /\ t \in active => faults.redundant < faults.bound.redundant
    /\ faults' = [faults EXCEPT !.redundant = IF t \in active THEN @ + 1 ELSE @]
    /\ recon' = [ReconIdle EXCEPT !.pc = "activate", !.tenant = t]
    /\ UNCHANGED <<coordVars, status, claims, ready, gate, pub, slot, lost>>

ReconcileEnsureActive ==
    /\ recon.pc = "activate"
    /\ Activate(recon.tenant)
    /\ Activated(recon.tenant)
    /\ recon' = ReconIdle
    /\ UNCHANGED <<status, claims, ready, gate, pub, slot, faults>>

Running == {<<k, claims[k]>> : k \in {j \in Tasks : status[j] = "claimed"}}
StableTokens == {r.token : r \in {q \in reservations : ~Provisional(q)}}

\* First all valid RUNNING claims, from MySQL.
ReconcileListRunning ==
    /\ recon = ReconIdle
    /\ faults.bound.passes > 0
    /\ faults.passes < faults.bound.passes \/ ~(StableTokens \subseteq Running)
    /\ faults' = [faults EXCEPT !.passes = Smaller(@ + 1, faults.bound.passes)]
    /\ recon' = [ReconIdle EXCEPT !.pc = "running", !.canonical = Running]
    /\ UNCHANGED <<coordVars, status, claims, ready, gate, pub, slot, lost>>

\* Then the stable tokens in Redis.
ReconcileListStable ==
    /\ recon.pc = "running"
    /\ recon' = IF Cardinality(StableTokens) > GlobalConcurrency THEN ReconIdle
                ELSE [recon EXCEPT !.pc = "stable", !.redis = StableTokens]
    /\ UNCHANGED <<coordVars, status, claims, ready, gate, pub, slot, faults, lost>>

Orphans == recon.redis \ recon.canonical

\* Tokens without a claim are released,
ReconcileRelease ==
    /\ recon.pc = "stable"
    /\ \E m \in Orphans :
         /\ Release(TenantOf[m[1]], m)
         /\ recon' = [recon EXCEPT !.redis = @ \ {m}]
    /\ UNCHANGED <<status, claims, ready, gate, pub, slot, faults, lost>>

\* then every claim's token is written.
ReconcileEnsureStable ==
    /\ recon.pc = "stable"
    /\ Orphans = {}
    /\ \/ \E m \in recon.canonical :
            /\ EnsureReadyStableInflight(TenantOf[m[1]], m)
            /\ recon' = [recon EXCEPT !.redis = @ \ {m}, !.canonical = @ \ {m}]
       \/ recon.canonical = {} /\ recon' = ReconIdle /\ UNCHANGED coordVars
    /\ UNCHANGED <<status, claims, ready, gate, pub, slot, faults, lost>>

ReconcileReap ==
    /\ ExpiredTurns # {} \/ ExpiredProvisionals # {}
    /\ ReapExpiredTurnsAndProvisionals
    /\ UNCHANGED ownVars

\* OpenResource refuses while an attempt is still preparing.
OpenResource(p) ==
    /\ ~gate[p]
    /\ slot[p].pc \in {"idle", "running", "finished"} /\ slot[p].attempt = None
    /\ gate' = [gate EXCEPT ![p] = TRUE]
    /\ UNCHANGED <<coordVars, status, claims, ready, pub, slot, recon, faults, lost>>

(***************************************************************************)
(* Lease expiry, crash, time.                                               *)
(***************************************************************************)
\* Mutant: the sweeper re-arms the rows that are held, not the abandoned ones.
RearmHeld(k) ==
    /\ status[k] = "claimed"
    /\ \E p \in Procs : slot[p].msg = <<k, claims[k]>> /\ slot[p].pc \in {"bind", "bound"}
    /\ status' = [status EXCEPT ![k] = "pending"]
    /\ UNCHANGED <<coordVars, claims, ready, gate, pub, slot, recon, faults, lost>>

\* A claimed task that no live worker runs is re-armed when its lease expires.
RearmExpired(k) ==
    /\ status[k] = "claimed"
    /\ ~\E p \in Procs : slot[p].msg = <<k, claims[k]>> /\ slot[p].pc \in {"bind", "bound", "running"}
    /\ status' = [status EXCEPT ![k] = "pending"]
    /\ UNCHANGED <<coordVars, claims, ready, gate, pub, slot, recon, faults, lost>>

\* The broker requeues what the dead process had not acknowledged; Redis keeps
\* its turn and reservation until they expire.
Crash(p) ==
    /\ faults.crashes < faults.bound.crashes
    /\ slot[p] # SlotIdle
    /\ TimeToExpire
    /\ faults' = [faults EXCEPT !.crashes = @ + 1]
    /\ ready' = IF Unacked(p) THEN [ready EXCEPT ![slot[p].msg] = @ + 1] ELSE ready
    /\ lost' = [activations |-> lost.activations \cup
                   IF Unacked(p) \/ slot[p].pc = "nacked" THEN {slot[p].tenant} ELSE {},
                releases |-> lost.releases \cup LeftBehind({slot[p].attempt, slot[p].msg})]
    /\ Idle(p)
    /\ CloseGate(p)
    /\ UNCHANGED <<coordVars, status, claims, pub, recon>>

\* The dispatcher dies after the broker confirmed the message.  A row that is not
\* marked yet is published again; of a marked one only the activation is lost.
DispatcherCrash ==
    /\ faults.crashes < faults.bound.crashes
    /\ PublishesAgain \/ pub.pc = "marked"
    /\ faults' = [faults EXCEPT !.crashes = @ + 1]
    /\ IF pub.pc = "marked" THEN ActivationLost(TenantOf[pub.msg[1]]) ELSE UNCHANGED lost
    /\ pub' = PubIdle
    /\ UNCHANGED <<coordVars, status, claims, ready, gate, slot, recon>>

TimePasses == Tick /\ UNCHANGED ownVars

\* The rest of a stable pass once it has begun.
ReconcileStablePass == ReconcileListStable \/ ReconcileRelease \/ ReconcileEnsureStable

\* The steps of one scheduler attempt that do not depend on a failure.
Attempt(p) ==
    \/ SchedulerAcquire(p) \/ SchedulerGetOne(p) \/ SchedulerReleaseEmpty(p)
    \/ SchedulerReadyDepth(p) \/ SchedulerRotate(p)
    \/ PrepareClaimed(p) \/ PrepareTerminal(p) \/ PrepareDuplicateStale(p)
    \/ EnsureActiveAfterNack(p) \/ ReleaseProvisional(p)
    \/ WorkerBind(p) \/ WorkerAck(p) \/ WorkerFinish(p) \/ ReleaseStable(p)

Next ==
    \/ \E k \in Tasks : PublishMandatoryConfirmed(k)
    \/ MarkDispatched \/ MarkFailed \/ ActivateAfterPublish \/ ActivateAfterPublishFailed
    \/ PublishAttemptExpired \/ OpenPublisherGate \/ DispatcherCrash
    \/ \E p \in Procs :
         \/ SchedulerNextTurn(p) \/ Attempt(p)
         \/ SchedulerNextTurnLost(p) \/ SchedulerAcquireLost(p)
         \/ SchedulerGetFailed(p) \/ SchedulerDepthFailed(p) \/ WorkerRunFailed(p)
         \/ SchedulerReleaseEmptyFailed(p) \/ SchedulerRotateLost(p)
         \/ PrepareNackRequeue(p) \/ EnsureActiveFailed(p)
         \/ WorkerBindLost(p) \/ WorkerAbandon(p)
         \/ ReleaseProvisionalFailed(p) \/ ReleaseStableFailed(p)
         \/ WorkerRenew(p) \/ OpenResource(p) \/ Crash(p)
    \/ \E t \in Tenants : ReconcileReadyDepth(t)
    \/ ReconcileEnsureActive
    \/ ReconcileListRunning \/ ReconcileStablePass
    \/ ReconcileReap
    \/ \E k \in Tasks : RearmExpired(k)
    \/ TimePasses

Spec == Init /\ [][Next]_vars

\* Every loop keeps running: a live process continues its attempt and its
\* publish, leases expire, the reconciler comes back, and time passes.  A
\* closed gate is reopened and the scheduler loop polls far more often than the
\* gate closes, hence the strong fairness of its entry step.
Fairness ==
    /\ \A p \in Procs :
         WF_vars(Attempt(p)) /\ SF_vars(SchedulerNextTurn(p)) /\ WF_vars(OpenResource(p))
    /\ WF_vars(\E k \in Tasks : PublishMandatoryConfirmed(k))
    /\ WF_vars(\E k \in Tasks : RearmExpired(k))
    /\ WF_vars(MarkDispatched \/ ActivateAfterPublish \/ OpenPublisherGate)
    /\ SF_vars((\E t \in Tenants : ReconcileReadyDepth(t)) \/ ReconcileListRunning)
    /\ WF_vars(ReconcileEnsureActive \/ ReconcileStablePass)
    /\ WF_vars(ReconcileReap) /\ WF_vars(TimePasses)

FairSpec == Spec /\ Fairness

(***************************************************************************)
(* Properties.                                                              *)
(***************************************************************************)

\* Somebody alive is on the way to activate the tenant: a dispatcher that has
\* marked its message, or a worker that has requeued.
ActivationUnderway(t) ==
    \/ pub.pc = "marked" /\ TenantOf[pub.msg[1]] = t
    \/ \E p \in Procs : slot[p].pc = "nacked" /\ slot[p].tenant = t

\* A tenant with a ready message of a dispatched task is active or about to be
\* activated, unless an activation it was owed failed or died with its process and
\* none has succeeded since (dispatcher.go 580-588, runtime.go 904-906): a scheduler
\* that saw an empty queue and deactivates the tenant never hides a message that was
\* published or requeued meanwhile (scheduler.go 371-400, the generation test of the
\* rotate script).
NoHiddenMessage ==
    \A k \in Tasks :
        ready[Current(k)] > 0 /\ status[k] = "dispatched" =>
            \/ TenantOf[k] \in active \/ ActivationUnderway(TenantOf[k])
            \/ TenantOf[k] \in lost.activations

\* As long as the reconciler has not rewritten a reservation, those that count
\* never exceed the limits, whatever expires, is purged, bound or renewed between
\* the decisions (policy.go 22-51, redis_runtime.go 461-661).
CapacityRespected ==
    faults.passes = 0 =>
        /\ Cardinality(Live) <= GlobalConcurrency
        /\ \A t \in Tenants : Cardinality(LiveOf(t)) <= PerUserBurstConcurrency

\* Every counted reservation belongs to an attempt in progress, unless the call
\* that should have released it failed or its process crashed, or the reconciler
\* rewrote it: none is left behind by an empty get, a denial, a duplicate, a
\* requeue, the lost reply of an acquire, a bind or a rotate, a failed bind, an
\* expired deadline or a finished run (scheduler.go 318-378, 412-470, runtime.go
\* 755-856).
NoReservationLeak ==
    faults.passes = 0 =>
        \A r \in Live :
            \/ r.token \in lost.releases
            \/ \E p \in Procs : slot[p].attempt = r.token \/ slot[p].msg = r.token

\* Every task is eventually done or has used up its retries, whatever crashes,
\* deferrals and expiries happen.
EveryTaskEnds == \A k \in Tasks : <>[](status[k] \in {"done", "failed"})
================================================================================
