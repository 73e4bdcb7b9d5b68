----------------------------- MODULE FairRuntime -----------------------------
(***************************************************************************)
(* The worker runtime of one process and one resource                       *)
(* (internal/fairqueue/runtime.go): the two admission gates, the permits of *)
(* the worker pool, the goroutine that serves each permit, direct           *)
(* dispatches, the fatal path and the shutdown sequence.                    *)
(*                                                                          *)
(* Redis is the reservation of each permit under the READY fence, Rabbit    *)
(* the delivery of each permit.  What the scheduler does inside its turn is *)
(* FairScheduler's, what a recovery rebuilds FairRecovery's.                *)
(***************************************************************************)
EXTENDS Integers, FiniteSets

CONSTANTS
    Permits,            \* runtimeWorkerPermits, numbered in the order of issue
    Dispatches,         \* calls of TryDispatch
    LocalWorkers,
    RuntimeScenarios    \* what a behaviour may start from: a set of records with
                        \*   permits, dispatches  the ones it may use
                        \*   stop     whether the runtime is shut down
                        \*   fatal, opens, rebuilds, expire, slow, fault
                        \*            bounds on fatal errors, gates opened again,
                        \*            rebuilds, expired prepare contexts,
                        \*            exhausted drain budgets, failed calls

ASSUME RuntimeAssumption ==
    /\ Permits \subseteq Nat /\ LocalWorkers \in Nat \ {0}
    /\ RuntimeScenarios \subseteq
         [permits : SUBSET Permits, dispatches : SUBSET Dispatches, stop : BOOLEAN,
          fatal : Nat, opens : Nat, rebuilds : Nat, expire : Nat, slow : Nat, fault : Nat]

VARIABLES
    gate,       \* gateOpen, fence and gateGeneration
    publisher,  \* gateOpen, gateGen and inFlight of the dispatcher
    opening,    \* OpenResource is between its checks and holds gateOps
    admitting,  \* tryReserveWorker has passed its first checks
    count,      \* prepareCount, slotsInUse, directCount
    permit,     \* state and snapshot of each permit, and its goroutine's locals
    delivery,   \* the Rabbit delivery of each permit
    dead,       \* deliveries copied to the dead letter queue
    token,      \* the reservation that Redis holds for each permit
    epoch,      \* the READY fence in Redis, 0 while it is rebuilt
    direct,     \* the calls of TryDispatch
    recovery,   \* the recovery loop
    cancelled,  \* runCancel was called
    stop,       \* initiateShutdown and shutdownSequence
    fatal,      \* failAuthoritativeWriter
    workStop,   \* the workers' stop channel is closed
    excused,    \* permits and calls that outlived a budget, whose release failed or
                \* came when the latest fence was not READY, or whose fence was replaced
                \* between its read and the release
    bound       \* what is left of the bounds

gateVars == <<gate, publisher, opening>>
redisVars == <<token, epoch>>
rabbitVars == <<delivery, dead>>
lifeVars == <<cancelled, stop, fatal, workStop>>
runtimeVars ==
    <<gate, publisher, opening, admitting, count, permit, delivery, dead, token, epoch,
      direct, recovery, cancelled, stop, fatal, workStop, excused, bound>>

NoBeat == 0     \* no RenewStable in flight
Unused == [pc |-> "unused", gen |-> 0, fence |-> 0, expired |-> FALSE,
           names |-> {}, cancelled |-> FALSE, beat |-> NoBeat, poison |-> FALSE]

WithoutRun == {"nack", "activate", "ackRelease", "deadLetter", "requeueDead", "release",
               "failing"}
PreparePCs == {"reserved", "queued", "prepare", "bind", "ack", "begin"} \cup WithoutRun
RunPCs == {"running", "runFatal", "ending", "releasing"}

Preparing(p) == permit[p].pc \in PreparePCs
Running(p) == permit[p].pc \in RunPCs

RuntimeTypeOK ==
    /\ gate.open \in BOOLEAN /\ gate.gen \in Nat /\ publisher.open \in BOOLEAN
    /\ permit \in [Permits -> [pc : {"unused", "finished"} \cup PreparePCs \cup RunPCs,
                               gen : Nat, fence : Nat, expired : BOOLEAN,
                               names : SUBSET {"provisional", "stable"},
                               cancelled : BOOLEAN, beat : Nat, poison : BOOLEAN]]
    /\ delivery \in [Permits -> {"none", "unacked", "acked", "requeued"}]
    /\ token \in [Permits -> {"none", "provisional", "stable"}]
    /\ count.prepare = Cardinality({p \in Permits : Preparing(p)})
    /\ count.slots = Cardinality({p \in Permits : Preparing(p) \/ Running(p)})
    /\ count.slots <= LocalWorkers
    /\ count.direct = Cardinality({d \in Dispatches : direct[d].pc \notin {"idle", "done"}})

RuntimeInit ==
    /\ bound \in RuntimeScenarios
    /\ gate = [open |-> FALSE, fence |-> 1, gen |-> 0]
    /\ publisher = [open |-> FALSE, gen |-> 0, inFlight |-> 0]
    /\ opening = FALSE /\ admitting = FALSE
    /\ count = [prepare |-> 0, slots |-> 0, direct |-> 0]
    /\ permit = [p \in Permits |-> Unused]
    /\ delivery = [p \in Permits |-> "none"] /\ dead = {}
    /\ token = [p \in Permits |-> "none"] /\ epoch = 1
    /\ direct = [d \in Dispatches |-> [pc |-> "idle", gen |-> 0]]
    /\ recovery = "closed"
    /\ cancelled = FALSE /\ stop = "no" /\ fatal = "no" /\ workStop = FALSE
    /\ excused = {}

Spend(what) == bound[what] > 0 /\ bound' = [bound EXCEPT ![what] = @ - 1]

Stopping == stop # "no" \/ fatal # "no"
Clients == stop # "closed"

(***************************************************************************)
(* The gates.  A generation counts the openings: the numbers that the code   *)
(* gives to closed gates are never compared with one that is open.          *)
(***************************************************************************)

\* closeGates, under gateOps.
CloseGates ==
    /\ ~opening
    /\ gate' = [gate EXCEPT !.open = FALSE]
    /\ publisher' = [publisher EXCEPT !.open = FALSE]
    /\ UNCHANGED opening

\* closeGatesFor: only the gate that the failure was observed under.
CloseGatesFor(fence, gen) ==
    IF gate.open /\ gate.fence = fence /\ gate.gen = gen
      THEN CloseGates
      ELSE ~opening /\ UNCHANGED gateVars

\* What a failed call does to the gates: reportCoordinationFailure closes them
\* for a coordination error, and ignores other errors and expired contexts.
Report(fence, gen) == CloseGatesFor(fence, gen) \/ UNCHANGED gateVars

\* Mutant: the publisher gate opens over attempts that are still in flight.
OpenOverPublishing ==
    /\ recovery = "opening" /\ ~opening
    /\ IF ~Stopping /\ count.prepare = 0
         THEN /\ opening' = TRUE
              /\ publisher' = [publisher EXCEPT !.open = TRUE, !.gen = @ + 1]
              /\ UNCHANGED recovery
         ELSE recovery' = "refused" /\ UNCHANGED <<opening, publisher>>
    /\ UNCHANGED <<gate, admitting, count, permit, rabbitVars, redisVars, direct, lifeVars,
                   excused, bound>>

\* OpenResource: stopping, both kinds of attempts drained, the publisher gate.
OpenBegins ==
    /\ recovery = "opening" /\ ~opening
    /\ IF ~Stopping /\ count.prepare = 0 /\ publisher.inFlight = 0
         THEN /\ opening' = TRUE
              /\ publisher' = [publisher EXCEPT !.open = TRUE, !.gen = @ + 1]
              /\ UNCHANGED recovery
         ELSE recovery' = "refused" /\ UNCHANGED <<opening, publisher>>
    /\ UNCHANGED <<gate, admitting, count, permit, rabbitVars, redisVars, direct, lifeVars,
                   excused, bound>>

\* ... and the resource's own gate, unless an attempt was admitted meanwhile.  A
\* run that has read the fence before it is replaced cannot release any more.
OpenEnds ==
    /\ opening /\ opening' = FALSE
    /\ IF count.prepare = 0
         THEN /\ gate' = [open |-> TRUE, fence |-> epoch, gen |-> gate.gen + 1]
              /\ recovery' = "open"
              /\ excused' = excused \cup {p \in Permits : /\ permit[p].pc = "releasing"
                                                        /\ permit[p].fence # epoch}
              /\ UNCHANGED publisher
         ELSE /\ publisher' = [publisher EXCEPT !.open = FALSE]
              /\ recovery' = "refused"
              /\ UNCHANGED <<gate, excused>>
    /\ UNCHANGED <<admitting, count, permit, rabbitVars, redisVars, direct, lifeVars, bound>>

(***************************************************************************)
(* The recovery loop, as far as it works the gates.                         *)
(***************************************************************************)

\* EnsureResourceReady finds READY and does not drain, or has to rebuild.
ObserveReady ==
    /\ recovery = "closed" /\ ~cancelled
    /\ \/ epoch # 0 /\ recovery' = "opening" /\ UNCHANGED bound
       \/ epoch # 0 /\ recovery' = "beginning" /\ Spend("rebuilds")
       \/ epoch = 0 /\ recovery' = "beginning" /\ UNCHANGED bound
    /\ UNCHANGED <<gateVars, admitting, count, permit, rabbitVars, redisVars, direct,
                   lifeVars, excused>>

\* BeginRecovery takes READY away, under attempts and runs that go on; the call
\* may be under way when the context ends.
BeginRebuild ==
    /\ recovery = "beginning" /\ Clients
    /\ recovery' = "draining" /\ epoch' = 0
    /\ UNCHANGED <<gateVars, admitting, count, permit, rabbitVars, token, direct, lifeVars,
                   excused, bound>>

\* DrainAttempts of the recovery: its gates are closed already.
DrainForRebuild ==
    /\ recovery = "draining" /\ ~cancelled
    /\ count.prepare = 0 /\ publisher.inFlight = 0
    /\ recovery' = "rebuilding"
    /\ UNCHANGED <<gateVars, admitting, count, permit, rabbitVars, redisVars, direct, lifeVars,
                   excused, bound>>

\* A call fails or RecoveryDrainTimeout is over: the loop begins again later.
GiveUpRebuild ==
    /\ recovery \in {"beginning", "draining", "rebuilding"}
    /\ recovery' = "refused"
    /\ UNCHANGED <<gateVars, admitting, count, permit, rabbitVars, redisVars, direct, lifeVars,
                   excused, bound>>

\* Stable reservations come back for rows that run; a task that ends meanwhile
\* may have been read before or after.
CommitRebuild ==
    /\ recovery = "rebuilding"
    /\ recovery' = "opening" /\ epoch' = gate.fence + 1
    /\ \E kept \in SUBSET {p \in Permits : permit[p].pc \in {"ending", "runFatal", "releasing"}} :
          token' = [p \in Permits |->
                      IF permit[p].pc = "running" \/ p \in kept THEN "stable" ELSE "none"]
    /\ UNCHANGED <<gateVars, admitting, count, permit, rabbitVars, direct, lifeVars,
                   excused, bound>>

\* CloseResource: after an error, and before every periodic pass.
CloseResource ==
    /\ \/ recovery = "refused" /\ UNCHANGED bound
       \/ recovery = "open" /\ Spend("opens")
    /\ ~cancelled
    /\ CloseGates
    /\ recovery' = "closed"
    /\ UNCHANGED <<admitting, count, permit, rabbitVars, redisVars, direct, lifeVars, excused>>

\* The loop leaves with its context and closes the resource behind it.
EndRecovery ==
    /\ recovery # "ended" /\ cancelled
    /\ CloseGates
    /\ recovery' = "ended"
    /\ UNCHANGED <<admitting, count, permit, rabbitVars, redisVars, direct, lifeVars,
                   excused, bound>>

(***************************************************************************)
(* Admission.                                                               *)
(***************************************************************************)
Reserved == {p \in Permits : permit[p].pc = "reserved"}

\* tryReserveWorker looks at the runtime and at the publisher gate first.
AdmitBegins ==
    /\ ~admitting /\ Reserved = {} /\ ~cancelled
    /\ ~Stopping /\ publisher.open
    /\ \E p \in bound.permits : permit[p].pc = "unused"
    /\ admitting' = TRUE
    /\ UNCHANGED <<gateVars, count, permit, rabbitVars, redisVars, direct, recovery,
                   lifeVars, excused, bound>>

\* ... and then, under entry.mu, at the gate and the pool.
AdmitEnds ==
    /\ admitting /\ admitting' = FALSE
    /\ IF gate.open /\ count.slots < LocalWorkers
         THEN \E p \in bound.permits :
                /\ permit[p].pc = "unused"
                /\ \A q \in bound.permits : permit[q].pc = "unused" => p <= q
                /\ permit' = [permit EXCEPT ![p] = [Unused EXCEPT !.pc = "reserved",
                                 !.gen = gate.gen, !.fence = gate.fence]]
                /\ count' = [count EXCEPT !.prepare = @ + 1, !.slots = @ + 1]
         ELSE UNCHANGED <<permit, count>>
    /\ UNCHANGED <<gateVars, rabbitVars, redisVars, direct, recovery, lifeVars, excused, bound>>

PermitGoto(p, label) == permit' = [permit EXCEPT ![p].pc = label]

\* finishPrepareAndSlot, behind abort, finishWithoutRun and finishAfterPanic.
FinishPrepareAndSlot(p) ==
    /\ PermitGoto(p, "finished")
    /\ count' = [count EXCEPT !.prepare = @ - 1, !.slots = @ - 1]

\* The turn ended without a delivery, perhaps because of a failure.
Abort(p) ==
    /\ permit[p].pc = "reserved"
    /\ FinishPrepareAndSlot(p)
    /\ Report(permit[p].fence, permit[p].gen)
    /\ UNCHANGED <<admitting, rabbitVars, redisVars, direct, recovery, lifeVars, excused, bound>>

\* start: a delivery and its provisional reservation change hands.
Start(p) ==
    /\ permit[p].pc = "reserved" /\ Clients /\ ~workStop
    /\ PermitGoto(p, "queued")
    /\ delivery' = [delivery EXCEPT ![p] = "unacked"]
    /\ token' = [token EXCEPT ![p] = "provisional"]
    /\ UNCHANGED <<gateVars, admitting, count, dead, epoch, direct, recovery, lifeVars,
                   excused, bound>>

(***************************************************************************)
(* executeWorker.                                                           *)
(***************************************************************************)
PermitAt(p, label) == permit[p].pc = label
CtxDone(p) == cancelled \/ permit[p].expired

\* The prepare deadline.
Expire(p) ==
    /\ Preparing(p) /\ ~permit[p].expired
    /\ Spend("expire")
    /\ permit' = [permit EXCEPT ![p].expired = TRUE]
    /\ UNCHANGED <<gateVars, admitting, count, rabbitVars, redisVars, direct, recovery,
                   lifeVars, excused>>

TakeWork(p) ==
    /\ PermitAt(p, "queued") /\ ~workStop
    /\ PermitGoto(p, "prepare")
    /\ UNCHANGED <<gateVars, admitting, count, rabbitVars, redisVars, direct, recovery,
                   lifeVars, excused, bound>>

Leave(p, label, names) ==
    permit' = [permit EXCEPT ![p].pc = label, ![p].names = names]

\* Prepare returns: an error or a deferral; an invalid result or a panic, which
\* also close the gates; a message to drop; a poison message; a claim.
Prepared(p) ==
    /\ PermitAt(p, "prepare")
    /\ \/ Leave(p, "nack", {"provisional"}) /\ Report(permit[p].fence, permit[p].gen)
       \/ Leave(p, "ackRelease", {"provisional"}) /\ UNCHANGED gateVars
       \/ /\ permit' = [permit EXCEPT ![p].pc = "deadLetter", ![p].names = {"provisional"},
                                      ![p].poison = TRUE]
          /\ UNCHANGED gateVars
       \/ /\ IF CtxDone(p) THEN Leave(p, "ackRelease", {"provisional"}) ELSE PermitGoto(p, "bind")
          /\ UNCHANGED gateVars
    /\ UNCHANGED <<admitting, count, rabbitVars, redisVars, direct, recovery, lifeVars,
                   excused, bound>>

\* A writer mismatch: the delivery stays unsettled until the connection closes.
PreparedFatal(p) ==
    /\ PermitAt(p, "prepare") /\ Spend("fatal")
    /\ fatal' = IF fatal = "no" THEN "set" ELSE fatal
    /\ Leave(p, "failing", {"provisional"})
    /\ UNCHANGED <<gateVars, admitting, count, rabbitVars, redisVars, direct, recovery,
                   cancelled, stop, workStop, excused>>

\* failAuthoritativeWriter has returned.
FatalHandled(p) ==
    /\ PermitAt(p, "failing") /\ fatal = "done"
    /\ PermitGoto(p, "release")
    /\ UNCHANGED <<gateVars, admitting, count, rabbitVars, redisVars, direct, recovery,
                   lifeVars, excused, bound>>

Both == {"provisional", "stable"}

\* BindReservation; a transport error cannot tell whether it was committed.
Bind(p) ==
    /\ PermitAt(p, "bind")
    /\ \/ /\ Clients /\ permit[p].fence = epoch
          /\ token' = [token EXCEPT ![p] = "stable"]
          /\ IF CtxDone(p) THEN Leave(p, "ackRelease", Both) ELSE PermitGoto(p, "ack")
          /\ UNCHANGED <<gateVars, bound>>
       \/ /\ IF Clients /\ permit[p].fence = epoch
               THEN Spend("fault") /\ token' \in {token, [token EXCEPT ![p] = "stable"]}
               ELSE UNCHANGED <<token, bound>>
          /\ Leave(p, "ackRelease", Both)
          /\ IF CtxDone(p) THEN UNCHANGED gateVars ELSE Report(permit[p].fence, permit[p].gen)
    /\ UNCHANGED <<admitting, count, rabbitVars, epoch, direct, recovery, lifeVars, excused>>

\* Ack and Nack may fail: the broker delivers again when the connection closes.
Settle(p, how) ==
    \/ /\ Clients /\ delivery' = [delivery EXCEPT ![p] = how]
       /\ UNCHANGED bound
    \/ /\ IF Clients THEN Spend("fault") ELSE UNCHANGED bound
       /\ UNCHANGED delivery

\* The claim is confirmed in Redis: ACK it, whatever the ACK returns.
AckClaim(p) ==
    /\ PermitAt(p, "ack")
    /\ Settle(p, "acked")
    /\ IF CtxDone(p) THEN Leave(p, "release", Both) ELSE PermitGoto(p, "begin")
    /\ UNCHANGED <<gateVars, admitting, count, dead, redisVars, direct, recovery, lifeVars,
                   excused>>

\* Mutant: the fatal state is not looked at.
BeginRunUnchecked(p) ==
    /\ PermitAt(p, "begin")
    /\ IF CtxDone(p)
         THEN Leave(p, "release", Both) /\ UNCHANGED count
         ELSE /\ PermitGoto(p, "running")
              /\ count' = [count EXCEPT !.prepare = @ - 1]
    /\ UNCHANGED <<gateVars, admitting, rabbitVars, redisVars, direct, recovery, lifeVars,
                   excused, bound>>

\* beginRun registers the task under the runtime's lock, or sees fatalErr.
BeginRun(p) ==
    /\ PermitAt(p, "begin")
    /\ IF fatal # "no" \/ CtxDone(p)
         THEN Leave(p, "release", Both) /\ UNCHANGED count
         ELSE /\ PermitGoto(p, "running")
              /\ count' = [count EXCEPT !.prepare = @ - 1]
    /\ UNCHANGED <<gateVars, admitting, rabbitVars, redisVars, direct, recovery, lifeVars,
                   excused, bound>>

Nack(p) ==
    /\ PermitAt(p, "nack") \/ PermitAt(p, "requeueDead")
    /\ Settle(p, "requeued")
    /\ PermitGoto(p, IF delivery' = delivery THEN "release" ELSE "activate")
    /\ UNCHANGED <<gateVars, admitting, count, dead, redisVars, direct, recovery, lifeVars,
                   excused>>

\* EnsureActive; the tenant's ring is FairScheduler's.
Activate(p) ==
    /\ PermitAt(p, "activate")
    /\ PermitGoto(p, "release")
    /\ Report(permit[p].fence, permit[p].gen)
    /\ UNCHANGED <<admitting, count, rabbitVars, redisVars, direct, recovery, lifeVars,
                   excused, bound>>

AckRelease(p) ==
    /\ PermitAt(p, "ackRelease")
    /\ Settle(p, "acked")
    /\ PermitGoto(p, "release")
    /\ UNCHANGED <<gateVars, admitting, count, dead, redisVars, direct, recovery, lifeVars,
                   excused>>

\* deadLetterSettleRelease: ACK follows a confirmed copy, NACK anything else; a
\* copy that was not confirmed may be in the queue all the same.
DeadLetter(p) ==
    /\ PermitAt(p, "deadLetter")
    /\ \/ /\ Clients /\ dead' = dead \cup {p}
          /\ PermitGoto(p, "ackRelease")
          /\ UNCHANGED bound
       \/ /\ IF Clients THEN Spend("fault") /\ dead' \in {dead, dead \cup {p}}
                        ELSE UNCHANGED <<bound, dead>>
          /\ PermitGoto(p, "requeueDead")
    /\ UNCHANGED <<gateVars, admitting, count, delivery, redisVars, direct, recovery, lifeVars,
                   excused>>

\* Release of p's reservation under a fence: refused unless the fence is READY,
\* excused if the latest fence would be refused as well.
ReleaseToken(p, fence, names) ==
    \/ /\ Clients /\ fence = epoch
       /\ token' = IF token[p] \in names THEN [token EXCEPT ![p] = "none"] ELSE token
       /\ UNCHANGED <<excused, bound>>
    \/ /\ CASE ~Clients \/ epoch # gate.fence ->
                   excused' = excused \cup {p} /\ UNCHANGED bound
            [] Clients /\ epoch = gate.fence /\ fence # epoch ->
                   UNCHANGED <<excused, bound>>
            [] OTHER -> excused' = excused \cup {p} /\ Spend("fault")
       /\ UNCHANGED token

\* The release that ends an attempt without a run, and its failure.
ReleaseAttempt(p) ==
    /\ PermitAt(p, "release")
    /\ ReleaseToken(p, permit[p].fence, permit[p].names)
    /\ FinishPrepareAndSlot(p)
    /\ IF token' = token THEN Report(permit[p].fence, permit[p].gen) ELSE UNCHANGED gateVars
    /\ UNCHANGED <<admitting, rabbitVars, epoch, direct, recovery, lifeVars>>

(***************************************************************************)
(* runPrepared.                                                             *)
(***************************************************************************)

\* A heartbeat takes the latest gate; its failure arrives later.
HeartbeatBegins(p) ==
    /\ PermitAt(p, "running") /\ ~permit[p].cancelled /\ permit[p].beat = NoBeat /\ gate.open
    /\ Spend("fault")
    /\ permit' = [permit EXCEPT ![p].beat = gate.gen]
    /\ UNCHANGED <<gateVars, admitting, count, rabbitVars, redisVars, direct, recovery,
                   lifeVars, excused>>

HeartbeatFails(p) ==
    /\ permit[p].beat # NoBeat
    /\ permit' = [permit EXCEPT ![p].beat = NoBeat]
    /\ CloseGatesFor(gate.fence, permit[p].beat)
    /\ UNCHANGED <<admitting, count, rabbitVars, redisVars, direct, recovery, lifeVars,
                   excused, bound>>

\* Run returns, of its own accord or because its context was cancelled; a task
\* may also ignore the cancellation.
RunReturns(p) ==
    /\ PermitAt(p, "running")
    /\ permit' = [permit EXCEPT ![p].pc = "ending", ![p].cancelled = TRUE]
    /\ UNCHANGED <<gateVars, admitting, count, rabbitVars, redisVars, direct, recovery,
                   lifeVars, excused, bound>>

RunFatal(p) ==
    /\ PermitAt(p, "running") /\ Spend("fatal")
    /\ fatal' = IF fatal = "no" THEN "set" ELSE fatal
    /\ PermitGoto(p, "runFatal")
    /\ UNCHANGED <<gateVars, admitting, count, rabbitVars, redisVars, direct, recovery,
                   cancelled, stop, workStop, excused>>

RunFatalHandled(p) ==
    /\ PermitAt(p, "runFatal") /\ fatal = "done"
    /\ permit' = [permit EXCEPT ![p].pc = "ending", ![p].cancelled = TRUE]
    /\ UNCHANGED <<gateVars, admitting, count, rabbitVars, redisVars, direct, recovery,
                   lifeVars, excused, bound>>

\* Mutant: the release will use the fence that the task was admitted under.
KeepAdmittedFence(p) ==
    /\ PermitAt(p, "ending") /\ permit[p].beat = NoBeat
    /\ PermitGoto(p, "releasing")
    /\ UNCHANGED <<gateVars, admitting, count, rabbitVars, redisVars, direct, recovery,
                   lifeVars, excused, bound>>

\* The heartbeat is joined and latestFence read, whether its gate is open or not.
ReadLatestFence(p) ==
    /\ PermitAt(p, "ending") /\ permit[p].beat = NoBeat
    /\ permit' = [permit EXCEPT ![p].pc = "releasing", ![p].fence = gate.fence,
                                ![p].gen = gate.gen]
    /\ UNCHANGED <<gateVars, admitting, count, rabbitVars, redisVars, direct, recovery,
                   lifeVars, excused, bound>>

\* The stable reservation is released under the fence that was read, and
\* finishRun returns the slot whatever came of it.
ReleaseRun(p) ==
    /\ PermitAt(p, "releasing")
    /\ ReleaseToken(p, permit[p].fence, {"stable"})
    /\ PermitGoto(p, "finished")
    /\ count' = [count EXCEPT !.slots = @ - 1]
    /\ IF token' = token THEN Report(permit[p].fence, permit[p].gen) ELSE UNCHANGED gateVars
    /\ UNCHANGED <<admitting, rabbitVars, epoch, direct, recovery, lifeVars>>

(***************************************************************************)
(* TryDispatch.                                                             *)
(***************************************************************************)
DirectGoto(d, label) == direct' = [direct EXCEPT ![d].pc = label]

\* beginDirectDispatch.
DispatchBegins(d) ==
    /\ d \in bound.dispatches /\ direct[d].pc = "idle"
    /\ IF Stopping
         THEN DirectGoto(d, "done") /\ UNCHANGED count
         ELSE DirectGoto(d, "begun") /\ count' = [count EXCEPT !.direct = @ + 1]
    /\ UNCHANGED <<gateVars, admitting, permit, rabbitVars, redisVars, recovery, lifeVars,
                   excused, bound>>

\* beginPublisherAttempt.
PublishBegins(d) ==
    /\ direct[d].pc = "begun"
    /\ IF publisher.open
         THEN /\ direct' = [direct EXCEPT ![d] = [pc |-> "publishing", gen |-> publisher.gen]]
              /\ publisher' = [publisher EXCEPT !.inFlight = @ + 1]
         ELSE DirectGoto(d, "returning") /\ UNCHANGED publisher
    /\ UNCHANGED <<gate, opening, admitting, count, permit, rabbitVars, redisVars, recovery,
                   lifeVars, excused, bound>>

\* closePublisherGateFor: only the opening that the call began under.
ClosePublisherFor(d, state) ==
    IF state.gen = direct[d].gen THEN [state EXCEPT !.open = FALSE] ELSE state

\* The attempt ends with Mark, or before it: a fence that is not READY and a
\* fatal error of Mark close the publisher gate.
PublishEnds(d) ==
    /\ direct[d].pc = "publishing"
    /\ LET ended == [publisher EXCEPT !.inFlight = @ - 1]
       IN  \/ /\ publisher' = ended
              /\ DirectGoto(d, "activating") /\ UNCHANGED <<fatal, bound>>
           \/ /\ publisher' \in {ended, ClosePublisherFor(d, ended)}
              /\ DirectGoto(d, "returning") /\ UNCHANGED <<fatal, bound>>
           \/ /\ publisher' = ClosePublisherFor(d, ended)
              /\ DirectGoto(d, "failing") /\ Spend("fatal")
              /\ fatal' = IF fatal = "no" THEN "set" ELSE fatal
    /\ UNCHANGED <<gate, opening, admitting, count, permit, rabbitVars, redisVars, recovery,
                   cancelled, stop, workStop, excused>>

\* activateAfterPublish: an error and an expired context close the publisher gate.
DispatchActivates(d) ==
    /\ direct[d].pc = "activating"
    /\ publisher' \in {publisher, ClosePublisherFor(d, publisher)}
    /\ DirectGoto(d, "returning")
    /\ UNCHANGED <<gate, opening, admitting, count, permit, rabbitVars, redisVars, recovery,
                   lifeVars, excused, bound>>

\* finishDirectDispatch.
DispatchReturns(d) ==
    /\ direct[d].pc = "returning" \/ (direct[d].pc = "failing" /\ fatal = "done")
    /\ DirectGoto(d, "done")
    /\ count' = [count EXCEPT !.direct = @ - 1]
    /\ UNCHANGED <<gateVars, admitting, permit, rabbitVars, redisVars, recovery, lifeVars,
                   excused, bound>>

(***************************************************************************)
(* The fatal path and the shutdown.                                         *)
(***************************************************************************)

\* FailAuthoritative, from outside.
FailAuthoritative ==
    /\ fatal = "no" /\ Spend("fatal")
    /\ fatal' = "set"
    /\ UNCHANGED <<gateVars, admitting, count, permit, rabbitVars, redisVars, direct, recovery,
                   cancelled, stop, workStop, excused>>

\* The context of Run ends.
CancelRun ==
    /\ bound.stop /\ ~cancelled
    /\ cancelled' = TRUE
    /\ UNCHANGED <<gateVars, admitting, count, permit, rabbitVars, redisVars, direct, recovery,
                   stop, fatal, workStop, excused, bound>>

\* initiateShutdown, of Shutdown, Run or failAuthoritativeWriter: no admission,
\* then the gates, then the sequence.
MarkStopping ==
    /\ stop = "no" /\ (bound.stop \/ cancelled \/ fatal = "set")
    /\ stop' = "marked"
    /\ UNCHANGED <<gateVars, admitting, count, permit, rabbitVars, redisVars, direct, recovery,
                   cancelled, fatal, workStop, excused, bound>>

CloseForShutdown ==
    /\ stop = "marked"
    /\ CloseGates
    /\ stop' = "launched"
    /\ UNCHANGED <<admitting, count, permit, rabbitVars, redisVars, direct, recovery,
                   cancelled, fatal, workStop, excused, bound>>

\* failAuthoritativeWriter goes on with cancelRunning.
FatalCancelsRuns ==
    /\ fatal = "set" /\ stop \notin {"no", "marked"}
    /\ fatal' = "done"
    /\ permit' = [p \in Permits |-> IF Running(p) THEN [permit[p] EXCEPT !.cancelled = TRUE]
                                    ELSE permit[p]]
    /\ UNCHANGED <<gateVars, admitting, count, rabbitVars, redisVars, direct, recovery,
                   cancelled, stop, workStop, excused, bound>>

CancelComponents ==
    /\ stop = "launched"
    /\ cancelled' = TRUE /\ stop' = "attempts"
    /\ UNCHANGED <<gateVars, admitting, count, permit, rabbitVars, redisVars, direct, recovery,
                   fatal, workStop, excused, bound>>

AttemptsDrained == count.prepare = 0 /\ publisher.inFlight = 0 /\ count.direct = 0
ComponentsDone == ~admitting /\ Reserved = {} /\ recovery = "ended"

\* waitEntryAttempts and the components share one budget.
DrainAttempts ==
    /\ \/ /\ stop = "attempts" /\ AttemptsDrained
          /\ stop' = "components" /\ UNCHANGED <<excused, bound>>
       \/ /\ stop = "components" /\ ComponentsDone
          /\ stop' = "grace" /\ UNCHANGED <<excused, bound>>
       \/ /\ stop \in {"attempts", "components"} /\ Spend("slow")
          /\ stop' = "grace"
          /\ excused' = excused \cup {p \in Permits : Preparing(p)}
                         \cup {d \in Dispatches : direct[d].pc \notin {"idle", "done"}}
    /\ UNCHANGED <<gateVars, admitting, count, permit, rabbitVars, redisVars, direct, recovery,
                   cancelled, fatal, workStop>>

\* Mutant: the shutdown waits for every running task.
WaitForRuns ==
    /\ stop = "grace" /\ \A p \in Permits : ~Running(p)
    /\ stop' = "force"
    /\ UNCHANGED <<gateVars, admitting, count, permit, rabbitVars, redisVars, direct, recovery,
                   cancelled, fatal, workStop, excused, bound>>

\* waitRunning returns when the tasks have ended or the grace is over.
GraceEnds ==
    /\ stop = "grace"
    /\ stop' = "force"
    /\ UNCHANGED <<gateVars, admitting, count, permit, rabbitVars, redisVars, direct, recovery,
                   cancelled, fatal, workStop, excused, bound>>

\* forceReleaseRunning: cancel and release under the latest fence what still runs.
\* The gates are closed for good, so that fence no longer changes; a late
\* BeginRecovery may take READY away between two of the releases.
ForceRelease ==
    /\ stop = "force"
    /\ stop' = "released"
    /\ permit' = [p \in Permits |-> IF Running(p) THEN [permit[p] EXCEPT !.cancelled = TRUE]
                                    ELSE permit[p]]
    /\ \E failed \in SUBSET {p \in Permits : Running(p)} :
          /\ CASE failed = {} -> UNCHANGED bound
               [] failed # {} /\ epoch = gate.fence /\ recovery # "beginning" -> Spend("fault")
               [] OTHER -> UNCHANGED bound
          /\ epoch # gate.fence => failed = {p \in Permits : Running(p)}
          /\ token' = [p \in Permits |-> IF Running(p) /\ p \notin failed THEN "none"
                                          ELSE token[p]]
          /\ excused' = excused \cup failed
    /\ UNCHANGED <<gateVars, admitting, count, rabbitVars, epoch, direct, recovery,
                   cancelled, fatal, workStop>>

\* Rabbit and Redis are closed; the broker requeues what was not settled.
CloseClients ==
    /\ stop = "released"
    /\ stop' = "closed"
    /\ delivery' = [p \in Permits |-> IF delivery[p] = "unacked" THEN "requeued"
                                      ELSE delivery[p]]
    /\ UNCHANGED <<gateVars, admitting, count, permit, dead, redisVars, direct, recovery,
                   cancelled, fatal, workStop, excused, bound>>

\* stopWorkersWhenDrained.
StopWorkers ==
    /\ stop \in {"released", "closed"} /\ count.prepare = 0 /\ ~workStop
    /\ workStop' = TRUE
    /\ UNCHANGED <<gateVars, admitting, count, permit, rabbitVars, redisVars, direct, recovery,
                   cancelled, stop, fatal, excused, bound>>

(***************************************************************************)
(* Specification.                                                           *)
(***************************************************************************)

\* What the goroutine of a permit does without the task's own help.
WorkerStep(p) ==
    \/ Start(p) \/ Abort(p) \/ TakeWork(p) \/ Prepared(p) \/ FatalHandled(p) \/ Bind(p)
    \/ AckClaim(p) \/ BeginRun(p) \/ Nack(p) \/ Activate(p) \/ AckRelease(p)
    \/ DeadLetter(p) \/ ReleaseAttempt(p) \/ HeartbeatFails(p) \/ RunFatalHandled(p)
    \/ ReadLatestFence(p) \/ ReleaseRun(p)

DispatchStep(d) ==
    PublishBegins(d) \/ PublishEnds(d) \/ DispatchActivates(d) \/ DispatchReturns(d)

ShutdownStep ==
    \/ CloseForShutdown \/ CancelComponents \/ DrainAttempts \/ GraceEnds
    \/ ForceRelease \/ CloseClients \/ StopWorkers

RuntimeNext ==
    \/ OpenBegins \/ OpenEnds \/ ObserveReady \/ BeginRebuild \/ DrainForRebuild
    \/ GiveUpRebuild \/ CommitRebuild \/ CloseResource \/ EndRecovery
    \/ AdmitBegins \/ AdmitEnds
    \/ \E p \in Permits :
          \/ WorkerStep(p) \/ Expire(p) \/ PreparedFatal(p)
          \/ HeartbeatBegins(p) \/ RunReturns(p) \/ RunFatal(p)
    \/ \E d \in Dispatches : DispatchBegins(d) \/ DispatchStep(d)
    \/ FailAuthoritative \/ CancelRun \/ MarkStopping \/ FatalCancelsRuns \/ ShutdownStep

\* Every call is bounded by a deadline and every wait by a budget; only Run may
\* take for ever.
RuntimeFairness ==
    /\ WF_runtimeVars(OpenEnds) /\ WF_runtimeVars(EndRecovery) /\ WF_runtimeVars(AdmitEnds)
    /\ \A p \in Permits : WF_runtimeVars(WorkerStep(p))
    /\ \A d \in Dispatches : WF_runtimeVars(DispatchStep(d))
    /\ WF_runtimeVars((cancelled \/ fatal = "set") /\ MarkStopping)
    /\ WF_runtimeVars(FatalCancelsRuns)
    /\ WF_runtimeVars(ShutdownStep)

RuntimeSpec == RuntimeInit /\ [][RuntimeNext]_runtimeVars /\ RuntimeFairness

(***************************************************************************)
(* Properties.                                                              *)
(***************************************************************************)

\* Attempts of two openings of the gates never overlap (runtime.go 348-389,
\* dispatcher.go 204-220), although the recovery loop opens a READY resource
\* again without draining it: what is admitted, and what is being published,
\* belongs to the gate that is open.
GenerationsDoNotOverlap ==
    /\ gate.open => \A p \in Permits : Preparing(p) => permit[p].gen = gate.gen
    /\ publisher.open =>
         \A d \in Dispatches : direct[d].pc = "publishing" => direct[d].gen = publisher.gen

\* Once a fatal error has been handled every running task is cancelled and none
\* starts any more: there is no gap between the registry's snapshot and a task
\* about to be registered (runtime.go 636-640).
FatalStopsRuns ==
    fatal = "done" => \A p \in Permits : permit[p].pc = "running" => permit[p].cancelled

\* When the shutdown has closed the clients every reservation is released, also
\* of tasks that ignore their cancellation; no dispatch still needs Redis; every
\* delivery is settled, and a poison one is gone only with a copy in the dead
\* letter queue.  So the fence that the gate had when a run or the shutdown read
\* it is good enough, unless READY was taken away or the gate opened under a new
\* fence before the release: that, a failed call and an exhausted budget are what
\* excused stands for, and leave the reservation to the next rebuild, the
\* reconciler or its TTL (runtime.go 954-988, 1044-1053, 1423-1513).
ShutdownHandsBack ==
    /\ stop = "closed" =>
         /\ \A p \in Permits \ excused : token[p] = "none"
         /\ \A p \in Permits : delivery[p] # "unacked"
         /\ \A d \in Dispatches \ excused : direct[d].pc # "activating"
    /\ \A p \in Permits : permit[p].poison /\ delivery[p] = "acked" => p \in dead

\* A shutdown and a fatal error end with closed clients, however long the tasks
\* take, and no attempt stays in the pool.
ShutdownCompletes ==
    []<>(/\ Stopping => stop = "closed"
         /\ \A p \in Permits : ~Preparing(p))
===============================================================================
