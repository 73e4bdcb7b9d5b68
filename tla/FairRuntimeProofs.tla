------------------------- MODULE FairRuntimeProofs -------------------------
(***************************************************************************)
(* Proofs about FairRuntime for every set of permits and dispatches, every  *)
(* number of workers and every bound: the inductive invariant of the gates, *)
(* the pool and the shutdown, and what follows from it.                     *)
(***************************************************************************)
EXTENDS FairRuntime, FiniteSetTheorems, TLAPS

(***************************************************************************)
(* The inductive invariant.                                                 *)
(***************************************************************************)
Row == [pc : {"unused", "finished"} \cup PreparePCs \cup RunPCs,
        gen : Nat, fence : Nat, expired : BOOLEAN,
        names : SUBSET {"provisional", "stable"},
        cancelled : BOOLEAN, beat : Nat, poison : BOOLEAN]
Budget == [permits : SUBSET Permits, dispatches : SUBSET Dispatches, stop : BOOLEAN,
           fatal : Nat, opens : Nat, rebuilds : Nat, expire : Nat, slow : Nat, fault : Nat]
Tokens == {"none", "provisional", "stable"}
Settlements == {"none", "unacked", "acked", "requeued"}
CallPCs == {"idle", "begun", "publishing", "activating", "returning", "failing", "done"}

Preparings == {p \in Permits : Preparing(p)}
Holding == {p \in Permits : Preparing(p) \/ Running(p)}
InCall(d) == direct[d].pc \notin {"idle", "done"}
Calling == {d \in Dispatches : InCall(d)}
Publishing == {d \in Dispatches : direct[d].pc = "publishing"}

GateType ==
    /\ gate \in [open : BOOLEAN, fence : Nat \ {0}, gen : Nat]
    /\ publisher \in [open : BOOLEAN, gen : Nat, inFlight : Nat]
    /\ opening \in BOOLEAN

Shape ==
    /\ GateType
    /\ count \in [prepare : Nat, slots : Nat, direct : Nat]
    /\ permit \in [Permits -> Row]
    /\ delivery \in [Permits -> Settlements]
    /\ token \in [Permits -> Tokens]
    /\ epoch \in Nat
    /\ direct \in [Dispatches -> [pc : CallPCs, gen : Nat]]
    /\ bound \in Budget

\* The counters of the pool are the sizes of the sets they stand for, so that a
\* counter at zero means that there is nobody.
PoolCounted ==
    /\ IsFiniteSet(Preparings) /\ count.prepare = Cardinality(Preparings)
    /\ IsFiniteSet(Holding) /\ count.slots = Cardinality(Holding)
    /\ count.slots <= LocalWorkers

CallsCounted ==
    /\ IsFiniteSet(Calling) /\ count.direct = Cardinality(Calling)
    /\ IsFiniteSet(Publishing) /\ publisher.inFlight = Cardinality(Publishing)

\* Only the recovery loop opens a gate, and the shutdown closes it for good.
GatesFollowRecovery ==
    /\ gate.open => recovery = "open" /\ gate.fence = epoch
    /\ opening => recovery = "opening"
    /\ recovery \in {"draining", "rebuilding"} => epoch = 0
    /\ recovery \in {"opening", "open"} => epoch # 0
    /\ stop \notin {"no", "marked"} => ~gate.open /\ ~publisher.open /\ ~opening
    /\ stop \notin {"no", "marked", "launched"} => cancelled

\* The budgets of the shutdown are over, or everything was drained.
Drained == stop \in {"components", "grace", "force", "released", "closed"}
Released == stop \in {"released", "closed"}

\* What an attempt leaves to its own release names the reservation it holds.
HoldsWhatItNames(p) ==
    /\ permit[p].pc \in {"unused", "reserved"} => token[p] = "none"
    /\ permit[p].pc \in {"queued", "prepare", "bind"} => token[p] \in {"none", "provisional"}
    /\ permit[p].pc \in {"ack", "begin"} \cup RunPCs => token[p] \in {"none", "stable"}
    /\ permit[p].pc \in WithoutRun => token[p] \in {"none"} \cup permit[p].names
    /\ permit[p].pc = "finished" => token[p] = "none" \/ p \in excused

\* A poison message that is not in the dead letter queue cannot reach an ACK.
PoisonIsKept(p) ==
    /\ permit[p].pc \in {"queued", "prepare", "deadLetter"} => delivery[p] # "acked"
    /\ permit[p].pc \in {"unused", "reserved", "queued", "prepare", "bind", "ack"}
         => ~permit[p].poison
    /\ permit[p].poison /\ p \notin dead =>
         delivery[p] # "acked" /\ permit[p].pc # "ackRelease"

PermitOK(p) ==
    /\ Preparing(p) => /\ permit[p].gen = gate.gen /\ permit[p].fence = gate.fence
                       /\ epoch \in {0, gate.fence}
    /\ Preparing(p) => recovery # "rebuilding"
    /\ permit[p].pc = "releasing" => permit[p].fence = gate.fence \/ p \in excused
    /\ fatal = "done" /\ permit[p].pc = "running" => permit[p].cancelled
    /\ HoldsWhatItNames(p)
    /\ PoisonIsKept(p)
    /\ Drained /\ Preparing(p) => p \in excused
    /\ Released => token[p] = "none" \/ p \in excused
    /\ Released /\ recovery = "rebuilding" /\ Running(p) => p \in excused
    /\ stop = "closed" => delivery[p] # "unacked"

CallOK(d) ==
    /\ direct[d].pc = "publishing" => direct[d].gen = publisher.gen
    /\ Drained /\ InCall(d) => d \in excused

RuntimeInv ==
    /\ Shape /\ PoolCounted /\ CallsCounted /\ GatesFollowRecovery
    /\ \A p \in Permits : PermitOK(p)
    /\ \A d \in Dispatches : CallOK(d)

(***************************************************************************)
(* What the steps of a permit have in common.                               *)
(***************************************************************************)

\* A step that may close the gates, and opens none.
GatesKept ==
    /\ GateType'
    /\ gate'.gen = gate.gen /\ gate'.fence = gate.fence
    /\ gate'.open => gate.open
    /\ publisher'.gen = publisher.gen /\ publisher'.inFlight = publisher.inFlight
    /\ publisher'.open => publisher.open
    /\ opening' = opening

\* A step of the goroutine of one permit, apart from what it does to the pool.
Alone(p) ==
    /\ GatesKept
    /\ permit' \in [Permits -> Row]
    /\ token' \in [Permits -> Tokens]
    /\ delivery' \in [Permits -> Settlements]
    /\ \A q \in Permits \ {p} : /\ permit'[q] = permit[q] /\ token'[q] = token[q]
                                /\ delivery'[q] = delivery[q]
    /\ dead \subseteq dead' /\ excused \subseteq excused'
    /\ fatal' = fatal \/ fatal' = "set"
    /\ bound' \in Budget
    /\ UNCHANGED <<epoch, direct, recovery, cancelled, stop>>

\* closeGates keeps the generation and shuts both gates.
LEMMA CloseGatesFacts ==
    ASSUME GateType, CloseGates
    PROVE  GatesKept /\ ~gate'.open /\ ~publisher'.open
  BY DEF GateType, CloseGates, GatesKept

\* What a failed call reports keeps the generation too.
LEMMA ReportFacts ==
    ASSUME GateType, NEW f, NEW g, Report(f, g)
    PROVE  GatesKept
  BY CloseGatesFacts DEF GateType, Report, CloseGatesFor, GatesKept, gateVars

\* The same for the failure of a heartbeat.
LEMMA CloseGatesForFacts ==
    ASSUME GateType, NEW f, NEW g, CloseGatesFor(f, g)
    PROVE  GatesKept
  BY CloseGatesFacts DEF GateType, CloseGatesFor, GatesKept, gateVars

\* A step that leaves the gates alone.
LEMMA GatesUntouched ==
    ASSUME GateType, UNCHANGED gateVars
    PROVE  GatesKept
  BY DEF GateType, GatesKept, gateVars

\* Spending one of a bound leaves a budget.
LEMMA SpendFacts ==
    ASSUME bound \in Budget,
           NEW what \in {"fatal", "opens", "rebuilds", "expire", "slow", "fault"}, Spend(what)
    PROVE  bound' \in Budget
  BY DEF Budget, Spend

(***************************************************************************)
(* The counters of the pool.                                                *)
(***************************************************************************)
CountType == count \in [prepare : Nat, slots : Nat, direct : Nat]

\* Only p's row differs.
OnlyRow(p) == \A q \in Permits \ {p} : permit'[q] = permit[q]

\* A permit that is neither admitted nor returned leaves the pool's counters right.
LEMMA StaysInPool ==
    ASSUME PoolCounted, NEW p \in Permits, OnlyRow(p), count' = count,
           Preparing(p)' <=> Preparing(p), Running(p)' <=> Running(p)
    PROVE  PoolCounted'
  <1>1. \A q \in Permits : (Preparing(q)' <=> Preparing(q)) /\ (Running(q)' <=> Running(q))
    BY DEF OnlyRow, Preparing, Running
  <1>2. Preparings' = Preparings /\ Holding' = Holding
    BY <1>1 DEF Preparings, Holding
  <1>3. QED BY <1>2 DEF PoolCounted

\* tryReserveWorker takes an attempt and a slot that is free.
LEMMA EntersPool ==
    ASSUME PoolCounted, CountType, NEW p \in Permits, OnlyRow(p),
           ~Preparing(p), ~Running(p), Preparing(p)', count.slots < LocalWorkers,
           count' = [count EXCEPT !.prepare = @ + 1, !.slots = @ + 1]
    PROVE  PoolCounted' /\ CountType'
  <1>1. \A q \in Permits \ {p} :
           (Preparing(q)' <=> Preparing(q)) /\ (Running(q)' <=> Running(q))
    BY DEF OnlyRow, Preparing, Running
  <1>2. Preparings' = Preparings \cup {p} /\ Holding' = Holding \cup {p}
    BY <1>1 DEF Preparings, Holding
  <1>3. p \notin Preparings /\ p \notin Holding
    BY DEF Preparings, Holding
  <1>4. /\ IsFiniteSet(Preparings \cup {p})
        /\ Cardinality(Preparings \cup {p}) = Cardinality(Preparings) + 1
    BY <1>3, FS_AddElement DEF PoolCounted
  <1>5. /\ IsFiniteSet(Holding \cup {p})
        /\ Cardinality(Holding \cup {p}) = Cardinality(Holding) + 1
    BY <1>3, FS_AddElement DEF PoolCounted
  <1>6. /\ count'.prepare = count.prepare + 1 /\ count'.slots = count.slots + 1
        /\ CountType'
    <2>1. count'.prepare = count.prepare + 1 /\ count'.slots = count.slots + 1
      BY DEF CountType
    <2>2. count'.prepare \in Nat /\ count'.slots \in Nat
      BY <2>1 DEF CountType
    <2>3. CountType'
      BY <2>1, <2>2 DEF CountType
    <2>4. QED BY <2>1, <2>3
  <1>7. LocalWorkers \in Nat
    BY RuntimeAssumption DEF RuntimeAssumption
  <1>8. QED BY <1>2, <1>4, <1>5, <1>6, <1>7 DEF PoolCounted, CountType

\* finishPrepareAndSlot returns both.
LEMMA LeavesPool ==
    ASSUME PoolCounted, CountType, NEW p \in Permits, OnlyRow(p),
           Preparing(p), ~Preparing(p)', ~Running(p)',
           count' = [count EXCEPT !.prepare = @ - 1, !.slots = @ - 1]
    PROVE  PoolCounted' /\ CountType'
  <1>1. \A q \in Permits \ {p} :
           (Preparing(q)' <=> Preparing(q)) /\ (Running(q)' <=> Running(q))
    BY DEF OnlyRow, Preparing, Running
  <1>2. Preparings' = Preparings \ {p} /\ Holding' = Holding \ {p}
    BY <1>1 DEF Preparings, Holding
  <1>3. p \in Preparings /\ p \in Holding
    BY DEF Preparings, Holding
  <1>4. /\ IsFiniteSet(Preparings \ {p})
        /\ Cardinality(Preparings \ {p}) = Cardinality(Preparings) - 1
        /\ Cardinality(Preparings \ {p}) \in Nat
    BY <1>3, FS_RemoveElement, FS_CardinalityType DEF PoolCounted
  <1>5. /\ IsFiniteSet(Holding \ {p})
        /\ Cardinality(Holding \ {p}) = Cardinality(Holding) - 1
        /\ Cardinality(Holding \ {p}) \in Nat
    BY <1>3, FS_RemoveElement, FS_CardinalityType DEF PoolCounted
  <1>6. count'.prepare = count.prepare - 1 /\ count'.slots = count.slots - 1
    BY DEF CountType
  <1>7. count'.prepare \in Nat /\ count'.slots \in Nat
    BY <1>4, <1>5, <1>6 DEF PoolCounted
  <1>8. CountType'
    BY <1>6, <1>7 DEF CountType
  <1>9. LocalWorkers \in Nat
    BY RuntimeAssumption DEF RuntimeAssumption
  <1>10. QED BY <1>2, <1>4, <1>5, <1>6, <1>8, <1>9 DEF PoolCounted, CountType

\* beginRun ends the attempt and keeps the slot.
LEMMA AttemptBecomesRun ==
    ASSUME PoolCounted, CountType, NEW p \in Permits, OnlyRow(p),
           Preparing(p), ~Preparing(p)', Running(p)',
           count' = [count EXCEPT !.prepare = @ - 1]
    PROVE  PoolCounted' /\ CountType'
  <1>1. \A q \in Permits \ {p} :
           (Preparing(q)' <=> Preparing(q)) /\ (Running(q)' <=> Running(q))
    BY DEF OnlyRow, Preparing, Running
  <1>2. Preparings' = Preparings \ {p} /\ Holding' = Holding
    BY <1>1 DEF Preparings, Holding
  <1>3. p \in Preparings
    BY DEF Preparings
  <1>4. /\ IsFiniteSet(Preparings \ {p})
        /\ Cardinality(Preparings \ {p}) = Cardinality(Preparings) - 1
        /\ Cardinality(Preparings \ {p}) \in Nat
    BY <1>3, FS_RemoveElement, FS_CardinalityType DEF PoolCounted
  <1>5. count'.prepare = count.prepare - 1 /\ count'.slots = count.slots
    BY DEF CountType
  <1>6. CountType'
    BY <1>4, <1>5 DEF CountType, PoolCounted
  <1>7. QED BY <1>2, <1>4, <1>5, <1>6 DEF PoolCounted

\* finishRun returns the slot.
LEMMA RunLeavesPool ==
    ASSUME PoolCounted, CountType, NEW p \in Permits, OnlyRow(p),
           ~Preparing(p), Running(p), ~Preparing(p)', ~Running(p)',
           count' = [count EXCEPT !.slots = @ - 1]
    PROVE  PoolCounted' /\ CountType'
  <1>1. \A q \in Permits \ {p} :
           (Preparing(q)' <=> Preparing(q)) /\ (Running(q)' <=> Running(q))
    BY DEF OnlyRow, Preparing, Running
  <1>2. Preparings' = Preparings /\ Holding' = Holding \ {p}
    BY <1>1 DEF Preparings, Holding
  <1>3. p \in Holding
    BY DEF Holding
  <1>4. /\ IsFiniteSet(Holding \ {p})
        /\ Cardinality(Holding \ {p}) = Cardinality(Holding) - 1
        /\ Cardinality(Holding \ {p}) \in Nat
    BY <1>3, FS_RemoveElement, FS_CardinalityType DEF PoolCounted
  <1>5. count'.prepare = count.prepare /\ count'.slots = count.slots - 1
    BY DEF CountType
  <1>6. CountType'
    BY <1>4, <1>5 DEF CountType, PoolCounted
  <1>7. LocalWorkers \in Nat
    BY RuntimeAssumption DEF RuntimeAssumption
  <1>8. QED BY <1>2, <1>4, <1>5, <1>6, <1>7 DEF PoolCounted, CountType

\* No attempt is left when the counter is at zero.
LEMMA NoAttemptLeft ==
    ASSUME PoolCounted, count.prepare = 0
    PROVE  \A p \in Permits : ~Preparing(p)
  <1>1. Preparings = {}
    BY FS_EmptySet DEF PoolCounted
  <1>2. QED BY <1>1 DEF Preparings

\* Nor a call, nor a call that publishes.
LEMMA NoCallLeft ==
    ASSUME CallsCounted
    PROVE  /\ count.direct = 0 => \A d \in Dispatches : ~InCall(d)
           /\ publisher.inFlight = 0 => \A d \in Dispatches : direct[d].pc # "publishing"
  <1>1. count.direct = 0 => Calling = {}
    BY FS_EmptySet DEF CallsCounted
  <1>2. publisher.inFlight = 0 => Publishing = {}
    BY FS_EmptySet DEF CallsCounted
  <1>3. QED BY <1>1, <1>2 DEF Calling, Publishing

(***************************************************************************)
(* The steps of a permit.                                                   *)
(***************************************************************************)

\* The step of one permit is nothing to the others.
LEMMA OthersKept ==
    ASSUME RuntimeInv, NEW p \in Permits, Alone(p)
    PROVE  \A q \in Permits \ {p} : PermitOK(q)'
  <1> SUFFICES ASSUME NEW q \in Permits \ {p} PROVE PermitOK(q)'
    OBVIOUS
  <1>1. PermitOK(q)
    BY DEF RuntimeInv
  <1>2. /\ permit'[q] = permit[q] /\ token'[q] = token[q] /\ delivery'[q] = delivery[q]
        /\ gate'.gen = gate.gen /\ gate'.fence = gate.fence
        /\ epoch' = epoch /\ recovery' = recovery /\ stop' = stop
        /\ fatal' = fatal \/ fatal' = "set"
        /\ q \in dead => q \in dead'
        /\ q \in excused => q \in excused'
    BY DEF Alone, GatesKept
  <1>3. (Preparing(q)' <=> Preparing(q)) /\ (Running(q)' <=> Running(q))
    BY <1>2 DEF Preparing, Running
  <1>4. HoldsWhatItNames(q)'
    BY <1>1, <1>2 DEF PermitOK, HoldsWhatItNames
  <1>5. PoisonIsKept(q)'
    BY <1>1, <1>2 DEF PermitOK, PoisonIsKept
  <1>6. (Drained' <=> Drained) /\ (Released' <=> Released)
    BY <1>2 DEF Drained, Released
  <1>7. QED BY <1>1, <1>2, <1>3, <1>4, <1>5, <1>6 DEF PermitOK

\* So a step of p keeps the invariant when the pool's counters and p itself do.
LEMMA AloneKeepsInv ==
    ASSUME RuntimeInv, NEW p \in Permits, Alone(p), PoolCounted', CountType',
           count'.direct = count.direct, PermitOK(p)'
    PROVE  RuntimeInv'
  <1>1. \A q \in Permits : PermitOK(q)'
    BY OthersKept
  <1>2. Shape'
    BY DEF RuntimeInv, Alone, GatesKept, Shape, CountType
  <1>3. CallsCounted'
    BY DEF RuntimeInv, Alone, GatesKept, CallsCounted, Calling, Publishing, InCall
  <1>4. GatesFollowRecovery'
    <2>1. GatesFollowRecovery /\ UNCHANGED <<recovery, epoch, stop, cancelled>>
      BY DEF RuntimeInv, Alone
    <2>2. /\ gate'.open => gate.open
          /\ gate'.fence = gate.fence
          /\ publisher'.open => publisher.open
          /\ opening' = opening
      BY DEF Alone, GatesKept
    <2>3. QED BY <2>1, <2>2 DEF GatesFollowRecovery
  <1>5. \A d \in Dispatches : CallOK(d)'
    <2>1. TAKE d \in Dispatches
    <2>2. CallOK(d)
      BY DEF RuntimeInv
    <2>3. /\ direct' = direct /\ stop' = stop /\ publisher'.gen = publisher.gen
          /\ d \in excused => d \in excused'
      BY DEF Alone, GatesKept
    <2>4. QED BY <2>2, <2>3 DEF CallOK, Drained, InCall
  <1>6. QED BY <1>1, <1>2, <1>3, <1>4, <1>5 DEF RuntimeInv

Labels == {"unused", "finished"} \cup PreparePCs \cup RunPCs

\* p's row is still a row, and keeps what belongs to its attempt.
SameAttempt(p) ==
    /\ permit' \in [Permits -> Row] /\ OnlyRow(p)
    /\ permit'[p].gen = permit[p].gen /\ permit'[p].fence = permit[p].fence

\* A goroutine that only moves on.
LEMMA GotoFacts ==
    ASSUME permit \in [Permits -> Row], NEW p \in Permits, NEW label \in Labels,
           PermitGoto(p, label)
    PROVE  /\ SameAttempt(p) /\ permit'[p].pc = label
           /\ permit'[p].names = permit[p].names /\ permit'[p].poison = permit[p].poison
           /\ permit'[p].cancelled = permit[p].cancelled
  <1> DEFINE row == [permit[p] EXCEPT !.pc = label]
  <1>1. permit' = [permit EXCEPT ![p] = row]
    BY DEF PermitGoto
  <1>2. permit[p] \in Row
    OBVIOUS
  <1>3. /\ row \in Row /\ row.pc = label /\ row.gen = permit[p].gen
        /\ row.fence = permit[p].fence /\ row.names = permit[p].names
        /\ row.poison = permit[p].poison /\ row.cancelled = permit[p].cancelled
    BY <1>2 DEF Row, Labels
  <1> HIDE DEF row
  <1>4. permit' \in [Permits -> Row] /\ OnlyRow(p) /\ permit'[p] = row
    BY <1>1, <1>3 DEF OnlyRow
  <1>5. QED BY <1>3, <1>4 DEF SameAttempt

\* ... or leaves for its release, and names what to release.
LEMMA LeaveFacts ==
    ASSUME permit \in [Permits -> Row], NEW p \in Permits, NEW label \in Labels,
           NEW names \in SUBSET {"provisional", "stable"}, Leave(p, label, names)
    PROVE  /\ SameAttempt(p) /\ permit'[p].pc = label
           /\ permit'[p].names = names /\ permit'[p].poison = permit[p].poison
           /\ permit'[p].cancelled = permit[p].cancelled
  <1> DEFINE first == [permit[p] EXCEPT !.pc = label]
             row == [first EXCEPT !.names = names]
  <1>1. permit[p] \in Row
    OBVIOUS
  <1>2. permit' = [permit EXCEPT ![p] = row]
    <2>1. permit' = [[permit EXCEPT ![p].pc = label] EXCEPT ![p].names = names]
      BY DEF Leave
    <2>2. [permit EXCEPT ![p].pc = label][p] = first
      OBVIOUS
    <2>3. QED BY <2>1, <2>2
  <1>3. /\ first \in Row /\ first.pc = label /\ first.gen = permit[p].gen
        /\ first.fence = permit[p].fence /\ first.poison = permit[p].poison
        /\ first.cancelled = permit[p].cancelled
    BY <1>1 DEF Row, Labels
  <1> HIDE DEF first
  <1>4. /\ row \in Row /\ row.pc = label /\ row.gen = permit[p].gen
        /\ row.fence = permit[p].fence /\ row.names = names
        /\ row.poison = permit[p].poison /\ row.cancelled = permit[p].cancelled
    BY <1>3 DEF Row
  <1> HIDE DEF row
  <1>5. permit' \in [Permits -> Row] /\ OnlyRow(p) /\ permit'[p] = row
    BY <1>2, <1>4 DEF OnlyRow
  <1>6. QED BY <1>4, <1>5 DEF SameAttempt

\* A step that only moves the goroutine on within its attempt leaves the pool.
LEMMA AttemptStays ==
    ASSUME RuntimeInv, NEW p \in Permits, Preparing(p), SameAttempt(p),
           permit'[p].pc \in PreparePCs, count' = count
    PROVE  PoolCounted' /\ CountType' /\ count'.direct = count.direct
  <1>1. Preparing(p)' /\ ~Running(p) /\ ~Running(p)'
    BY DEF Preparing, Running, PreparePCs, WithoutRun, RunPCs
  <1>2. PoolCounted /\ CountType /\ OnlyRow(p)
    BY DEF RuntimeInv, Shape, CountType, SameAttempt
  <1>3. QED BY <1>1, <1>2, StaysInPool DEF CountType

\* Its generation, its fence and the shutdown's claims on it stay as they are.
LEMMA AttemptKeepsItsGate ==
    ASSUME RuntimeInv, NEW p \in Permits, Alone(p), Preparing(p), SameAttempt(p),
           permit'[p].pc \in PreparePCs
    PROVE  /\ permit'[p].gen = gate'.gen /\ permit'[p].fence = gate'.fence
           /\ epoch' \in {0, gate'.fence}
           /\ recovery' # "rebuilding"
           /\ Drained' => p \in excused'
           /\ Released' => p \in excused'
           /\ Preparing(p)' /\ ~Running(p)'
           /\ permit'[p].pc \notin {"running", "releasing"}
           /\ stop' = stop
  <1>1. PermitOK(p)
    BY DEF RuntimeInv
  <1>2. /\ gate'.gen = gate.gen /\ gate'.fence = gate.fence
        /\ epoch' = epoch /\ recovery' = recovery /\ stop' = stop
        /\ p \in excused => p \in excused'
    BY DEF Alone, GatesKept
  <1>3. Preparing(p)' /\ ~Running(p)' /\ permit'[p].pc \notin {"running", "releasing"}
    BY DEF Preparing, Running, PreparePCs, WithoutRun, RunPCs
  <1>4. /\ permit[p].gen = gate.gen /\ permit[p].fence = gate.fence
        /\ epoch \in {0, gate.fence} /\ recovery # "rebuilding"
        /\ Drained => p \in excused
    BY <1>1 DEF PermitOK
  <1>5. QED BY <1>2, <1>3, <1>4 DEF SameAttempt, Drained, Released

\* What is left to show of a step within the attempt: what it holds and what it
\* owes the broker.
LEMMA AttemptStepInv ==
    ASSUME RuntimeInv, NEW p \in Permits, Alone(p), Preparing(p), SameAttempt(p),
           permit'[p].pc \in PreparePCs, count' = count,
           HoldsWhatItNames(p)', PoisonIsKept(p)',
           stop = "closed" => delivery'[p] # "unacked"
    PROVE  RuntimeInv'
  <1>1. PermitOK(p)'
    BY AttemptKeepsItsGate DEF PermitOK
  <1>2. QED BY <1>1, AttemptStays, AloneKeepsInv

\* An attempt that is aborted or released gives back its permit and its slot.
LEMMA FinishFacts ==
    ASSUME RuntimeInv, NEW p \in Permits, Preparing(p), FinishPrepareAndSlot(p)
    PROVE  /\ PoolCounted' /\ CountType' /\ count'.direct = count.direct
           /\ SameAttempt(p) /\ permit'[p].pc = "finished"
           /\ permit'[p].poison = permit[p].poison
  <1>1. "finished" \in Labels /\ permit \in [Permits -> Row] /\ PoolCounted /\ CountType
    BY DEF Labels, RuntimeInv, Shape, CountType
  <1>2. /\ SameAttempt(p) /\ permit'[p].pc = "finished"
        /\ permit'[p].poison = permit[p].poison
    BY <1>1, GotoFacts DEF FinishPrepareAndSlot
  <1>3. OnlyRow(p) /\ ~Preparing(p)' /\ ~Running(p)'
    BY <1>2 DEF SameAttempt, Preparing, Running, PreparePCs, WithoutRun, RunPCs
  <1>4. PoolCounted' /\ CountType'
    BY <1>1, <1>3, LeavesPool DEF FinishPrepareAndSlot
  <1>5. count'.direct = count.direct
    BY <1>1 DEF FinishPrepareAndSlot, CountType
  <1>6. QED BY <1>2, <1>4, <1>5

\* The facts that every step of a permit starts from.
LEMMA Given ==
    ASSUME RuntimeInv, NEW p \in Permits
    PROVE  /\ GateType /\ permit \in [Permits -> Row] /\ token \in [Permits -> Tokens]
           /\ delivery \in [Permits -> Settlements] /\ bound \in Budget
           /\ PermitOK(p) /\ HoldsWhatItNames(p) /\ PoisonIsKept(p)
           /\ stop = "closed" => delivery[p] # "unacked"
  BY DEF RuntimeInv, Shape, PermitOK

\* The turn ended without a delivery.
LEMMA AbortInv ==
    ASSUME RuntimeInv, NEW p \in Permits, Abort(p)
    PROVE  RuntimeInv'
  <1>1. GatesKept
    BY Given, ReportFacts DEF Abort
  <1>2. Preparing(p)
    BY DEF Abort, Preparing, PreparePCs
  <1>3. /\ PoolCounted' /\ CountType' /\ count'.direct = count.direct
        /\ SameAttempt(p) /\ permit'[p].pc = "finished"
        /\ permit'[p].poison = permit[p].poison
    BY <1>2, FinishFacts DEF Abort
  <1>4. Alone(p)
    BY <1>1, <1>3, Given
    DEF Abort, Alone, SameAttempt, OnlyRow, rabbitVars, redisVars, lifeVars
  <1>5. token'[p] = token[p] /\ delivery'[p] = delivery[p] /\ dead' = dead /\ stop' = stop
    BY DEF Abort, rabbitVars, redisVars, lifeVars
  <1>6. permit[p].pc = "reserved"
    BY DEF Abort
  <1>7. token[p] = "none" /\ ~permit[p].poison
    BY <1>6, Given DEF HoldsWhatItNames, PoisonIsKept
  <1>8. ~Preparing(p)' /\ ~Running(p)'
    BY <1>3 DEF Preparing, Running, PreparePCs, WithoutRun, RunPCs
  <1>9. HoldsWhatItNames(p)' /\ PoisonIsKept(p)'
    BY <1>3, <1>5, <1>7
    DEF HoldsWhatItNames, PoisonIsKept, WithoutRun, RunPCs
  <1>10. PermitOK(p)'
    BY <1>3, <1>5, <1>7, <1>8, <1>9, Given DEF PermitOK
  <1>11. QED BY <1>3, <1>4, <1>10, AloneKeepsInv

\* start: the delivery is a new one and its reservation provisional.
LEMMA StartInv ==
    ASSUME RuntimeInv, NEW p \in Permits, Start(p)
    PROVE  RuntimeInv'
  <1>1. GatesKept
    BY Given, GatesUntouched DEF Start
  <1>2. permit[p].pc = "reserved" /\ Preparing(p) /\ "queued" \in Labels /\ "queued" \in PreparePCs
    BY DEF Start, Preparing, PreparePCs, Labels
  <1>3. /\ SameAttempt(p) /\ permit'[p].pc = "queued" /\ permit'[p].poison = permit[p].poison
    BY <1>2, Given, GotoFacts DEF Start
  <1>4. Alone(p)
    BY <1>1, <1>3, Given
    DEF Start, Alone, SameAttempt, OnlyRow, redisVars, lifeVars, Tokens, Settlements
  <1>5. token'[p] = "provisional" /\ delivery'[p] = "unacked" /\ stop # "closed"
    BY Given DEF Start, Clients
  <1>6. ~permit[p].poison
    BY <1>2, Given DEF PoisonIsKept
  <1>7. HoldsWhatItNames(p)' /\ PoisonIsKept(p)'
    BY <1>3, <1>5, <1>6 DEF HoldsWhatItNames, PoisonIsKept, WithoutRun, RunPCs
  <1>8. QED BY <1>2, <1>3, <1>4, <1>5, <1>7, AttemptStepInv DEF Start

\* The prepare deadline only sets a flag.
LEMMA ExpireInv ==
    ASSUME RuntimeInv, NEW p \in Permits, Expire(p)
    PROVE  RuntimeInv'
  <1>1. GatesKept /\ bound' \in Budget
    BY Given, GatesUntouched, SpendFacts DEF Expire
  <1> DEFINE row == [permit[p] EXCEPT !.expired = TRUE]
  <1>2. permit[p] \in Row /\ permit' = [permit EXCEPT ![p] = row]
    BY Given DEF Expire
  <1>3. /\ row \in Row /\ row.pc = permit[p].pc /\ row.gen = permit[p].gen
        /\ row.fence = permit[p].fence /\ row.poison = permit[p].poison
        /\ row.names = permit[p].names
    BY <1>2 DEF Row
  <1> HIDE DEF row
  <1>4. SameAttempt(p) /\ permit'[p] = row
    BY <1>2, <1>3, Given DEF SameAttempt, OnlyRow
  <1>5. Preparing(p) /\ permit'[p].pc \in PreparePCs
    BY <1>3, <1>4 DEF Expire, Preparing
  <1>6. Alone(p)
    BY <1>1, <1>4, Given
    DEF Expire, Alone, SameAttempt, OnlyRow, rabbitVars, redisVars, lifeVars
  <1>7. token'[p] = token[p] /\ delivery'[p] = delivery[p] /\ dead' = dead /\ count' = count
        /\ excused' = excused
    BY DEF Expire, rabbitVars, redisVars
  <1>8. HoldsWhatItNames(p)' /\ PoisonIsKept(p)'
    BY <1>3, <1>4, <1>7, Given DEF HoldsWhatItNames, PoisonIsKept
  <1>9. QED BY <1>4, <1>5, <1>6, <1>7, <1>8, Given, AttemptStepInv

\* serveWorkerPermit takes the work.
LEMMA TakeWorkInv ==
    ASSUME RuntimeInv, NEW p \in Permits, TakeWork(p)
    PROVE  RuntimeInv'
  <1>1. GatesKept
    BY Given, GatesUntouched DEF TakeWork
  <1>2. permit[p].pc = "queued" /\ Preparing(p) /\ "prepare" \in Labels
        /\ "prepare" \in PreparePCs
    BY DEF TakeWork, PermitAt, Preparing, PreparePCs, Labels
  <1>3. /\ SameAttempt(p) /\ permit'[p].pc = "prepare" /\ permit'[p].poison = permit[p].poison
    BY <1>2, Given, GotoFacts DEF TakeWork
  <1>4. Alone(p)
    BY <1>1, <1>3, Given
    DEF TakeWork, Alone, SameAttempt, OnlyRow, rabbitVars, redisVars, lifeVars
  <1>5. token'[p] = token[p] /\ delivery'[p] = delivery[p] /\ dead' = dead /\ count' = count
    BY DEF TakeWork, rabbitVars, redisVars
  <1>6. HoldsWhatItNames(p)' /\ PoisonIsKept(p)'
    BY <1>2, <1>3, <1>5, Given DEF HoldsWhatItNames, PoisonIsKept, WithoutRun, RunPCs
  <1>7. QED BY <1>2, <1>3, <1>4, <1>5, <1>6, Given, AttemptStepInv

\* A step of Prepare that leaves Redis, Rabbit and the pool alone: what remains
\* is where the goroutine goes.
LEMMA PreparedStepInv ==
    ASSUME RuntimeInv, NEW p \in Permits, permit[p].pc = "prepare", GatesKept,
           SameAttempt(p), bound' \in Budget, fatal' = fatal \/ fatal' = "set",
           UNCHANGED <<token, delivery, dead, count, epoch, direct, recovery, cancelled, stop,
                       excused>>,
           \/ /\ permit'[p].pc \in {"nack", "ackRelease", "failing"}
              /\ permit'[p].names = {"provisional"} /\ ~permit'[p].poison
           \/ permit'[p].pc = "deadLetter" /\ permit'[p].names = {"provisional"}
           \/ permit'[p].pc = "bind" /\ ~permit'[p].poison
    PROVE  RuntimeInv'
  <1>1. Preparing(p) /\ permit'[p].pc \in PreparePCs
    BY DEF Preparing, PreparePCs, WithoutRun
  <1>2. Alone(p)
    BY Given DEF Alone, SameAttempt, OnlyRow
  <1>3. token[p] \in {"none", "provisional"} /\ delivery[p] # "acked"
    BY Given DEF HoldsWhatItNames, PoisonIsKept
  <1>4. HoldsWhatItNames(p)'
    BY <1>3 DEF HoldsWhatItNames, WithoutRun, RunPCs
  <1>5. PoisonIsKept(p)'
    BY <1>3 DEF PoisonIsKept
  <1>6. QED BY <1>1, <1>2, <1>4, <1>5, Given, AttemptStepInv

\* A poison row: the third of Prepare's answers.
LEMMA PoisonFacts ==
    ASSUME permit \in [Permits -> Row], NEW p \in Permits,
           permit' = [permit EXCEPT ![p].pc = "deadLetter", ![p].names = {"provisional"},
                                    ![p].poison = TRUE]
    PROVE  /\ SameAttempt(p) /\ permit'[p].pc = "deadLetter"
           /\ permit'[p].names = {"provisional"}
  <1> DEFINE first == [permit[p] EXCEPT !.pc = "deadLetter"]
             second == [first EXCEPT !.names = {"provisional"}]
             row == [second EXCEPT !.poison = TRUE]
  <1>1. permit[p] \in Row
    OBVIOUS
  <1>2. permit' = [permit EXCEPT ![p] = row]
    <2>1. [permit EXCEPT ![p].pc = "deadLetter"][p] = first
      OBVIOUS
    <2>2. [[permit EXCEPT ![p].pc = "deadLetter"] EXCEPT ![p].names = {"provisional"}][p]
            = second
      OBVIOUS
    <2>3. QED BY <2>1, <2>2
  <1>3. /\ first \in Row /\ first.pc = "deadLetter" /\ first.gen = permit[p].gen
        /\ first.fence = permit[p].fence
    BY <1>1 DEF Row, PreparePCs, WithoutRun
  <1> HIDE DEF first
  <1>4. /\ second \in Row /\ second.pc = "deadLetter" /\ second.gen = permit[p].gen
        /\ second.fence = permit[p].fence /\ second.names = {"provisional"}
    BY <1>3 DEF Row
  <1> HIDE DEF second
  <1>5. /\ row \in Row /\ row.pc = "deadLetter" /\ row.gen = permit[p].gen
        /\ row.fence = permit[p].fence /\ row.names = {"provisional"}
    BY <1>4 DEF Row
  <1> HIDE DEF row
  <1>6. permit' \in [Permits -> Row] /\ OnlyRow(p) /\ permit'[p] = row
    BY <1>2, <1>5 DEF OnlyRow
  <1>7. QED BY <1>5, <1>6 DEF SameAttempt

\* Prepare returns.
LEMMA PreparedInv ==
    ASSUME RuntimeInv, NEW p \in Permits, Prepared(p)
    PROVE  RuntimeInv'
  <1>1. permit[p].pc = "prepare" /\ ~permit[p].poison
    BY Given DEF Prepared, PermitAt, PoisonIsKept
  <1>2. UNCHANGED <<token, delivery, dead, count, epoch, direct, recovery, cancelled, stop,
                    excused, fatal, bound>>
    BY DEF Prepared, rabbitVars, redisVars, lifeVars
  <1>3. /\ {"nack", "ackRelease", "deadLetter", "bind"} \subseteq Labels
        /\ {"provisional"} \in SUBSET {"provisional", "stable"}
    BY DEF Labels, PreparePCs, WithoutRun
  <1>4. CASE Leave(p, "nack", {"provisional"}) /\ Report(permit[p].fence, permit[p].gen)
    <2>1. GatesKept
      BY <1>4, Given, ReportFacts
    <2>2. /\ SameAttempt(p) /\ permit'[p].pc = "nack" /\ permit'[p].names = {"provisional"}
          /\ ~permit'[p].poison
      BY <1>1, <1>3, <1>4, Given, LeaveFacts
    <2>3. QED BY <1>1, <1>2, <2>1, <2>2, Given, PreparedStepInv
  <1>5. CASE Leave(p, "ackRelease", {"provisional"}) /\ UNCHANGED gateVars
    <2>1. GatesKept
      BY <1>5, Given, GatesUntouched
    <2>2. /\ SameAttempt(p) /\ permit'[p].pc = "ackRelease"
          /\ permit'[p].names = {"provisional"} /\ ~permit'[p].poison
      BY <1>1, <1>3, <1>5, Given, LeaveFacts
    <2>3. QED BY <1>1, <1>2, <2>1, <2>2, Given, PreparedStepInv
  <1>6. CASE /\ permit' = [permit EXCEPT ![p].pc = "deadLetter", ![p].names = {"provisional"},
                                         ![p].poison = TRUE]
             /\ UNCHANGED gateVars
    <2>1. GatesKept
      BY <1>6, Given, GatesUntouched
    <2>2. /\ SameAttempt(p) /\ permit'[p].pc = "deadLetter"
          /\ permit'[p].names = {"provisional"}
      BY <1>6, Given, PoisonFacts
    <2>3. QED BY <1>1, <1>2, <2>1, <2>2, Given, PreparedStepInv
  <1>7. CASE PermitGoto(p, "bind") /\ UNCHANGED gateVars
    <2>1. GatesKept
      BY <1>7, Given, GatesUntouched
    <2>2. SameAttempt(p) /\ permit'[p].pc = "bind" /\ ~permit'[p].poison
      BY <1>1, <1>3, <1>7, Given, GotoFacts
    <2>3. QED BY <1>1, <1>2, <2>1, <2>2, Given, PreparedStepInv
  <1>8. QED BY <1>4, <1>5, <1>6, <1>7 DEF Prepared

\* A writer mismatch keeps the delivery and the reservation.
LEMMA PreparedFatalInv ==
    ASSUME RuntimeInv, NEW p \in Permits, PreparedFatal(p)
    PROVE  RuntimeInv'
  <1>1. permit[p].pc = "prepare" /\ ~permit[p].poison
    BY Given DEF PreparedFatal, PermitAt, PoisonIsKept
  <1>2. GatesKept /\ bound' \in Budget
    BY Given, GatesUntouched, SpendFacts DEF PreparedFatal
  <1>3. /\ "failing" \in Labels
        /\ {"provisional"} \in SUBSET {"provisional", "stable"}
    BY DEF Labels, PreparePCs, WithoutRun
  <1>4. /\ SameAttempt(p) /\ permit'[p].pc = "failing" /\ permit'[p].names = {"provisional"}
        /\ ~permit'[p].poison
    BY <1>1, <1>3, Given, LeaveFacts DEF PreparedFatal
  <1>5. /\ UNCHANGED <<token, delivery, dead, count, epoch, direct, recovery, cancelled, stop,
                       excused>>
        /\ fatal' = fatal \/ fatal' = "set"
    BY DEF PreparedFatal, rabbitVars, redisVars
  <1>6. QED BY <1>1, <1>2, <1>4, <1>5, PreparedStepInv

\* failAuthoritativeWriter has returned to the worker.
LEMMA FatalHandledInv ==
    ASSUME RuntimeInv, NEW p \in Permits, FatalHandled(p)
    PROVE  RuntimeInv'
  <1>1. GatesKept
    BY Given, GatesUntouched DEF FatalHandled
  <1>2. permit[p].pc = "failing" /\ Preparing(p) /\ "release" \in Labels
        /\ "release" \in PreparePCs
    BY DEF FatalHandled, PermitAt, Preparing, PreparePCs, WithoutRun, Labels
  <1>3. /\ SameAttempt(p) /\ permit'[p].pc = "release" /\ permit'[p].poison = permit[p].poison
        /\ permit'[p].names = permit[p].names
    BY <1>2, Given, GotoFacts DEF FatalHandled
  <1>4. Alone(p)
    BY <1>1, <1>3, Given
    DEF FatalHandled, Alone, SameAttempt, OnlyRow, rabbitVars, redisVars, lifeVars
  <1>5. token'[p] = token[p] /\ delivery'[p] = delivery[p] /\ dead' = dead /\ count' = count
    BY DEF FatalHandled, rabbitVars, redisVars
  <1>6. HoldsWhatItNames(p)' /\ PoisonIsKept(p)'
    BY <1>2, <1>3, <1>5, Given DEF HoldsWhatItNames, PoisonIsKept, WithoutRun, RunPCs
  <1>7. QED BY <1>2, <1>3, <1>4, <1>5, <1>6, Given, AttemptStepInv

\* What BindReservation does to Redis: an error may hide that it was committed.
LEMMA BindTokens ==
    ASSUME token \in [Permits -> Tokens], NEW p \in Permits, token[p] \in {"none", "provisional"},
           token' \in {token, [token EXCEPT ![p] = "stable"]}
    PROVE  /\ token' \in [Permits -> Tokens]
           /\ \A q \in Permits \ {p} : token'[q] = token[q]
           /\ token'[p] \in Tokens
  BY DEF Tokens

\* The bind confirms a claim, or leaves with both names to release.
LEMMA BindInv ==
    ASSUME RuntimeInv, NEW p \in Permits, Bind(p)
    PROVE  RuntimeInv'
  <1>1. permit[p].pc = "bind" /\ ~permit[p].poison /\ token[p] \in {"none", "provisional"}
        /\ Preparing(p)
    BY Given DEF Bind, PermitAt, PoisonIsKept, HoldsWhatItNames, Preparing, PreparePCs
  <1>2. UNCHANGED <<delivery, dead, count, epoch, direct, recovery, cancelled, stop,
                    excused, fatal>>
    BY DEF Bind, rabbitVars, lifeVars
  <1>3. /\ {"ack", "ackRelease"} \subseteq Labels /\ {"ack", "ackRelease"} \subseteq PreparePCs
        /\ Both \in SUBSET {"provisional", "stable"}
    BY DEF Labels, PreparePCs, WithoutRun, Both
  <1>4. \/ token' = [token EXCEPT ![p] = "stable"] /\ PermitGoto(p, "ack")
        \/ token' \in {token, [token EXCEPT ![p] = "stable"]} /\ Leave(p, "ackRelease", Both)
    BY DEF Bind
  <1>5. GatesKept /\ bound' \in Budget
    <2>1. \/ UNCHANGED gateVars
          \/ Report(permit[p].fence, permit[p].gen)
      BY DEF Bind
    <2>2. bound' = bound \/ Spend("fault")
      BY DEF Bind
    <2>3. QED BY <2>1, <2>2, Given, GatesUntouched, ReportFacts, SpendFacts
  <1>6. /\ token' \in [Permits -> Tokens]
        /\ \A q \in Permits \ {p} : token'[q] = token[q]
        /\ token'[p] \in Tokens
    BY <1>1, <1>4, Given, BindTokens
  <1>7. CASE token' = [token EXCEPT ![p] = "stable"] /\ PermitGoto(p, "ack")
    <2>1. SameAttempt(p) /\ permit'[p].pc = "ack" /\ ~permit'[p].poison
      BY <1>1, <1>3, <1>7, Given, GotoFacts
    <2>2. token'[p] = "stable"
      BY <1>7, Given
    <2>3. Alone(p)
      BY <1>2, <1>5, <1>6, <2>1, Given DEF Alone, SameAttempt, OnlyRow
    <2>4. HoldsWhatItNames(p)' /\ PoisonIsKept(p)'
      BY <2>1, <2>2 DEF HoldsWhatItNames, PoisonIsKept, WithoutRun, RunPCs
    <2>5. QED BY <1>1, <1>2, <1>3, <2>1, <2>3, <2>4, Given, AttemptStepInv
  <1>8. CASE Leave(p, "ackRelease", Both)
    <2>1. /\ SameAttempt(p) /\ permit'[p].pc = "ackRelease" /\ ~permit'[p].poison
          /\ permit'[p].names = Both
      BY <1>1, <1>3, <1>8, Given, LeaveFacts
    <2>2. Alone(p)
      BY <1>2, <1>5, <1>6, <2>1, Given DEF Alone, SameAttempt, OnlyRow
    <2>3. HoldsWhatItNames(p)' /\ PoisonIsKept(p)'
      BY <1>6, <2>1 DEF HoldsWhatItNames, PoisonIsKept, WithoutRun, RunPCs, Both, Tokens
    <2>4. QED BY <1>1, <1>2, <1>3, <2>1, <2>2, <2>3, Given, AttemptStepInv
  <1>9. QED BY <1>4, <1>7, <1>8

\* Ack and Nack settle p's delivery or fail, and settle nothing when the
\* connection is closed.
LEMMA SettleFacts ==
    ASSUME delivery \in [Permits -> Settlements], bound \in Budget, NEW p \in Permits,
           NEW how \in {"acked", "requeued"}, Settle(p, how)
    PROVE  /\ delivery' \in [Permits -> Settlements]
           /\ \A q \in Permits \ {p} : delivery'[q] = delivery[q]
           /\ delivery'[p] \in {delivery[p], how}
           /\ delivery' # delivery => delivery'[p] = how
           /\ bound' \in Budget
  <1>1. bound' = bound \/ Spend("fault")
    BY DEF Settle
  <1>2. bound' \in Budget
    BY <1>1, SpendFacts
  <1>3. delivery' = delivery \/ delivery' = [delivery EXCEPT ![p] = how]
    BY DEF Settle
  <1>4. QED BY <1>2, <1>3 DEF Settlements

\* The claim is acknowledged only after it was bound.
LEMMA AckClaimInv ==
    ASSUME RuntimeInv, NEW p \in Permits, AckClaim(p)
    PROVE  RuntimeInv'
  <1>1. permit[p].pc = "ack" /\ ~permit[p].poison /\ token[p] \in {"none", "stable"}
        /\ Preparing(p)
    BY Given DEF AckClaim, PermitAt, PoisonIsKept, HoldsWhatItNames, Preparing, PreparePCs
  <1>2. UNCHANGED <<token, dead, count, epoch, direct, recovery, cancelled, stop,
                    excused, fatal>>
    BY DEF AckClaim, redisVars, lifeVars
  <1>3. /\ {"begin", "release"} \subseteq Labels /\ {"begin", "release"} \subseteq PreparePCs
        /\ Both \in SUBSET {"provisional", "stable"}
    BY DEF Labels, PreparePCs, WithoutRun, Both
  <1>4. /\ delivery' \in [Permits -> Settlements]
        /\ \A q \in Permits \ {p} : delivery'[q] = delivery[q]
        /\ delivery'[p] \in {delivery[p], "acked"}
        /\ bound' \in Budget
    BY Given, SettleFacts DEF AckClaim
  <1>5. GatesKept
    BY Given, GatesUntouched DEF AckClaim
  <1>6. /\ SameAttempt(p) /\ ~permit'[p].poison
        /\ \/ permit'[p].pc = "begin"
           \/ permit'[p].pc = "release" /\ permit'[p].names = Both
    BY <1>1, <1>3, Given, GotoFacts, LeaveFacts DEF AckClaim
  <1>7. Alone(p)
    BY <1>2, <1>4, <1>5, <1>6, Given DEF Alone, SameAttempt, OnlyRow
  <1>8. HoldsWhatItNames(p)' /\ PoisonIsKept(p)'
    BY <1>1, <1>2, <1>6 DEF HoldsWhatItNames, PoisonIsKept, WithoutRun, RunPCs, Both
  <1>9. stop = "closed" => delivery'[p] # "unacked"
    BY <1>4, Given
  <1>10. permit'[p].pc \in PreparePCs
    BY <1>3, <1>6
  <1>11. QED BY <1>1, <1>2, <1>6, <1>7, <1>8, <1>9, <1>10, AttemptStepInv

\* beginRun registers the task unless a fatal error is set.
LEMMA BeginRunInv ==
    ASSUME RuntimeInv, NEW p \in Permits, BeginRun(p)
    PROVE  RuntimeInv'
  <1>1. permit[p].pc = "begin" /\ token[p] \in {"none", "stable"} /\ Preparing(p)
    BY Given DEF BeginRun, PermitAt, HoldsWhatItNames, Preparing, PreparePCs
  <1>2. UNCHANGED <<token, delivery, dead, epoch, direct, recovery, cancelled, stop,
                    excused, fatal, bound>>
    BY DEF BeginRun, redisVars, rabbitVars, lifeVars
  <1>3. /\ {"running", "release"} \subseteq Labels /\ "release" \in PreparePCs
        /\ Both \in SUBSET {"provisional", "stable"}
    BY DEF Labels, PreparePCs, RunPCs, WithoutRun, Both
  <1>4. GatesKept
    BY Given, GatesUntouched DEF BeginRun
  <1>5. CASE Leave(p, "release", Both) /\ UNCHANGED count
    <2>1. /\ SameAttempt(p) /\ permit'[p].poison = permit[p].poison
          /\ permit'[p].pc = "release" /\ permit'[p].names = Both
      BY <1>3, <1>5, Given, LeaveFacts
    <2>2. Alone(p)
      BY <1>2, <1>4, <2>1, Given DEF Alone, SameAttempt, OnlyRow
    <2>3. HoldsWhatItNames(p)' /\ PoisonIsKept(p)'
      BY <1>1, <1>2, <2>1, Given
      DEF HoldsWhatItNames, PoisonIsKept, WithoutRun, RunPCs, Both
    <2>4. QED BY <1>1, <1>2, <1>3, <1>5, <2>1, <2>2, <2>3, Given, AttemptStepInv
  <1>6. CASE /\ fatal = "no" /\ PermitGoto(p, "running")
             /\ count' = [count EXCEPT !.prepare = @ - 1]
    <2>1. /\ SameAttempt(p) /\ permit'[p].poison = permit[p].poison
          /\ permit'[p].pc = "running"
      BY <1>3, <1>6, Given, GotoFacts
    <2>2. Alone(p)
      BY <1>2, <1>4, <2>1, Given DEF Alone, SameAttempt, OnlyRow
    <2>3. HoldsWhatItNames(p)' /\ PoisonIsKept(p)'
      BY <1>1, <1>2, <2>1, Given
      DEF HoldsWhatItNames, PoisonIsKept, WithoutRun, RunPCs
    <2>4. OnlyRow(p) /\ ~Preparing(p)' /\ Running(p)'
      BY <2>1 DEF SameAttempt, Preparing, Running, PreparePCs, WithoutRun, RunPCs
    <2>5. PermitOK(p)'
      <3>1. recovery # "rebuilding" /\ (Drained => p \in excused)
        BY <1>1, Given DEF PermitOK
      <3>2. Released => p \in excused
        BY <3>1 DEF Drained, Released
      <3>3. stop = "closed" => delivery[p] # "unacked"
        BY Given
      <3>4. (Released' <=> Released) /\ excused' = excused /\ fatal' = "no"
            /\ delivery' = delivery /\ stop' = stop /\ recovery' = recovery
        BY <1>2, <1>6 DEF Released
      <3>5. QED BY <2>1, <2>3, <2>4, <3>1, <3>2, <3>3, <3>4 DEF PermitOK
    <2>6. PoolCounted /\ CountType
      BY DEF RuntimeInv, Shape, CountType
    <2>7. PoolCounted' /\ CountType' /\ count'.direct = count.direct
      BY <1>1, <1>6, <2>4, <2>6, AttemptBecomesRun DEF CountType
    <2>8. QED BY <2>2, <2>5, <2>7, AloneKeepsInv
  <1>7. QED BY <1>5, <1>6 DEF BeginRun

\* A requeued message goes back to the broker, a failed NACK leaves it there.
LEMMA NackInv ==
    ASSUME RuntimeInv, NEW p \in Permits, Nack(p)
    PROVE  RuntimeInv'
  <1>1. permit[p].pc \in {"nack", "requeueDead"} /\ Preparing(p)
    BY DEF Nack, PermitAt, Preparing, PreparePCs, WithoutRun
  <1>2. UNCHANGED <<token, dead, count, epoch, direct, recovery, cancelled, stop,
                    excused, fatal>>
    BY DEF Nack, redisVars, lifeVars
  <1>3. PICK label \in {"release", "activate"} : PermitGoto(p, label)
    <2>1. CASE delivery' = delivery
      BY <2>1 DEF Nack
    <2>2. CASE delivery' # delivery
      BY <2>2 DEF Nack
    <2>3. QED BY <2>1, <2>2
  <1>4. label \in Labels /\ label \in PreparePCs
    BY DEF Labels, PreparePCs, WithoutRun
  <1>5. /\ delivery' \in [Permits -> Settlements]
        /\ \A q \in Permits \ {p} : delivery'[q] = delivery[q]
        /\ delivery'[p] \in {delivery[p], "requeued"}
        /\ bound' \in Budget
    BY Given, SettleFacts DEF Nack
  <1>6. GatesKept
    BY Given, GatesUntouched DEF Nack
  <1>7. /\ SameAttempt(p) /\ permit'[p].pc = label /\ permit'[p].poison = permit[p].poison
        /\ permit'[p].names = permit[p].names
    BY <1>3, <1>4, Given, GotoFacts
  <1>8. Alone(p)
    BY <1>2, <1>5, <1>6, <1>7, Given DEF Alone, SameAttempt, OnlyRow
  <1>9. HoldsWhatItNames(p)'
    BY <1>1, <1>2, <1>7, Given DEF HoldsWhatItNames, WithoutRun, RunPCs
  <1>10. PoisonIsKept(p)'
    BY <1>1, <1>2, <1>5, <1>7, Given DEF PoisonIsKept
  <1>11. stop = "closed" => delivery'[p] # "unacked"
    BY <1>5, Given
  <1>12. QED BY <1>1, <1>2, <1>4, <1>7, <1>8, <1>9, <1>10, <1>11, AttemptStepInv

\* EnsureActive after a NACK.
LEMMA ActivateInv ==
    ASSUME RuntimeInv, NEW p \in Permits, Activate(p)
    PROVE  RuntimeInv'
  <1>1. GatesKept
    BY Given, ReportFacts DEF Activate
  <1>2. permit[p].pc = "activate" /\ Preparing(p) /\ "release" \in Labels
        /\ "release" \in PreparePCs
    BY DEF Activate, PermitAt, Preparing, PreparePCs, WithoutRun, Labels
  <1>3. /\ SameAttempt(p) /\ permit'[p].pc = "release" /\ permit'[p].poison = permit[p].poison
        /\ permit'[p].names = permit[p].names
    BY <1>2, Given, GotoFacts DEF Activate
  <1>4. Alone(p)
    BY <1>1, <1>3, Given
    DEF Activate, Alone, SameAttempt, OnlyRow, rabbitVars, redisVars, lifeVars
  <1>5. token'[p] = token[p] /\ delivery'[p] = delivery[p] /\ dead' = dead /\ count' = count
    BY DEF Activate, rabbitVars, redisVars
  <1>6. HoldsWhatItNames(p)' /\ PoisonIsKept(p)'
    BY <1>2, <1>3, <1>5, Given DEF HoldsWhatItNames, PoisonIsKept, WithoutRun, RunPCs
  <1>7. QED BY <1>2, <1>3, <1>4, <1>5, <1>6, Given, AttemptStepInv

\* An ACK without a run; a poison message gets here only with its copy made.
LEMMA AckReleaseInv ==
    ASSUME RuntimeInv, NEW p \in Permits, AckRelease(p)
    PROVE  RuntimeInv'
  <1>1. permit[p].pc = "ackRelease" /\ Preparing(p) /\ "release" \in Labels
        /\ "release" \in PreparePCs
    BY DEF AckRelease, PermitAt, Preparing, PreparePCs, WithoutRun, Labels
  <1>2. UNCHANGED <<token, dead, count, epoch, direct, recovery, cancelled, stop,
                    excused, fatal>>
    BY DEF AckRelease, redisVars, lifeVars
  <1>3. /\ delivery' \in [Permits -> Settlements]
        /\ \A q \in Permits \ {p} : delivery'[q] = delivery[q]
        /\ delivery'[p] \in {delivery[p], "acked"}
        /\ bound' \in Budget
    BY Given, SettleFacts DEF AckRelease
  <1>4. GatesKept
    BY Given, GatesUntouched DEF AckRelease
  <1>5. /\ SameAttempt(p) /\ permit'[p].pc = "release" /\ permit'[p].poison = permit[p].poison
        /\ permit'[p].names = permit[p].names
    BY <1>1, Given, GotoFacts DEF AckRelease
  <1>6. Alone(p)
    BY <1>2, <1>3, <1>4, <1>5, Given DEF Alone, SameAttempt, OnlyRow
  <1>7. permit[p].poison => p \in dead
    BY <1>1, Given DEF PoisonIsKept
  <1>8. HoldsWhatItNames(p)' /\ PoisonIsKept(p)'
    BY <1>1, <1>2, <1>5, <1>7, Given DEF HoldsWhatItNames, PoisonIsKept, WithoutRun, RunPCs
  <1>9. stop = "closed" => delivery'[p] # "unacked"
    BY <1>3, Given
  <1>10. QED BY <1>1, <1>2, <1>5, <1>6, <1>8, <1>9, AttemptStepInv

\* The copy in the dead letter queue comes before the ACK.
LEMMA DeadLetterInv ==
    ASSUME RuntimeInv, NEW p \in Permits, DeadLetter(p)
    PROVE  RuntimeInv'
  <1>1. permit[p].pc = "deadLetter" /\ Preparing(p) /\ delivery[p] # "acked"
    BY Given DEF DeadLetter, PermitAt, Preparing, PreparePCs, WithoutRun, PoisonIsKept
  <1>2. UNCHANGED <<token, delivery, count, epoch, direct, recovery, cancelled, stop,
                    excused, fatal>>
    BY DEF DeadLetter, redisVars, lifeVars
  <1>3. GatesKept
    BY Given, GatesUntouched DEF DeadLetter
  <1>4. bound' \in Budget
    <2>1. bound' = bound \/ Spend("fault")
      BY DEF DeadLetter
    <2>2. QED BY <2>1, Given, SpendFacts
  <1>5. PICK label \in {"ackRelease", "requeueDead"} :
           PermitGoto(p, label) /\ (label = "ackRelease" => p \in dead')
    BY DEF DeadLetter
  <1>6. dead \subseteq dead'
    BY DEF DeadLetter
  <1>7. label \in Labels /\ label \in PreparePCs
    BY DEF Labels, PreparePCs, WithoutRun
  <1>8. /\ SameAttempt(p) /\ permit'[p].pc = label /\ permit'[p].poison = permit[p].poison
        /\ permit'[p].names = permit[p].names
    BY <1>5, <1>7, Given, GotoFacts
  <1>9. Alone(p)
    BY <1>2, <1>3, <1>4, <1>6, <1>8, Given DEF Alone, SameAttempt, OnlyRow
  <1>10. HoldsWhatItNames(p)'
    BY <1>1, <1>2, <1>8, Given DEF HoldsWhatItNames, WithoutRun, RunPCs
  <1>11. PoisonIsKept(p)'
    BY <1>1, <1>2, <1>5, <1>8 DEF PoisonIsKept
  <1>12. QED BY <1>1, <1>2, <1>7, <1>8, <1>9, <1>10, <1>11, Given, AttemptStepInv

\* A release under the latest gate takes the reservation away or is excused, and
\* so does one that was excused before: no release is lost as a stale one.
LEMMA ReleaseFacts ==
    ASSUME token \in [Permits -> Tokens], bound \in Budget, NEW p \in Permits,
           NEW fence, NEW names, ReleaseToken(p, fence, names),
           fence = gate.fence \/ p \in excused, token[p] \in {"none"} \cup names
    PROVE  /\ token' \in [Permits -> Tokens]
           /\ \A q \in Permits \ {p} : token'[q] = token[q]
           /\ token'[p] = "none" \/ p \in excused'
           /\ excused \subseteq excused' /\ bound' \in Budget
  <1>1. CASE /\ fence = epoch
             /\ token' = IF token[p] \in names THEN [token EXCEPT ![p] = "none"] ELSE token
             /\ UNCHANGED <<excused, bound>>
    BY <1>1 DEF Tokens
  <1>2. CASE /\ CASE ~Clients \/ epoch # gate.fence ->
                       excused' = excused \cup {p} /\ UNCHANGED bound
                  [] Clients /\ epoch = gate.fence /\ fence # epoch ->
                       UNCHANGED <<excused, bound>>
                  [] OTHER -> excused' = excused \cup {p} /\ Spend("fault")
             /\ UNCHANGED token
    <2>1. Clients /\ epoch = gate.fence /\ fence # epoch => p \in excused
      OBVIOUS
    <2>2. /\ excused' = excused \cup {p} \/ (excused' = excused /\ p \in excused)
          /\ bound' = bound \/ Spend("fault")
      BY <1>2, <2>1
    <2>3. bound' \in Budget
      BY <2>2, SpendFacts
    <2>4. QED BY <1>2, <2>2, <2>3
  <1>3. QED BY <1>1, <1>2 DEF ReleaseToken

\* finishWithoutRun: the attempt's reservation is gone or excused.
LEMMA ReleaseAttemptInv ==
    ASSUME RuntimeInv, NEW p \in Permits, ReleaseAttempt(p)
    PROVE  RuntimeInv'
  <1>1. /\ permit[p].pc = "release" /\ Preparing(p) /\ permit[p].fence = gate.fence
        /\ token[p] \in {"none"} \cup permit[p].names
    BY Given DEF ReleaseAttempt, PermitAt, PermitOK, HoldsWhatItNames, Preparing,
       PreparePCs, WithoutRun
  <1>2. UNCHANGED <<delivery, dead, epoch, direct, recovery, cancelled, stop, fatal>>
    BY DEF ReleaseAttempt, rabbitVars, lifeVars
  <1>3. GatesKept
    <2>1. UNCHANGED gateVars \/ Report(permit[p].fence, permit[p].gen)
      BY DEF ReleaseAttempt
    <2>2. QED BY <2>1, Given, GatesUntouched, ReportFacts
  <1>4. /\ token' \in [Permits -> Tokens]
        /\ \A q \in Permits \ {p} : token'[q] = token[q]
        /\ token'[p] = "none" \/ p \in excused'
        /\ excused \subseteq excused' /\ bound' \in Budget
    BY <1>1, Given, ReleaseFacts DEF ReleaseAttempt
  <1>5. /\ PoolCounted' /\ CountType' /\ count'.direct = count.direct
        /\ SameAttempt(p) /\ permit'[p].pc = "finished"
        /\ permit'[p].poison = permit[p].poison
    BY <1>1, FinishFacts DEF ReleaseAttempt
  <1>6. Alone(p)
    BY <1>2, <1>3, <1>4, <1>5, Given DEF Alone, SameAttempt, OnlyRow
  <1>7. HoldsWhatItNames(p)' /\ PoisonIsKept(p)'
    BY <1>2, <1>4, <1>5, Given DEF HoldsWhatItNames, PoisonIsKept, WithoutRun, RunPCs
  <1>8. ~Preparing(p)' /\ ~Running(p)'
    BY <1>5 DEF Preparing, Running, PreparePCs, WithoutRun, RunPCs
  <1>9. PermitOK(p)'
    BY <1>2, <1>4, <1>5, <1>7, <1>8, Given DEF PermitOK
  <1>10. QED BY <1>5, <1>6, <1>9, AloneKeepsInv

\* A task that runs on, or ends without its release yet, and a heartbeat: only
\* p's row differs, and it stays where it is or moves on among the running.
LEMMA RunStepInv ==
    ASSUME RuntimeInv, NEW p \in Permits, GatesKept, SameAttempt(p), bound' \in Budget,
           permit'[p].names = permit[p].names, permit'[p].poison = permit[p].poison,
           \/ /\ permit'[p].pc = permit[p].pc
              /\ permit'[p].cancelled = permit[p].cancelled
           \/ permit[p].pc \in RunPCs /\ permit'[p].pc \in {"runFatal", "ending"},
           fatal' = fatal \/ fatal' = "set",
           UNCHANGED <<token, delivery, dead, count, epoch, direct, recovery, cancelled, stop,
                       excused>>
    PROVE  RuntimeInv'
  <1>1. Alone(p)
    BY Given DEF Alone, SameAttempt, OnlyRow
  <1>2. (Preparing(p)' <=> Preparing(p)) /\ (Running(p)' <=> Running(p))
    BY DEF Preparing, Running, PreparePCs, WithoutRun, RunPCs
  <1>3. PoolCounted' /\ CountType' /\ count'.direct = count.direct
    <2>1. PoolCounted /\ CountType /\ OnlyRow(p)
      BY DEF RuntimeInv, Shape, CountType, SameAttempt
    <2>2. QED BY <1>2, <2>1, StaysInPool DEF CountType
  <1>4. HoldsWhatItNames(p)'
    BY Given DEF HoldsWhatItNames, WithoutRun, RunPCs
  <1>5. PoisonIsKept(p)'
    BY Given DEF PoisonIsKept, RunPCs
  <1>6. /\ gate'.gen = gate.gen /\ gate'.fence = gate.fence
        /\ (Drained' <=> Drained) /\ (Released' <=> Released)
    BY <1>1 DEF Alone, GatesKept, Drained, Released
  <1>7. fatal' = "done" /\ permit'[p].pc = "running" => permit'[p].cancelled
    BY Given DEF PermitOK
  <1>8. permit'[p].pc = "releasing" => permit'[p].fence = gate'.fence \/ p \in excused'
    BY <1>6, Given DEF PermitOK, SameAttempt
  <1>9. PermitOK(p)'
    BY <1>2, <1>4, <1>5, <1>6, <1>7, <1>8, Given DEF PermitOK, SameAttempt
  <1>10. QED BY <1>1, <1>3, <1>9, AloneKeepsInv

\* A row with another heartbeat.
LEMMA BeatFacts ==
    ASSUME permit \in [Permits -> Row], NEW p \in Permits, NEW beat \in Nat,
           permit' = [permit EXCEPT ![p].beat = beat]
    PROVE  /\ SameAttempt(p) /\ permit'[p].pc = permit[p].pc
           /\ permit'[p].names = permit[p].names /\ permit'[p].poison = permit[p].poison
           /\ permit'[p].cancelled = permit[p].cancelled
  <1> DEFINE row == [permit[p] EXCEPT !.beat = beat]
  <1>1. permit[p] \in Row /\ permit' = [permit EXCEPT ![p] = row]
    OBVIOUS
  <1>2. /\ row \in Row /\ row.pc = permit[p].pc /\ row.gen = permit[p].gen
        /\ row.fence = permit[p].fence /\ row.names = permit[p].names
        /\ row.poison = permit[p].poison /\ row.cancelled = permit[p].cancelled
    BY <1>1 DEF Row
  <1> HIDE DEF row
  <1>3. permit' \in [Permits -> Row] /\ OnlyRow(p) /\ permit'[p] = row
    BY <1>1, <1>2 DEF OnlyRow
  <1>4. QED BY <1>2, <1>3 DEF SameAttempt

\* A heartbeat begins with the latest gate.
LEMMA HeartbeatBeginsInv ==
    ASSUME RuntimeInv, NEW p \in Permits, HeartbeatBegins(p)
    PROVE  RuntimeInv'
  <1>1. GatesKept /\ bound' \in Budget
    BY Given, GatesUntouched, SpendFacts DEF HeartbeatBegins
  <1>2. gate.gen \in Nat
    BY Given DEF GateType
  <1>3. /\ SameAttempt(p) /\ permit'[p].pc = permit[p].pc
        /\ permit'[p].names = permit[p].names /\ permit'[p].poison = permit[p].poison
        /\ permit'[p].cancelled = permit[p].cancelled
    BY <1>2, Given, BeatFacts DEF HeartbeatBegins
  <1>4. UNCHANGED <<token, delivery, dead, count, epoch, direct, recovery, cancelled, stop,
                    excused, fatal>>
    BY DEF HeartbeatBegins, rabbitVars, redisVars, lifeVars
  <1>5. QED BY <1>1, <1>3, <1>4, RunStepInv

\* Its failure closes the gate it began under.
LEMMA HeartbeatFailsInv ==
    ASSUME RuntimeInv, NEW p \in Permits, HeartbeatFails(p)
    PROVE  RuntimeInv'
  <1>1. GatesKept
    BY Given, CloseGatesForFacts DEF HeartbeatFails
  <1>2. /\ SameAttempt(p) /\ permit'[p].pc = permit[p].pc
        /\ permit'[p].names = permit[p].names /\ permit'[p].poison = permit[p].poison
        /\ permit'[p].cancelled = permit[p].cancelled
    BY Given, BeatFacts DEF HeartbeatFails, NoBeat
  <1>3. UNCHANGED <<token, delivery, dead, count, epoch, direct, recovery, cancelled, stop,
                    excused, fatal, bound>>
    BY DEF HeartbeatFails, rabbitVars, redisVars, lifeVars
  <1>4. QED BY <1>1, <1>2, <1>3, Given, RunStepInv

\* The row of a task that has ended.
LEMMA EndingFacts ==
    ASSUME permit \in [Permits -> Row], NEW p \in Permits,
           permit' = [permit EXCEPT ![p].pc = "ending", ![p].cancelled = TRUE]
    PROVE  /\ SameAttempt(p) /\ permit'[p].pc = "ending"
           /\ permit'[p].names = permit[p].names /\ permit'[p].poison = permit[p].poison
  <1> DEFINE first == [permit[p] EXCEPT !.pc = "ending"]
             row == [first EXCEPT !.cancelled = TRUE]
  <1>1. permit[p] \in Row
    OBVIOUS
  <1>2. permit' = [permit EXCEPT ![p] = row]
    <2>1. [permit EXCEPT ![p].pc = "ending"][p] = first
      OBVIOUS
    <2>2. QED BY <2>1
  <1>3. /\ first \in Row /\ first.pc = "ending" /\ first.gen = permit[p].gen
        /\ first.fence = permit[p].fence /\ first.names = permit[p].names
        /\ first.poison = permit[p].poison
    BY <1>1 DEF Row, RunPCs
  <1> HIDE DEF first
  <1>4. /\ row \in Row /\ row.pc = "ending" /\ row.gen = permit[p].gen
        /\ row.fence = permit[p].fence /\ row.names = permit[p].names
        /\ row.poison = permit[p].poison
    BY <1>3 DEF Row
  <1> HIDE DEF row
  <1>5. permit' \in [Permits -> Row] /\ OnlyRow(p) /\ permit'[p] = row
    BY <1>2, <1>4 DEF OnlyRow
  <1>6. QED BY <1>4, <1>5 DEF SameAttempt

\* Run returns; the reservation waits for its release.
LEMMA RunReturnsInv ==
    ASSUME RuntimeInv, NEW p \in Permits, RunReturns(p) \/ RunFatalHandled(p)
    PROVE  RuntimeInv'
  <1>1. GatesKept
    BY Given, GatesUntouched DEF RunReturns, RunFatalHandled
  <1>2. permit[p].pc \in RunPCs
    BY DEF RunReturns, RunFatalHandled, PermitAt, RunPCs
  <1>3. /\ SameAttempt(p) /\ permit'[p].pc = "ending"
        /\ permit'[p].names = permit[p].names /\ permit'[p].poison = permit[p].poison
    BY Given, EndingFacts DEF RunReturns, RunFatalHandled
  <1>4. UNCHANGED <<token, delivery, dead, count, epoch, direct, recovery, cancelled, stop,
                    excused, fatal, bound>>
    BY DEF RunReturns, RunFatalHandled, rabbitVars, redisVars, lifeVars
  <1>5. QED BY <1>1, <1>2, <1>3, <1>4, Given, RunStepInv

\* A task meets a writer mismatch.
LEMMA RunFatalInv ==
    ASSUME RuntimeInv, NEW p \in Permits, RunFatal(p)
    PROVE  RuntimeInv'
  <1>1. GatesKept /\ bound' \in Budget
    BY Given, GatesUntouched, SpendFacts DEF RunFatal
  <1>2. permit[p].pc \in RunPCs /\ "runFatal" \in Labels
    BY DEF RunFatal, PermitAt, RunPCs, Labels
  <1>3. /\ SameAttempt(p) /\ permit'[p].pc = "runFatal"
        /\ permit'[p].names = permit[p].names /\ permit'[p].poison = permit[p].poison
    BY <1>2, Given, GotoFacts DEF RunFatal
  <1>4. /\ UNCHANGED <<token, delivery, dead, count, epoch, direct, recovery, cancelled, stop,
                       excused>>
        /\ fatal' = fatal \/ fatal' = "set"
    BY DEF RunFatal, rabbitVars, redisVars
  <1>5. QED BY <1>1, <1>2, <1>3, <1>4, RunStepInv

\* The row of a task that has read a fence.
LEMMA FenceFacts ==
    ASSUME permit \in [Permits -> Row], NEW p \in Permits, NEW f \in Nat, NEW g \in Nat,
           permit' = [permit EXCEPT ![p].pc = "releasing", ![p].fence = f, ![p].gen = g]
    PROVE  /\ permit' \in [Permits -> Row] /\ OnlyRow(p)
           /\ permit'[p].pc = "releasing" /\ permit'[p].fence = f
           /\ permit'[p].names = permit[p].names /\ permit'[p].poison = permit[p].poison
  <1> DEFINE first == [permit[p] EXCEPT !.pc = "releasing"]
             second == [first EXCEPT !.fence = f]
             row == [second EXCEPT !.gen = g]
  <1>1. permit[p] \in Row
    OBVIOUS
  <1>2. permit' = [permit EXCEPT ![p] = row]
    <2>1. [permit EXCEPT ![p].pc = "releasing"][p] = first
      OBVIOUS
    <2>2. [permit EXCEPT ![p].pc = "releasing", ![p].fence = f][p] = second
      BY <2>1
    <2>3. QED BY <2>1, <2>2
  <1>3. /\ first \in Row /\ first.pc = "releasing"
        /\ first.names = permit[p].names /\ first.poison = permit[p].poison
    BY <1>1 DEF Row, RunPCs
  <1> HIDE DEF first
  <1>4. /\ second \in Row /\ second.pc = "releasing" /\ second.fence = f
        /\ second.names = permit[p].names /\ second.poison = permit[p].poison
    BY <1>3 DEF Row
  <1> HIDE DEF second
  <1>5. /\ row \in Row /\ row.pc = "releasing" /\ row.fence = f
        /\ row.names = permit[p].names /\ row.poison = permit[p].poison
    BY <1>4 DEF Row
  <1> HIDE DEF row
  <1>6. permit' \in [Permits -> Row] /\ OnlyRow(p) /\ permit'[p] = row
    BY <1>2, <1>5 DEF OnlyRow
  <1>7. QED BY <1>5, <1>6

\* latestFence: what is read is the fence of the gate, at that moment.
LEMMA ReadLatestFenceInv ==
    ASSUME RuntimeInv, NEW p \in Permits, ReadLatestFence(p)
    PROVE  RuntimeInv'
  <1>1. permit[p].pc = "ending" /\ gate.fence \in Nat /\ gate.gen \in Nat
    BY Given DEF ReadLatestFence, PermitAt, GateType
  <1>2. /\ permit' \in [Permits -> Row] /\ OnlyRow(p)
        /\ permit'[p].pc = "releasing" /\ permit'[p].fence = gate.fence
        /\ permit'[p].names = permit[p].names /\ permit'[p].poison = permit[p].poison
    <2>1. permit' = [permit EXCEPT ![p].pc = "releasing", ![p].fence = gate.fence,
                                  ![p].gen = gate.gen]
      BY DEF ReadLatestFence
    <2>2. QED BY <1>1, <2>1, Given, FenceFacts
  <1>3. /\ UNCHANGED <<token, delivery, dead, count, epoch, direct, recovery, cancelled, stop,
                       excused, fatal, bound>>
        /\ UNCHANGED gateVars
    BY DEF ReadLatestFence, rabbitVars, redisVars, lifeVars
  <1>4. GatesKept /\ gate' = gate
    BY <1>3, Given, GatesUntouched DEF gateVars
  <1>5. Alone(p)
    BY <1>2, <1>3, <1>4, Given DEF Alone, OnlyRow
  <1>6. Running(p) /\ Running(p)' /\ ~Preparing(p) /\ ~Preparing(p)'
    BY <1>1, <1>2 DEF Preparing, Running, PreparePCs, WithoutRun, RunPCs
  <1>7. PoolCounted' /\ CountType' /\ count'.direct = count.direct
    <2>1. PoolCounted /\ CountType
      BY DEF RuntimeInv, Shape, CountType
    <2>2. QED BY <1>2, <1>3, <1>6, <2>1, StaysInPool DEF CountType
  <1>8. HoldsWhatItNames(p)' /\ PoisonIsKept(p)'
    BY <1>1, <1>2, <1>3, Given DEF HoldsWhatItNames, PoisonIsKept, WithoutRun, RunPCs
  <1>9. (Drained' <=> Drained) /\ (Released' <=> Released)
    BY <1>3 DEF Drained, Released
  <1>10. PermitOK(p)'
    BY <1>1, <1>2, <1>3, <1>4, <1>6, <1>8, <1>9, Given DEF PermitOK
  <1>11. QED BY <1>5, <1>7, <1>10, AloneKeepsInv

\* finishRun: the stable reservation is released under the fence that was read.
LEMMA ReleaseRunInv ==
    ASSUME RuntimeInv, NEW p \in Permits, ReleaseRun(p)
    PROVE  RuntimeInv'
  <1>1. /\ permit[p].pc = "releasing" /\ Running(p) /\ ~Preparing(p) /\ "finished" \in Labels
        /\ permit[p].fence = gate.fence \/ p \in excused
        /\ token[p] \in {"none"} \cup {"stable"}
    BY Given DEF ReleaseRun, PermitAt, PermitOK, HoldsWhatItNames, Preparing, Running,
       PreparePCs, WithoutRun, RunPCs, Labels
  <1>2. UNCHANGED <<delivery, dead, epoch, direct, recovery, cancelled, stop, fatal>>
    BY DEF ReleaseRun, rabbitVars, lifeVars
  <1>3. GatesKept
    <2>1. UNCHANGED gateVars \/ Report(permit[p].fence, permit[p].gen)
      BY DEF ReleaseRun
    <2>2. QED BY <2>1, Given, GatesUntouched, ReportFacts
  <1>4. /\ token' \in [Permits -> Tokens]
        /\ \A q \in Permits \ {p} : token'[q] = token[q]
        /\ token'[p] = "none" \/ p \in excused'
        /\ excused \subseteq excused' /\ bound' \in Budget
    BY <1>1, Given, ReleaseFacts DEF ReleaseRun
  <1>5. /\ SameAttempt(p) /\ permit'[p].pc = "finished"
        /\ permit'[p].poison = permit[p].poison
    BY <1>1, Given, GotoFacts DEF ReleaseRun
  <1>6. OnlyRow(p) /\ ~Preparing(p)' /\ ~Running(p)'
    BY <1>5 DEF SameAttempt, Preparing, Running, PreparePCs, WithoutRun, RunPCs
  <1>7. PoolCounted' /\ CountType' /\ count'.direct = count.direct
    <2>1. PoolCounted /\ CountType
      BY DEF RuntimeInv, Shape, CountType
    <2>2. count' = [count EXCEPT !.slots = @ - 1]
      BY DEF ReleaseRun
    <2>3. QED BY <1>1, <1>6, <2>1, <2>2, RunLeavesPool DEF CountType
  <1>8. Alone(p)
    BY <1>2, <1>3, <1>4, <1>5, Given DEF Alone, SameAttempt, OnlyRow
  <1>9. HoldsWhatItNames(p)' /\ PoisonIsKept(p)'
    BY <1>2, <1>4, <1>5, Given DEF HoldsWhatItNames, PoisonIsKept, WithoutRun, RunPCs
  <1>10. PermitOK(p)'
    BY <1>2, <1>4, <1>5, <1>6, <1>9, Given DEF PermitOK
  <1>11. QED BY <1>7, <1>8, <1>10, AloneKeepsInv

\* tryReserveWorker admits under the gate that is open, into a slot that is free.
LEMMA AdmitEndsInv ==
    ASSUME RuntimeInv, AdmitEnds
    PROVE  RuntimeInv'
  <1>1. /\ UNCHANGED <<token, delivery, dead, epoch, direct, recovery, cancelled, stop,
                       excused, fatal, bound>>
        /\ UNCHANGED gateVars
    BY DEF AdmitEnds, rabbitVars, redisVars, lifeVars
  <1>2. CASE UNCHANGED <<permit, count>>
    <2>1. gate' = gate /\ publisher' = publisher /\ opening' = opening
      BY <1>1 DEF gateVars
    <2>2. Shape' /\ PoolCounted' /\ CallsCounted' /\ GatesFollowRecovery'
      BY <1>1, <1>2, <2>1
      DEF RuntimeInv, Shape, GateType, PoolCounted, CallsCounted, GatesFollowRecovery,
          Preparings, Holding, Preparing, Running, Calling, Publishing, InCall
    <2>3. \A q \in Permits : PermitOK(q)'
      BY <1>1, <1>2, <2>1
      DEF RuntimeInv, PermitOK, HoldsWhatItNames, PoisonIsKept, Preparing, Running,
          Drained, Released
    <2>4. \A d \in Dispatches : CallOK(d)'
      BY <1>1, <2>1 DEF RuntimeInv, CallOK, InCall, Drained
    <2>5. QED BY <2>2, <2>3, <2>4 DEF RuntimeInv
  <1>3. CASE ~UNCHANGED <<permit, count>>
    <2>1. PICK p \in bound.permits :
             /\ permit[p].pc = "unused"
             /\ permit' = [permit EXCEPT ![p] = [Unused EXCEPT !.pc = "reserved",
                              !.gen = gate.gen, !.fence = gate.fence]]
             /\ count' = [count EXCEPT !.prepare = @ + 1, !.slots = @ + 1]
      BY <1>3 DEF AdmitEnds
    <2>2. gate.open /\ count.slots < LocalWorkers
      BY <1>3 DEF AdmitEnds
    <2>3. p \in Permits
      BY <2>1, Given DEF RuntimeInv, Shape, Budget
    <2>4. GatesKept
      BY <1>1, GatesUntouched DEF RuntimeInv, Shape
    <2> DEFINE first == [Unused EXCEPT !.pc = "reserved"]
               second == [first EXCEPT !.gen = gate.gen]
               row == [second EXCEPT !.fence = gate.fence]
    <2>5. permit' = [permit EXCEPT ![p] = row]
      BY <2>1
    <2>6. gate.gen \in Nat /\ gate.fence \in Nat
      BY Given DEF RuntimeInv, Shape, GateType
    <2>7. /\ row \in Row /\ row.pc = "reserved" /\ row.gen = gate.gen
          /\ row.fence = gate.fence /\ ~row.poison
      <3>1. Unused \in Row /\ ~Unused.poison
        BY DEF Unused, Row, NoBeat
      <3>2. first \in Row /\ first.pc = "reserved" /\ ~first.poison
        BY <3>1 DEF Row, PreparePCs
      <3> HIDE DEF first
      <3>3. /\ second \in Row /\ second.pc = "reserved" /\ second.gen = gate.gen
            /\ ~second.poison
        BY <2>6, <3>2 DEF Row
      <3> HIDE DEF second
      <3>4. QED BY <2>6, <3>3 DEF Row
    <2> HIDE DEF row
    <2>8. permit' \in [Permits -> Row] /\ OnlyRow(p) /\ permit'[p] = row
      BY <2>3, <2>5, <2>7, Given DEF OnlyRow
    <2>9. Alone(p)
      BY <1>1, <2>3, <2>4, <2>8, Given DEF Alone, OnlyRow
    <2>10. /\ ~Preparing(p) /\ ~Running(p) /\ Preparing(p)' /\ ~Running(p)'
      BY <2>1, <2>7, <2>8 DEF Preparing, Running, PreparePCs, WithoutRun, RunPCs
    <2>11. PoolCounted' /\ CountType' /\ count'.direct = count.direct
      <3>1. PoolCounted /\ CountType
        BY DEF RuntimeInv, Shape, CountType
      <3>2. PoolCounted' /\ CountType'
        BY <2>1, <2>2, <2>3, <2>8, <2>10, <3>1, EntersPool
      <3>3. count'.direct = count.direct
        BY <2>1, <3>1 DEF CountType
      <3>4. QED BY <3>2, <3>3
    <2>12. /\ recovery = "open" /\ stop \in {"no", "marked"} /\ gate.fence = epoch
      BY <2>2 DEF RuntimeInv, GatesFollowRecovery
    <2>13. token[p] = "none" /\ ~Drained' /\ ~Released' /\ stop' # "closed"
      BY <1>1, <2>1, <2>3, <2>12, Given DEF HoldsWhatItNames, Drained, Released
    <2>14. HoldsWhatItNames(p)' /\ PoisonIsKept(p)'
      BY <1>1, <2>7, <2>8, <2>13 DEF HoldsWhatItNames, PoisonIsKept, WithoutRun, RunPCs
    <2>15. gate' = gate /\ epoch' = epoch /\ recovery' = recovery
      BY <1>1 DEF gateVars
    <2>16. PermitOK(p)'
      BY <2>7, <2>8, <2>10, <2>12, <2>13, <2>14, <2>15 DEF PermitOK
    <2>17. QED BY <2>3, <2>9, <2>11, <2>16, AloneKeepsInv
  <1>4. QED BY <1>2, <1>3

(***************************************************************************)
(* The gates and the recovery loop.                                         *)
(***************************************************************************)

\* Nobody's permit moved and no generation began.
LEMMA PermitsKept ==
    ASSUME RuntimeInv, UNCHANGED <<permit, token, delivery, dead, epoch, stop>>,
           excused \subseteq excused', gate'.gen = gate.gen, gate'.fence = gate.fence,
           recovery' = recovery \/ recovery' # "rebuilding",
           fatal' = fatal \/ fatal' = "set"
    PROVE  \A p \in Permits : PermitOK(p)'
  <1> SUFFICES ASSUME NEW p \in Permits PROVE PermitOK(p)'
    OBVIOUS
  <1>1. PermitOK(p)
    BY DEF RuntimeInv
  <1>2. (Preparing(p)' <=> Preparing(p)) /\ (Running(p)' <=> Running(p))
    BY DEF Preparing, Running
  <1>3. HoldsWhatItNames(p)' /\ PoisonIsKept(p)'
    BY <1>1 DEF PermitOK, HoldsWhatItNames, PoisonIsKept
  <1>4. (Drained' <=> Drained) /\ (Released' <=> Released)
    BY DEF Drained, Released
  <1>5. QED BY <1>1, <1>2, <1>3, <1>4 DEF PermitOK

\* ... and no pool changed.
LEMMA PoolKept ==
    ASSUME RuntimeInv, permit' = permit, count' = count
    PROVE  PoolCounted'
  BY DEF RuntimeInv, PoolCounted, Preparings, Holding, Preparing, Running

\* ... and no call.
LEMMA CallsKept ==
    ASSUME RuntimeInv, direct' = direct, count' = count, publisher'.inFlight = publisher.inFlight
    PROVE  CallsCounted'
  BY DEF RuntimeInv, CallsCounted, Calling, Publishing, InCall

\* A call that did not move is right as long as its opening is the latest one.
LEMMA CallsStillOK ==
    ASSUME RuntimeInv, direct' = direct, stop' = stop, excused \subseteq excused',
           \/ publisher'.gen = publisher.gen
           \/ \A d \in Dispatches : direct[d].pc # "publishing"
    PROVE  \A d \in Dispatches : CallOK(d)'
  <1> SUFFICES ASSUME NEW d \in Dispatches PROVE CallOK(d)'
    OBVIOUS
  <1>1. CallOK(d)
    BY DEF RuntimeInv
  <1>2. QED BY <1>1 DEF CallOK, Drained, InCall

\* OpenResource opens the publisher gate over no publish in flight.
LEMMA OpenBeginsInv ==
    ASSUME RuntimeInv, OpenBegins
    PROVE  RuntimeInv'
  <1>1. UNCHANGED <<permit, count, token, delivery, dead, epoch, direct, cancelled, stop,
                    fatal, excused, bound, gate>>
    BY DEF OpenBegins, rabbitVars, redisVars, lifeVars
  <1>2. recovery = "opening"
    BY DEF OpenBegins
  <1>3. CASE /\ ~Stopping /\ publisher.inFlight = 0 /\ opening' = TRUE
             /\ publisher' = [publisher EXCEPT !.open = TRUE, !.gen = @ + 1]
             /\ recovery' = recovery
    <2>1. /\ publisher' \in [open : BOOLEAN, gen : Nat, inFlight : Nat]
          /\ publisher'.inFlight = publisher.inFlight
      <3> DEFINE first == [publisher EXCEPT !.open = TRUE]
                 second == [first EXCEPT !.gen = first.gen + 1]
      <3>1. publisher \in [open : BOOLEAN, gen : Nat, inFlight : Nat]
        BY DEF RuntimeInv, Shape, GateType
      <3>2. /\ first \in [open : BOOLEAN, gen : Nat, inFlight : Nat]
            /\ first.inFlight = publisher.inFlight
            /\ first.gen = publisher.gen
        BY <3>1
      <3>3. publisher' = second
        BY <1>3, <3>1
      <3> HIDE DEF first
      <3>4. QED BY <3>2, <3>3
    <2>2. Shape'
      BY <1>1, <1>3, <2>1 DEF RuntimeInv, Shape, GateType
    <2>3. PoolCounted' /\ CallsCounted' /\ \A p \in Permits : PermitOK(p)'
      BY <1>1, <1>3, <2>1, PoolKept, CallsKept, PermitsKept
    <2>4. GatesFollowRecovery'
      BY <1>1, <1>2, <1>3 DEF RuntimeInv, GatesFollowRecovery, Stopping
    <2>5. \A d \in Dispatches : direct[d].pc # "publishing"
      BY <1>3, NoCallLeft DEF RuntimeInv
    <2>6. \A d \in Dispatches : CallOK(d)'
      BY <1>1, <2>5, CallsStillOK
    <2>7. QED BY <2>2, <2>3, <2>4, <2>6 DEF RuntimeInv
  <1>4. CASE recovery' = "refused" /\ UNCHANGED <<opening, publisher>>
    <2>1. Shape'
      BY <1>1, <1>4 DEF RuntimeInv, Shape, GateType
    <2>2. PoolCounted' /\ CallsCounted' /\ \A p \in Permits : PermitOK(p)'
      BY <1>1, <1>4, PoolKept, CallsKept, PermitsKept
    <2>3. GatesFollowRecovery'
      <3>1. ~opening
        BY DEF OpenBegins
      <3>2. QED BY <1>1, <1>2, <1>4, <3>1 DEF RuntimeInv, GatesFollowRecovery
    <2>4. \A d \in Dispatches : CallOK(d)'
      BY <1>1, <1>4, CallsStillOK
    <2>5. QED BY <2>1, <2>2, <2>3, <2>4 DEF RuntimeInv
  <1>5. QED BY <1>3, <1>4 DEF OpenBegins

\* ... and the gate over no attempt.
LEMMA OpenEndsInv ==
    ASSUME RuntimeInv, OpenEnds
    PROVE  RuntimeInv'
  <1>1. UNCHANGED <<permit, count, token, delivery, dead, epoch, direct, cancelled, stop,
                    fatal, bound>>
    BY DEF OpenEnds, rabbitVars, redisVars, lifeVars
  <1>2. /\ opening /\ opening' = FALSE /\ recovery = "opening" /\ epoch # 0 /\ epoch \in Nat
        /\ stop \in {"no", "marked"}
    BY DEF OpenEnds, RuntimeInv, GatesFollowRecovery, Shape
  <1>3. GateType /\ ~gate.open
    BY <1>2 DEF RuntimeInv, GatesFollowRecovery, Shape
  <1>4. CASE /\ count.prepare = 0
             /\ gate' = [open |-> TRUE, fence |-> epoch, gen |-> gate.gen + 1]
             /\ recovery' = "open" /\ UNCHANGED publisher
             /\ excused' = excused \cup {p \in Permits : /\ permit[p].pc = "releasing"
                                                      /\ permit[p].fence # epoch}
    <2>1. Shape'
      <3>1. gate.gen + 1 \in Nat
        BY <1>3 DEF GateType
      <3>2. epoch \in Nat \ {0} /\ opening' \in BOOLEAN
        BY <1>2
      <3> DEFINE open == [open |-> TRUE, fence |-> epoch, gen |-> gate.gen + 1]
      <3>3. open \in [open : BOOLEAN, fence : Nat \ {0}, gen : Nat]
        BY <3>1, <3>2
      <3>4. GateType'
        BY <1>3, <1>4, <3>2, <3>3 DEF GateType
      <3>5. QED BY <1>1, <3>4 DEF RuntimeInv, Shape
    <2>2. PoolCounted' /\ CallsCounted'
      BY <1>1, <1>4, PoolKept, CallsKept
    <2>3. GatesFollowRecovery'
      BY <1>1, <1>2, <1>4 DEF RuntimeInv, GatesFollowRecovery
    <2>4. \A p \in Permits : PermitOK(p)'
      <3>1. TAKE p \in Permits
      <3>2. ~Preparing(p) /\ PermitOK(p)
        BY <1>4, NoAttemptLeft DEF RuntimeInv
      <3>3. ~Preparing(p)' /\ (Running(p)' <=> Running(p))
        BY <1>1, <3>2 DEF Preparing, Running
      <3>4. HoldsWhatItNames(p)' /\ PoisonIsKept(p)'
        BY <1>1, <1>4, <3>2 DEF PermitOK, HoldsWhatItNames, PoisonIsKept
      <3>5. ~Drained' /\ ~Released' /\ stop' # "closed"
        BY <1>1, <1>2 DEF Drained, Released
      <3>6. permit'[p].pc = "releasing" => permit'[p].fence = gate'.fence \/ p \in excused'
        BY <1>1, <1>4
      <3>7. QED BY <1>1, <3>2, <3>3, <3>4, <3>5, <3>6 DEF PermitOK
    <2>5. \A d \in Dispatches : CallOK(d)'
      BY <1>1, <1>4, CallsStillOK
    <2>6. QED BY <2>1, <2>2, <2>3, <2>4, <2>5 DEF RuntimeInv
  <1>5. CASE /\ publisher' = [publisher EXCEPT !.open = FALSE]
             /\ recovery' = "refused" /\ UNCHANGED <<gate, excused>>
    <2>1. /\ GateType' /\ publisher'.gen = publisher.gen
          /\ publisher'.inFlight = publisher.inFlight /\ ~publisher'.open
      BY <1>2, <1>3, <1>5 DEF GateType
    <2>2. Shape'
      BY <1>1, <2>1 DEF RuntimeInv, Shape
    <2>3. PoolCounted' /\ CallsCounted' /\ \A p \in Permits : PermitOK(p)'
      BY <1>1, <1>5, <2>1, PoolKept, CallsKept, PermitsKept
    <2>4. GatesFollowRecovery'
      BY <1>1, <1>2, <1>3, <1>5, <2>1 DEF RuntimeInv, GatesFollowRecovery
    <2>5. \A d \in Dispatches : CallOK(d)'
      BY <1>1, <1>5, <2>1, CallsStillOK
    <2>6. QED BY <2>2, <2>3, <2>4, <2>5 DEF RuntimeInv
  <1>6. QED BY <1>4, <1>5 DEF OpenEnds

\* A step of the recovery loop that leaves Redis, the pool and the calls alone,
\* and may close the gates.
LEMMA LoopStepInv ==
    ASSUME RuntimeInv, GatesKept, bound' \in Budget,
           UNCHANGED <<permit, count, token, delivery, dead, epoch, direct, cancelled, stop,
                       fatal, excused>>,
           ~gate'.open, opening' = FALSE,
           recovery' \in {"closed", "opening", "beginning", "refused", "ended"},
           recovery' = "opening" => epoch # 0
    PROVE  RuntimeInv'
  <1>1. Shape'
    BY DEF RuntimeInv, Shape, GatesKept
  <1>2. PoolCounted' /\ CallsCounted' /\ \A p \in Permits : PermitOK(p)'
    BY PoolKept, CallsKept, PermitsKept DEF GatesKept
  <1>3. GatesFollowRecovery'
    BY DEF RuntimeInv, GatesFollowRecovery, GatesKept
  <1>4. \A d \in Dispatches : CallOK(d)'
    BY CallsStillOK DEF GatesKept
  <1>5. QED BY <1>1, <1>2, <1>3, <1>4 DEF RuntimeInv

\* READY is there, or has to be rebuilt.
LEMMA ObserveReadyInv ==
    ASSUME RuntimeInv, ObserveReady
    PROVE  RuntimeInv'
  <1>1. GatesKept
    BY GatesUntouched DEF ObserveReady, RuntimeInv, Shape
  <1>2. bound' \in Budget
    BY SpendFacts DEF ObserveReady, RuntimeInv, Shape
  <1>3. UNCHANGED <<permit, count, token, delivery, dead, epoch, direct, cancelled, stop,
                    fatal, excused, gate, opening>>
    BY DEF ObserveReady, rabbitVars, redisVars, lifeVars, gateVars
  <1>4. ~gate.open /\ ~opening
    BY DEF ObserveReady, RuntimeInv, GatesFollowRecovery
  <1>5. recovery' \in {"opening", "beginning"} /\ (recovery' = "opening" => epoch # 0)
    BY DEF ObserveReady
  <1>6. opening' = FALSE
    BY <1>3, <1>4 DEF RuntimeInv, Shape, GateType
  <1>7. QED BY <1>1, <1>2, <1>3, <1>4, <1>5, <1>6, LoopStepInv

\* CloseResource and the loop's end close the gates.
LEMMA CloseResourceInv ==
    ASSUME RuntimeInv, CloseResource \/ EndRecovery
    PROVE  RuntimeInv'
  <1>1. GatesKept /\ ~gate'.open
    BY CloseGatesFacts DEF CloseResource, EndRecovery, RuntimeInv, Shape
  <1>2. bound' \in Budget
    BY SpendFacts DEF CloseResource, EndRecovery, RuntimeInv, Shape
  <1>3. UNCHANGED <<permit, count, token, delivery, dead, epoch, direct, cancelled, stop,
                    fatal, excused>>
    BY DEF CloseResource, EndRecovery, rabbitVars, redisVars, lifeVars
  <1>4. opening' = FALSE
    BY DEF CloseResource, EndRecovery, CloseGates, RuntimeInv, Shape, GateType
  <1>5. recovery' \in {"closed", "ended"}
    BY DEF CloseResource, EndRecovery
  <1>6. QED BY <1>1, <1>2, <1>3, <1>4, <1>5, LoopStepInv

\* BeginRecovery takes READY away: what an attempt releases from now on is refused.
LEMMA BeginRebuildInv ==
    ASSUME RuntimeInv, BeginRebuild
    PROVE  RuntimeInv'
  <1>1. UNCHANGED <<permit, count, token, delivery, dead, direct, cancelled, stop,
                    fatal, excused, bound, gate, publisher, opening>>
    BY DEF BeginRebuild, rabbitVars, lifeVars, gateVars
  <1>2. recovery = "beginning" /\ recovery' = "draining" /\ epoch' = 0
    BY DEF BeginRebuild
  <1>3. ~gate.open /\ ~opening
    BY <1>2 DEF RuntimeInv, GatesFollowRecovery
  <1>4. Shape'
    BY <1>1, <1>2 DEF RuntimeInv, Shape, GateType
  <1>5. PoolCounted' /\ CallsCounted'
    BY <1>1, PoolKept, CallsKept
  <1>6. GatesFollowRecovery'
    BY <1>1, <1>2, <1>3 DEF RuntimeInv, GatesFollowRecovery
  <1>7. \A p \in Permits : PermitOK(p)'
    <2>1. TAKE p \in Permits
    <2>2. PermitOK(p)
      BY DEF RuntimeInv
    <2>3. (Preparing(p)' <=> Preparing(p)) /\ (Running(p)' <=> Running(p))
      BY <1>1 DEF Preparing, Running
    <2>4. HoldsWhatItNames(p)' /\ PoisonIsKept(p)'
      BY <1>1, <2>2 DEF PermitOK, HoldsWhatItNames, PoisonIsKept
    <2>5. (Drained' <=> Drained) /\ (Released' <=> Released)
      BY <1>1 DEF Drained, Released
    <2>6. QED BY <1>1, <1>2, <2>2, <2>3, <2>4, <2>5 DEF PermitOK
  <1>8. \A d \in Dispatches : CallOK(d)'
    BY <1>1, CallsStillOK
  <1>9. QED BY <1>4, <1>5, <1>6, <1>7, <1>8 DEF RuntimeInv

\* A rebuild that is given up leaves READY away.
LEMMA GiveUpRebuildInv ==
    ASSUME RuntimeInv, GiveUpRebuild
    PROVE  RuntimeInv'
  <1>1. GatesKept
    BY GatesUntouched DEF GiveUpRebuild, RuntimeInv, Shape
  <1>2. UNCHANGED <<permit, count, token, delivery, dead, epoch, direct, cancelled, stop,
                    fatal, excused, bound, gate, opening>>
    BY DEF GiveUpRebuild, rabbitVars, redisVars, lifeVars, gateVars
  <1>3. ~gate.open /\ ~opening
    BY DEF GiveUpRebuild, RuntimeInv, GatesFollowRecovery
  <1>4. recovery' = "refused"
    BY DEF GiveUpRebuild
  <1>5. opening' = FALSE /\ bound' \in Budget
    BY <1>2, <1>3 DEF RuntimeInv, Shape, GateType
  <1>6. QED BY <1>1, <1>2, <1>3, <1>4, <1>5, LoopStepInv

\* The rebuild goes on when no attempt is left.
LEMMA DrainForRebuildInv ==
    ASSUME RuntimeInv, DrainForRebuild
    PROVE  RuntimeInv'
  <1>1. UNCHANGED <<permit, count, token, delivery, dead, direct, cancelled, stop,
                    fatal, excused, bound, epoch, gate, publisher, opening>>
    BY DEF DrainForRebuild, rabbitVars, redisVars, lifeVars, gateVars
  <1>2. recovery = "draining" /\ recovery' = "rebuilding" /\ ~cancelled /\ count.prepare = 0
    BY DEF DrainForRebuild
  <1>3. ~gate.open /\ ~opening /\ stop \in {"no", "marked", "launched"} /\ epoch = 0
    BY <1>2 DEF RuntimeInv, GatesFollowRecovery
  <1>4. Shape'
    BY <1>1, <1>2 DEF RuntimeInv, Shape, GateType
  <1>5. PoolCounted' /\ CallsCounted'
    BY <1>1, PoolKept, CallsKept
  <1>6. GatesFollowRecovery'
    BY <1>1, <1>2, <1>3 DEF RuntimeInv, GatesFollowRecovery
  <1>7. \A p \in Permits : PermitOK(p)'
    <2>1. TAKE p \in Permits
    <2>2. ~Preparing(p) /\ PermitOK(p)
      BY <1>2, NoAttemptLeft DEF RuntimeInv
    <2>3. ~Preparing(p)'
      BY <1>1, <2>2 DEF Preparing
    <2>4. HoldsWhatItNames(p)' /\ PoisonIsKept(p)'
      BY <1>1, <2>2 DEF PermitOK, HoldsWhatItNames, PoisonIsKept
    <2>5. ~Drained' /\ ~Released' /\ stop' # "closed"
      BY <1>1, <1>3 DEF Drained, Released
    <2>6. QED BY <1>1, <2>2, <2>3, <2>4, <2>5 DEF PermitOK
  <1>8. \A d \in Dispatches : CallOK(d)'
    BY <1>1, CallsStillOK
  <1>9. QED BY <1>4, <1>5, <1>6, <1>7, <1>8 DEF RuntimeInv

\* The rebuild writes back what runs, under a fence that no gate has yet: a
\* shutdown that has released its tasks meanwhile has excused them.
LEMMA CommitRebuildInv ==
    ASSUME RuntimeInv, CommitRebuild
    PROVE  RuntimeInv'
  <1>1. UNCHANGED <<permit, count, delivery, dead, direct, cancelled, stop,
                    fatal, excused, bound, gate, publisher, opening>>
    BY DEF CommitRebuild, rabbitVars, lifeVars, gateVars
  <1>2. recovery = "rebuilding" /\ recovery' = "opening" /\ epoch' = gate.fence + 1
    BY DEF CommitRebuild
  <1>3. GateType /\ ~gate.open /\ ~opening
    BY <1>2 DEF RuntimeInv, GatesFollowRecovery, Shape
  <1>4. epoch' \in Nat /\ epoch' # 0
    BY <1>2, <1>3 DEF GateType
  <1>5. PICK kept \in SUBSET {p \in Permits :
                                permit[p].pc \in {"ending", "runFatal", "releasing"}} :
           token' = [p \in Permits |->
                       IF permit[p].pc = "running" \/ p \in kept THEN "stable" ELSE "none"]
    BY DEF CommitRebuild
  <1>6. \A p \in Permits : /\ token'[p] \in {"none", "stable"}
                           /\ token'[p] # "none" => permit[p].pc \in RunPCs
    BY <1>5 DEF RunPCs
  <1>7. token' \in [Permits -> Tokens]
    BY <1>5 DEF Tokens
  <1>8. Shape'
    BY <1>1, <1>4, <1>7 DEF RuntimeInv, Shape, GateType
  <1>9. PoolCounted' /\ CallsCounted'
    BY <1>1, PoolKept, CallsKept
  <1>10. GatesFollowRecovery'
    BY <1>1, <1>2, <1>3, <1>4 DEF RuntimeInv, GatesFollowRecovery
  <1>11. \A p \in Permits : PermitOK(p)'
    <2>1. TAKE p \in Permits
    <2>2. PermitOK(p) /\ ~Preparing(p)
      BY <1>2 DEF RuntimeInv, PermitOK
    <2>3. ~Preparing(p)' /\ (Running(p)' <=> Running(p))
      BY <1>1, <2>2 DEF Preparing, Running
    <2>4. HoldsWhatItNames(p)'
      BY <1>1, <1>6 DEF HoldsWhatItNames, WithoutRun, RunPCs
    <2>5. PoisonIsKept(p)'
      BY <1>1, <2>2 DEF PermitOK, PoisonIsKept
    <2>6. (Drained' <=> Drained) /\ (Released' <=> Released)
      BY <1>1 DEF Drained, Released
    <2>7. Released => token'[p] = "none" \/ p \in excused
      BY <1>2, <1>6, <2>2 DEF PermitOK, Running
    <2>8. QED BY <1>1, <1>2, <2>2, <2>3, <2>4, <2>5, <2>6, <2>7 DEF PermitOK
  <1>12. \A d \in Dispatches : CallOK(d)'
    BY <1>1, CallsStillOK
  <1>13. QED BY <1>8, <1>9, <1>10, <1>11, <1>12 DEF RuntimeInv

(***************************************************************************)
(* TryDispatch.                                                             *)
(***************************************************************************)

\* Only the call d moved.
OnlyCall(d) ==
    /\ direct' \in [Dispatches -> [pc : CallPCs, gen : Nat]]
    /\ \A e \in Dispatches \ {d} : direct'[e] = direct[e]

\* A call that moves, with its two counters right, keeps the invariant when it
\* is excused or not drained, and publishes under the latest opening.
LEMMA CallStepInv ==
    ASSUME RuntimeInv, NEW d \in Dispatches, OnlyCall(d), CallsCounted', GateType',
           CountType', count'.prepare = count.prepare, count'.slots = count.slots,
           gate' = gate, opening' = opening, publisher'.gen = publisher.gen,
           publisher'.open => publisher.open, bound' \in Budget,
           fatal' = fatal \/ fatal' = "set",
           UNCHANGED <<permit, token, delivery, dead, epoch, recovery, cancelled, stop, excused>>,
           CallOK(d)'
    PROVE  RuntimeInv'
  <1>1. Shape'
    BY DEF RuntimeInv, Shape, OnlyCall, CountType
  <1>2. PoolCounted'
    BY DEF RuntimeInv, PoolCounted, Preparings, Holding, Preparing, Running
  <1>3. \A p \in Permits : PermitOK(p)'
    BY PermitsKept
  <1>4. GatesFollowRecovery'
    BY DEF RuntimeInv, GatesFollowRecovery
  <1>5. \A e \in Dispatches : CallOK(e)'
    <2>1. TAKE e \in Dispatches
    <2>2. CASE e = d
      BY <2>2
    <2>3. CASE e # d
      BY <2>3 DEF RuntimeInv, CallOK, OnlyCall, Drained, InCall
    <2>4. QED BY <2>2, <2>3
  <1>6. QED BY <1>1, <1>2, <1>3, <1>4, <1>5 DEF RuntimeInv

\* A call that only goes on.
LEMMA DirectGotoFacts ==
    ASSUME direct \in [Dispatches -> [pc : CallPCs, gen : Nat]], NEW d \in Dispatches,
           NEW label \in CallPCs, DirectGoto(d, label)
    PROVE  /\ OnlyCall(d) /\ direct'[d].pc = label /\ direct'[d].gen = direct[d].gen
  <1> DEFINE call == [direct[d] EXCEPT !.pc = label]
  <1>1. direct[d] \in [pc : CallPCs, gen : Nat] /\ direct' = [direct EXCEPT ![d] = call]
    BY DEF DirectGoto
  <1>2. call \in [pc : CallPCs, gen : Nat] /\ call.pc = label /\ call.gen = direct[d].gen
    BY <1>1
  <1> HIDE DEF call
  <1>3. QED BY <1>1, <1>2 DEF OnlyCall

\* How a step of d changes the two sets that are counted.
LEMMA CallSets ==
    ASSUME NEW d \in Dispatches, OnlyCall(d)
    PROVE  /\ Calling' = IF InCall(d)' THEN Calling \cup {d} ELSE Calling \ {d}
           /\ Publishing' = IF direct'[d].pc = "publishing"
                              THEN Publishing \cup {d} ELSE Publishing \ {d}
  <1>1. \A e \in Dispatches \ {d} :
           /\ InCall(e)' <=> InCall(e)
           /\ direct'[e].pc = "publishing" <=> direct[e].pc = "publishing"
    BY DEF OnlyCall, InCall
  <1>2. Calling' = IF InCall(d)' THEN Calling \cup {d} ELSE Calling \ {d}
    <2>1. CASE InCall(d)'
      BY <1>1, <2>1 DEF Calling
    <2>2. CASE ~(InCall(d)')
      BY <1>1, <2>2 DEF Calling
    <2>3. QED BY <2>1, <2>2
  <1>3. Publishing' = IF direct'[d].pc = "publishing" THEN Publishing \cup {d}
                                                      ELSE Publishing \ {d}
    <2>1. CASE direct'[d].pc = "publishing"
      BY <1>1, <2>1 DEF Publishing
    <2>2. CASE ~(direct'[d].pc = "publishing")
      BY <1>1, <2>2 DEF Publishing
    <2>3. QED BY <2>1, <2>2
  <1>4. QED BY <1>2, <1>3

\* beginDirectDispatch, before or after the runtime stops.
LEMMA DispatchBeginsInv ==
    ASSUME RuntimeInv, NEW d \in Dispatches, DispatchBegins(d)
    PROVE  RuntimeInv'
  <1>1. UNCHANGED <<permit, token, delivery, dead, epoch, recovery, cancelled, stop, excused,
                    gate, publisher, opening, bound, fatal>>
    BY DEF DispatchBegins, gateVars, rabbitVars, redisVars, lifeVars
  <1>2. direct \in [Dispatches -> [pc : CallPCs, gen : Nat]] /\ GateType' /\ CountType
        /\ CallsCounted /\ bound' \in Budget
    BY <1>1 DEF RuntimeInv, Shape, GateType, CountType
  <1>3. direct[d].pc = "idle" /\ d \notin Calling /\ d \notin Publishing
    BY DEF DispatchBegins, Calling, Publishing, InCall
  <1>4. CASE DirectGoto(d, "done") /\ count' = count
    <2>1. OnlyCall(d) /\ direct'[d].pc = "done"
      BY <1>2, <1>4, DirectGotoFacts DEF CallPCs
    <2>2. ~InCall(d)' /\ direct'[d].pc # "publishing"
      BY <2>1 DEF InCall
    <2>3. Calling' = Calling /\ Publishing' = Publishing
      BY <1>3, <2>1, <2>2, CallSets
    <2>4. CallsCounted' /\ CallOK(d)'
      BY <1>1, <1>2, <1>4, <2>2, <2>3 DEF CallsCounted, CallOK
    <2>5. QED BY <1>1, <1>2, <1>4, <2>1, <2>4, CallStepInv DEF CountType
  <1>5. CASE /\ ~Stopping /\ DirectGoto(d, "begun")
             /\ count' = [count EXCEPT !.direct = @ + 1]
    <2>1. OnlyCall(d) /\ direct'[d].pc = "begun"
      BY <1>2, <1>5, DirectGotoFacts DEF CallPCs
    <2>2. InCall(d)' /\ direct'[d].pc # "publishing"
      BY <2>1 DEF InCall
    <2>3. Calling' = Calling \cup {d} /\ Publishing' = Publishing
      BY <1>3, <2>1, <2>2, CallSets
    <2>4. IsFiniteSet(Calling \cup {d}) /\ Cardinality(Calling \cup {d}) = Cardinality(Calling) + 1
      BY <1>2, <1>3, FS_AddElement DEF CallsCounted
    <2>5. /\ CountType' /\ count'.direct = count.direct + 1
          /\ count'.prepare = count.prepare /\ count'.slots = count.slots
      BY <1>2, <1>5 DEF CountType
    <2>6. CallsCounted'
      BY <1>1, <1>2, <2>3, <2>4, <2>5 DEF CallsCounted, CountType
    <2>7. ~Drained'
      BY <1>1, <1>5 DEF Stopping, Drained
    <2>8. CallOK(d)'
      BY <2>2, <2>7 DEF CallOK
    <2>9. QED BY <1>1, <1>2, <2>1, <2>5, <2>6, <2>8, CallStepInv
  <1>6. QED BY <1>4, <1>5 DEF DispatchBegins

\* beginPublisherAttempt takes the opening it publishes under.
LEMMA PublishBeginsInv ==
    ASSUME RuntimeInv, NEW d \in Dispatches, PublishBegins(d)
    PROVE  RuntimeInv'
  <1>1. UNCHANGED <<permit, count, token, delivery, dead, epoch, recovery, cancelled, stop,
                    excused, gate, opening, bound, fatal>>
    BY DEF PublishBegins, rabbitVars, redisVars, lifeVars
  <1>2. direct \in [Dispatches -> [pc : CallPCs, gen : Nat]] /\ GateType /\ CountType /\ CountType'
        /\ CallsCounted /\ bound' \in Budget /\ CallOK(d)
    BY <1>1 DEF RuntimeInv, Shape, CountType
  <1>3. direct[d].pc = "begun" /\ d \in Calling /\ d \notin Publishing
    BY DEF PublishBegins, Calling, Publishing, InCall
  <1>4. Drained' => d \in excused'
    BY <1>1, <1>2, <1>3 DEF CallOK, InCall, Drained
  <1>5. CASE /\ direct' = [direct EXCEPT ![d] = [pc |-> "publishing", gen |-> publisher.gen]]
             /\ publisher' = [publisher EXCEPT !.inFlight = @ + 1]
    <2>1. /\ OnlyCall(d) /\ direct'[d].pc = "publishing" /\ direct'[d].gen = publisher.gen
      BY <1>2, <1>5 DEF OnlyCall, CallPCs, GateType
    <2>2. InCall(d)'
      BY <2>1 DEF InCall
    <2>3. Calling' = Calling /\ Publishing' = Publishing \cup {d}
      BY <1>3, <2>1, <2>2, CallSets
    <2>4. /\ IsFiniteSet(Publishing \cup {d})
          /\ Cardinality(Publishing \cup {d}) = Cardinality(Publishing) + 1
      BY <1>2, <1>3, FS_AddElement DEF CallsCounted
    <2>5. /\ GateType' /\ publisher'.inFlight = publisher.inFlight + 1
          /\ publisher'.gen = publisher.gen /\ publisher'.open = publisher.open
      BY <1>1, <1>2, <1>5 DEF GateType
    <2>6. CallsCounted'
      BY <1>1, <1>2, <2>3, <2>4, <2>5 DEF CallsCounted, GateType
    <2>7. CallOK(d)'
      BY <1>4, <2>1, <2>5 DEF CallOK
    <2>8. QED BY <1>1, <1>2, <2>1, <2>5, <2>6, <2>7, CallStepInv
  <1>6. CASE DirectGoto(d, "returning") /\ publisher' = publisher
    <2>1. OnlyCall(d) /\ direct'[d].pc = "returning"
      BY <1>2, <1>6, DirectGotoFacts DEF CallPCs
    <2>2. InCall(d)' /\ direct'[d].pc # "publishing"
      BY <2>1 DEF InCall
    <2>3. Calling' = Calling /\ Publishing' = Publishing
      BY <1>3, <2>1, <2>2, CallSets
    <2>4. CallsCounted' /\ CallOK(d)' /\ GateType'
      BY <1>1, <1>2, <1>4, <1>6, <2>2, <2>3 DEF CallsCounted, CallOK, GateType
    <2>5. QED BY <1>1, <1>2, <1>6, <2>1, <2>4, CallStepInv
  <1>7. QED BY <1>5, <1>6 DEF PublishBegins

\* The attempt ends, and a failure shuts the publisher gate.
LEMMA PublishEndsInv ==
    ASSUME RuntimeInv, NEW d \in Dispatches, PublishEnds(d)
    PROVE  RuntimeInv'
  <1>1. UNCHANGED <<permit, count, token, delivery, dead, epoch, recovery, cancelled, stop,
                    excused, gate, opening>>
    BY DEF PublishEnds, rabbitVars, redisVars
  <1>2. direct \in [Dispatches -> [pc : CallPCs, gen : Nat]] /\ GateType /\ CountType /\ CountType'
        /\ CallsCounted /\ bound \in Budget /\ CallOK(d)
    BY <1>1 DEF RuntimeInv, Shape, CountType
  <1>3. direct[d].pc = "publishing" /\ d \in Calling /\ d \in Publishing
    BY DEF PublishEnds, Calling, Publishing, InCall
  <1>4. Drained' => d \in excused'
    BY <1>1, <1>2, <1>3 DEF CallOK, InCall, Drained
  <1>5. PICK label \in {"activating", "returning", "failing"} : DirectGoto(d, label)
    BY DEF PublishEnds
  <1>6. OnlyCall(d) /\ direct'[d].pc = label
    BY <1>2, <1>5, DirectGotoFacts DEF CallPCs
  <1>7. InCall(d)' /\ direct'[d].pc # "publishing"
    BY <1>6 DEF InCall
  <1>8. Calling' = Calling /\ Publishing' = Publishing \ {d}
    BY <1>3, <1>6, <1>7, CallSets
  <1>9. /\ IsFiniteSet(Publishing \ {d})
        /\ Cardinality(Publishing \ {d}) = Cardinality(Publishing) - 1
        /\ Cardinality(Publishing \ {d}) \in Nat
    BY <1>2, <1>3, FS_RemoveElement, FS_CardinalityType DEF CallsCounted
  <1> DEFINE ended == [publisher EXCEPT !.inFlight = @ - 1]
  <1>10. /\ ended \in [open : BOOLEAN, gen : Nat, inFlight : Nat]
         /\ ended.inFlight = publisher.inFlight - 1 /\ ended.gen = publisher.gen
         /\ ended.open = publisher.open
    BY <1>2, <1>9 DEF GateType, CallsCounted
  <1>11. publisher' = ended \/ publisher' = [ended EXCEPT !.open = FALSE]
    BY DEF PublishEnds, ClosePublisherFor
  <1> HIDE DEF ended
  <1>12. /\ GateType' /\ publisher'.inFlight = publisher.inFlight - 1
         /\ publisher'.gen = publisher.gen
         /\ publisher'.open => publisher.open
    BY <1>1, <1>2, <1>10, <1>11 DEF GateType
  <1>13. CallsCounted'
    BY <1>1, <1>2, <1>8, <1>9, <1>12 DEF CallsCounted
  <1>14. CallOK(d)'
    BY <1>4, <1>7 DEF CallOK
  <1>15. (fatal' = fatal \/ fatal' = "set") /\ bound' \in Budget
    <2>1. /\ fatal' = fatal \/ fatal' = "set"
          /\ bound' = bound \/ Spend("fatal")
      BY DEF PublishEnds
    <2>2. QED BY <1>2, <2>1, SpendFacts
  <1>16. QED BY <1>1, <1>2, <1>6, <1>12, <1>13, <1>14, <1>15, CallStepInv

\* The activation, and its failure.
LEMMA DispatchActivatesInv ==
    ASSUME RuntimeInv, NEW d \in Dispatches, DispatchActivates(d)
    PROVE  RuntimeInv'
  <1>1. UNCHANGED <<permit, count, token, delivery, dead, epoch, recovery, cancelled, stop,
                    excused, gate, opening, bound, fatal>>
    BY DEF DispatchActivates, rabbitVars, redisVars, lifeVars
  <1>2. direct \in [Dispatches -> [pc : CallPCs, gen : Nat]] /\ GateType /\ CountType /\ CountType'
        /\ CallsCounted /\ bound' \in Budget /\ CallOK(d)
    BY <1>1 DEF RuntimeInv, Shape, CountType
  <1>3. direct[d].pc = "activating" /\ d \in Calling /\ d \notin Publishing
    BY DEF DispatchActivates, Calling, Publishing, InCall
  <1>4. OnlyCall(d) /\ direct'[d].pc = "returning"
    BY <1>2, DirectGotoFacts DEF DispatchActivates, CallPCs
  <1>5. InCall(d)' /\ direct'[d].pc # "publishing"
    BY <1>4 DEF InCall
  <1>6. Calling' = Calling /\ Publishing' = Publishing
    BY <1>3, <1>4, <1>5, CallSets
  <1>7. publisher' = publisher \/ publisher' = [publisher EXCEPT !.open = FALSE]
    BY DEF DispatchActivates, ClosePublisherFor
  <1>8. /\ GateType' /\ publisher'.inFlight = publisher.inFlight
        /\ publisher'.gen = publisher.gen
        /\ publisher'.open => publisher.open
    BY <1>1, <1>2, <1>7 DEF GateType
  <1>9. CallsCounted'
    BY <1>1, <1>2, <1>6, <1>8 DEF CallsCounted
  <1>10. CallOK(d)'
    BY <1>1, <1>2, <1>3, <1>5 DEF CallOK, InCall, Drained
  <1>11. QED BY <1>1, <1>2, <1>4, <1>8, <1>9, <1>10, CallStepInv

\* finishDirectDispatch.
LEMMA DispatchReturnsInv ==
    ASSUME RuntimeInv, NEW d \in Dispatches, DispatchReturns(d)
    PROVE  RuntimeInv'
  <1>1. UNCHANGED <<permit, token, delivery, dead, epoch, recovery, cancelled, stop, excused,
                    gate, publisher, opening, bound, fatal>>
    BY DEF DispatchReturns, gateVars, rabbitVars, redisVars, lifeVars
  <1>2. direct \in [Dispatches -> [pc : CallPCs, gen : Nat]] /\ GateType' /\ CountType
        /\ CallsCounted /\ bound' \in Budget
    BY <1>1 DEF RuntimeInv, Shape, GateType, CountType
  <1>3. d \in Calling /\ d \notin Publishing
    BY DEF DispatchReturns, Calling, Publishing, InCall
  <1>4. OnlyCall(d) /\ direct'[d].pc = "done"
    BY <1>2, DirectGotoFacts DEF CallPCs, DispatchReturns
  <1>5. ~InCall(d)' /\ direct'[d].pc # "publishing"
    BY <1>4 DEF InCall
  <1>6. Calling' = Calling \ {d} /\ Publishing' = Publishing
    BY <1>3, <1>4, <1>5, CallSets
  <1>7. /\ IsFiniteSet(Calling \ {d})
        /\ Cardinality(Calling \ {d}) = Cardinality(Calling) - 1
        /\ Cardinality(Calling \ {d}) \in Nat
    BY <1>2, <1>3, FS_RemoveElement, FS_CardinalityType DEF CallsCounted
  <1>8. /\ count'.direct = count.direct - 1
        /\ count'.prepare = count.prepare /\ count'.slots = count.slots
    BY <1>2 DEF CountType, DispatchReturns
  <1>9. CountType'
    BY <1>2, <1>7, <1>8 DEF CountType, DispatchReturns, CallsCounted
  <1>10. CallsCounted' /\ CallOK(d)'
    BY <1>1, <1>2, <1>5, <1>6, <1>7, <1>8 DEF CallsCounted, CallOK
  <1>11. QED BY <1>1, <1>2, <1>4, <1>8, <1>9, <1>10, CallStepInv

(***************************************************************************)
(* The fatal path and the shutdown.                                         *)
(***************************************************************************)

\* A phase of the shutdown that finds nothing drained or released yet.
LEMMA PhaseInv ==
    ASSUME RuntimeInv, GatesKept, bound' \in Budget, fatal' = fatal \/ fatal' = "set",
           UNCHANGED <<permit, count, token, delivery, dead, epoch, direct, recovery, excused>>,
           Drained' <=> Drained, Released' <=> Released, stop' = "closed" => stop = "closed",
           GatesFollowRecovery'
    PROVE  RuntimeInv'
  <1>1. Shape'
    BY DEF RuntimeInv, Shape, GatesKept
  <1>2. PoolCounted' /\ CallsCounted'
    BY PoolKept, CallsKept DEF GatesKept
  <1>3. \A p \in Permits : PermitOK(p)'
    <2>1. TAKE p \in Permits
    <2>2. PermitOK(p) /\ gate'.gen = gate.gen /\ gate'.fence = gate.fence
      BY DEF RuntimeInv, GatesKept
    <2>3. (Preparing(p)' <=> Preparing(p)) /\ (Running(p)' <=> Running(p))
      BY DEF Preparing, Running
    <2>4. HoldsWhatItNames(p)' /\ PoisonIsKept(p)'
      BY <2>2 DEF PermitOK, HoldsWhatItNames, PoisonIsKept
    <2>5. QED BY <2>2, <2>3, <2>4 DEF PermitOK
  <1>4. \A d \in Dispatches : CallOK(d)'
    BY DEF RuntimeInv, CallOK, GatesKept, InCall
  <1>5. QED BY <1>1, <1>2, <1>3, <1>4 DEF RuntimeInv

\* What only the admission, the workers' stop channel or nobody sees.
LEMMA UnseenInv ==
    ASSUME RuntimeInv,
           UNCHANGED <<gate, publisher, opening, count, permit, delivery, dead, token, epoch,
                       direct, recovery, cancelled, stop, fatal, excused, bound>>
    PROVE  RuntimeInv'
  <1>1. GatesKept /\ bound' \in Budget
    BY DEF RuntimeInv, Shape, GatesKept, GateType
  <1>2. (Drained' <=> Drained) /\ (Released' <=> Released)
    BY DEF Drained, Released
  <1>3. GatesFollowRecovery'
    BY DEF RuntimeInv, GatesFollowRecovery
  <1>4. QED BY <1>1, <1>2, <1>3, PhaseInv

\* A fatal error from outside, the end of Run's context, the mark of a shutdown.
LEMMA MarksInv ==
    ASSUME RuntimeInv, FailAuthoritative \/ CancelRun \/ MarkStopping
    PROVE  RuntimeInv'
  <1>1. UNCHANGED <<permit, count, token, delivery, dead, epoch, direct, recovery, excused>>
        /\ UNCHANGED gateVars
    BY DEF FailAuthoritative, CancelRun, MarkStopping, rabbitVars, redisVars
  <1>2. GatesKept
    BY <1>1, GatesUntouched DEF RuntimeInv, Shape
  <1>3. bound' \in Budget
    BY SpendFacts DEF FailAuthoritative, CancelRun, MarkStopping, RuntimeInv, Shape
  <1>4. /\ fatal' = fatal \/ fatal' = "set"
        /\ cancelled => cancelled'
        /\ stop' = stop \/ (stop = "no" /\ stop' = "marked")
    BY DEF FailAuthoritative, CancelRun, MarkStopping
  <1>5. (Drained' <=> Drained) /\ (Released' <=> Released) /\ (stop' = "closed" => stop = "closed")
    BY <1>4 DEF Drained, Released
  <1>6. GatesFollowRecovery'
    BY <1>1, <1>4 DEF RuntimeInv, GatesFollowRecovery, gateVars
  <1>7. QED BY <1>1, <1>2, <1>3, <1>4, <1>5, <1>6, PhaseInv

\* initiateShutdown closes the gates, which nobody opens again.
LEMMA CloseForShutdownInv ==
    ASSUME RuntimeInv, CloseForShutdown
    PROVE  RuntimeInv'
  <1>1. UNCHANGED <<permit, count, token, delivery, dead, epoch, direct, recovery, excused,
                    fatal, bound, cancelled>>
    BY DEF CloseForShutdown, rabbitVars, redisVars
  <1>2. GatesKept /\ ~gate'.open /\ ~publisher'.open
    BY CloseGatesFacts DEF CloseForShutdown, RuntimeInv, Shape
  <1>3. ~opening' /\ stop = "marked" /\ stop' = "launched"
    BY DEF CloseForShutdown, CloseGates
  <1>4. (Drained' <=> Drained) /\ (Released' <=> Released) /\ (stop' = "closed" => stop = "closed")
    BY <1>3 DEF Drained, Released
  <1>5. bound' \in Budget
    BY <1>1 DEF RuntimeInv, Shape
  <1>6. GatesFollowRecovery'
    BY <1>1, <1>2, <1>3 DEF RuntimeInv, GatesFollowRecovery
  <1>7. QED BY <1>1, <1>2, <1>4, <1>5, <1>6, PhaseInv

\* The components are cancelled, and later the grace of the tasks is over.
LEMMA PhasesPassInv ==
    ASSUME RuntimeInv, CancelComponents \/ GraceEnds
    PROVE  RuntimeInv'
  <1>1. UNCHANGED <<permit, count, token, delivery, dead, epoch, direct, recovery, excused,
                    fatal, bound>>
        /\ UNCHANGED gateVars
    BY DEF CancelComponents, GraceEnds, rabbitVars, redisVars
  <1>2. GatesKept /\ bound' \in Budget
    BY <1>1, GatesUntouched DEF RuntimeInv, Shape
  <1>3. \/ stop = "launched" /\ stop' = "attempts" /\ cancelled'
        \/ stop = "grace" /\ stop' = "force" /\ cancelled' = cancelled
    BY DEF CancelComponents, GraceEnds
  <1>4. (Drained' <=> Drained) /\ (Released' <=> Released) /\ (stop' = "closed" => stop = "closed")
    BY <1>3 DEF Drained, Released
  <1>5. GatesFollowRecovery'
    BY <1>1, <1>3 DEF RuntimeInv, GatesFollowRecovery, gateVars
  <1>6. QED BY <1>1, <1>2, <1>4, <1>5, PhaseInv

\* The drain ends because nothing is left, or what is left is excused.
LEMMA DrainAttemptsInv ==
    ASSUME RuntimeInv, DrainAttempts
    PROVE  RuntimeInv'
  <1>1. UNCHANGED <<permit, count, token, delivery, dead, epoch, direct, recovery, cancelled,
                    fatal, gate, publisher, opening>>
    BY DEF DrainAttempts, rabbitVars, redisVars, gateVars
  <1>2. excused \subseteq excused' /\ stop \in {"attempts", "components"}
        /\ stop' \in {"components", "grace"}
    BY DEF DrainAttempts
  <1>3. bound' \in Budget
    BY SpendFacts DEF DrainAttempts, RuntimeInv, Shape
  <1>4. \A p \in Permits : Preparing(p) => p \in excused'
    <2>1. TAKE p \in Permits
    <2>2. PermitOK(p)
      BY DEF RuntimeInv
    <2>3. CASE AttemptsDrained
      BY <2>3, NoAttemptLeft DEF AttemptsDrained, RuntimeInv
    <2>4. CASE stop = "components"
      BY <1>2, <2>2, <2>4 DEF PermitOK, Drained
    <2>5. CASE excused' = excused \cup {q \in Permits : Preparing(q)}
                          \cup {d \in Dispatches : direct[d].pc \notin {"idle", "done"}}
      BY <2>5
    <2>6. QED BY <2>3, <2>4, <2>5 DEF DrainAttempts
  <1>5. \A d \in Dispatches : InCall(d) => d \in excused'
    <2>1. TAKE d \in Dispatches
    <2>2. CallOK(d)
      BY DEF RuntimeInv
    <2>3. CASE AttemptsDrained
      BY <2>3, NoCallLeft DEF AttemptsDrained, RuntimeInv
    <2>4. CASE stop = "components"
      BY <1>2, <2>2, <2>4 DEF CallOK, Drained
    <2>5. CASE excused' = excused \cup {q \in Permits : Preparing(q)}
                          \cup {e \in Dispatches : direct[e].pc \notin {"idle", "done"}}
      BY <2>5 DEF InCall
    <2>6. QED BY <2>3, <2>4, <2>5 DEF DrainAttempts
  <1>6. Shape'
    BY <1>1, <1>3 DEF RuntimeInv, Shape, GateType
  <1>7. PoolCounted' /\ CallsCounted'
    BY <1>1, PoolKept, CallsKept
  <1>8. GatesFollowRecovery'
    BY <1>1, <1>2 DEF RuntimeInv, GatesFollowRecovery
  <1>9. \A p \in Permits : PermitOK(p)'
    <2>1. TAKE p \in Permits
    <2>2. PermitOK(p)
      BY DEF RuntimeInv
    <2>3. (Preparing(p)' <=> Preparing(p)) /\ (Running(p)' <=> Running(p))
      BY <1>1 DEF Preparing, Running
    <2>4. HoldsWhatItNames(p)' /\ PoisonIsKept(p)'
      BY <1>1, <1>2, <2>2 DEF PermitOK, HoldsWhatItNames, PoisonIsKept
    <2>5. ~Released' /\ stop' # "closed"
      BY <1>2 DEF Released
    <2>6. permit' = permit /\ epoch' = epoch /\ gate' = gate /\ recovery' = recovery
          /\ fatal' = fatal /\ (p \in excused => p \in excused')
      BY <1>1, <1>2
    <2>7. QED BY <1>4, <2>2, <2>3, <2>4, <2>5, <2>6 DEF PermitOK
  <1>10. \A d \in Dispatches : CallOK(d)'
    BY <1>1, <1>5 DEF RuntimeInv, CallOK, InCall
  <1>11. QED BY <1>6, <1>7, <1>8, <1>9, <1>10 DEF RuntimeInv

\* cancelRunning and forceReleaseRunning cancel what runs and change no place.
Cancels ==
    permit' = [p \in Permits |-> IF Running(p) THEN [permit[p] EXCEPT !.cancelled = TRUE]
                                 ELSE permit[p]]

\* What is cancelled keeps its row otherwise.
LEMMA CancelFacts ==
    ASSUME permit \in [Permits -> Row], Cancels
    PROVE  /\ permit' \in [Permits -> Row]
           /\ \A p \in Permits :
                /\ permit'[p].pc = permit[p].pc /\ permit'[p].gen = permit[p].gen
                /\ permit'[p].fence = permit[p].fence /\ permit'[p].names = permit[p].names
                /\ permit'[p].poison = permit[p].poison
                /\ permit[p].cancelled \/ Running(p) => permit'[p].cancelled
  <1>1. ASSUME NEW p \in Permits
        PROVE  /\ permit'[p] \in Row
               /\ permit'[p].pc = permit[p].pc /\ permit'[p].gen = permit[p].gen
               /\ permit'[p].fence = permit[p].fence /\ permit'[p].names = permit[p].names
               /\ permit'[p].poison = permit[p].poison
               /\ permit[p].cancelled \/ Running(p) => permit'[p].cancelled
    <2>1. CASE Running(p)
      <3> DEFINE row == [permit[p] EXCEPT !.cancelled = TRUE]
      <3>1. permit'[p] = row /\ permit[p] \in Row
        BY <2>1 DEF Cancels
      <3>2. /\ row \in Row /\ row.pc = permit[p].pc /\ row.gen = permit[p].gen
            /\ row.fence = permit[p].fence /\ row.names = permit[p].names
            /\ row.poison = permit[p].poison /\ row.cancelled
        BY <3>1 DEF Row
      <3> HIDE DEF row
      <3>3. QED BY <3>1, <3>2
    <2>2. CASE ~Running(p)
      <3>1. permit'[p] = permit[p] /\ permit[p] \in Row
        BY <2>2 DEF Cancels
      <3>2. QED BY <2>2, <3>1
    <2>3. QED BY <2>1, <2>2
  <1>2. permit' = [p \in Permits |-> permit'[p]]
    BY DEF Cancels
  <1>3. QED BY <1>1, <1>2

\* ... so the pool is as it was.
LEMMA CancelKeepsPool ==
    ASSUME RuntimeInv, Cancels, count' = count
    PROVE  /\ PoolCounted'
           /\ \A p \in Permits : (Preparing(p)' <=> Preparing(p)) /\ (Running(p)' <=> Running(p))
  <1>1. \A p \in Permits : permit'[p].pc = permit[p].pc
    BY CancelFacts DEF RuntimeInv, Shape
  <1>2. \A p \in Permits : (Preparing(p)' <=> Preparing(p)) /\ (Running(p)' <=> Running(p))
    BY <1>1 DEF Preparing, Running
  <1>3. Preparings' = Preparings /\ Holding' = Holding
    BY <1>2 DEF Preparings, Holding
  <1>4. QED BY <1>2, <1>3 DEF RuntimeInv, PoolCounted

\* failAuthoritativeWriter cancels every task that runs.
LEMMA FatalCancelsRunsInv ==
    ASSUME RuntimeInv, FatalCancelsRuns
    PROVE  RuntimeInv'
  <1>1. UNCHANGED <<count, token, delivery, dead, epoch, direct, recovery, cancelled, stop,
                    excused, bound, gate, publisher, opening>>
    BY DEF FatalCancelsRuns, rabbitVars, redisVars, gateVars
  <1>2. Cancels
    BY DEF FatalCancelsRuns, Cancels
  <1>3. permit \in [Permits -> Row]
    BY DEF RuntimeInv, Shape
  <1>4. Shape'
    BY <1>1, <1>2, <1>3, CancelFacts DEF RuntimeInv, Shape, GateType
  <1>5. PoolCounted' /\ CallsCounted'
    BY <1>1, <1>2, CancelKeepsPool, CallsKept
  <1>6. GatesFollowRecovery'
    BY <1>1 DEF RuntimeInv, GatesFollowRecovery
  <1>7. \A p \in Permits : PermitOK(p)'
    <2>1. TAKE p \in Permits
    <2>2. PermitOK(p)
      BY DEF RuntimeInv
    <2>3. /\ permit'[p].pc = permit[p].pc /\ permit'[p].gen = permit[p].gen
          /\ permit'[p].fence = permit[p].fence /\ permit'[p].names = permit[p].names
          /\ permit'[p].poison = permit[p].poison
          /\ Running(p) => permit'[p].cancelled
      BY <1>2, <1>3, CancelFacts
    <2>4. (Preparing(p)' <=> Preparing(p)) /\ (Running(p)' <=> Running(p))
      BY <1>1, <1>2, CancelKeepsPool
    <2>5. HoldsWhatItNames(p)' /\ PoisonIsKept(p)'
      BY <1>1, <2>2, <2>3 DEF PermitOK, HoldsWhatItNames, PoisonIsKept
    <2>6. (Drained' <=> Drained) /\ (Released' <=> Released)
      BY <1>1 DEF Drained, Released
    <2>7. permit'[p].pc = "running" => permit'[p].cancelled
      BY <2>3 DEF Running, RunPCs
    <2>8. QED BY <1>1, <2>2, <2>3, <2>4, <2>5, <2>6, <2>7 DEF PermitOK
  <1>8. \A d \in Dispatches : CallOK(d)'
    BY <1>1, CallsStillOK
  <1>9. QED BY <1>4, <1>5, <1>6, <1>7, <1>8 DEF RuntimeInv

\* forceReleaseRunning: no reservation is left that is not excused, and a
\* rebuild that could bring one back has its tasks excused.
LEMMA ForceReleaseInv ==
    ASSUME RuntimeInv, ForceRelease
    PROVE  RuntimeInv'
  <1>1. UNCHANGED <<count, delivery, dead, epoch, direct, recovery, cancelled, fatal,
                    gate, publisher, opening>>
    BY DEF ForceRelease, rabbitVars, gateVars
  <1>2. Cancels /\ stop = "force" /\ stop' = "released"
    BY DEF ForceRelease, Cancels
  <1>3. PICK failed \in SUBSET {p \in Permits : Running(p)} :
           /\ bound' = bound \/ Spend("fault")
           /\ epoch # gate.fence => failed = {p \in Permits : Running(p)}
           /\ token' = [p \in Permits |-> IF Running(p) /\ p \notin failed THEN "none"
                                           ELSE token[p]]
           /\ excused' = excused \cup failed
    BY DEF ForceRelease
  <1>4. permit \in [Permits -> Row] /\ token \in [Permits -> Tokens] /\ bound \in Budget
        /\ GateType
    BY DEF RuntimeInv, Shape
  <1>5. bound' \in Budget
    BY <1>3, <1>4, SpendFacts
  <1>6. token' \in [Permits -> Tokens]
    BY <1>3, <1>4 DEF Tokens
  <1>7. permit' \in [Permits -> Row]
    BY <1>2, <1>4, CancelFacts
  <1>8. Shape'
    BY <1>1, <1>5, <1>6, <1>7 DEF RuntimeInv, Shape, GateType
  <1>9. PoolCounted' /\ CallsCounted'
    BY <1>1, <1>2, CancelKeepsPool, CallsKept
  <1>10. GatesFollowRecovery'
    BY <1>1, <1>2 DEF RuntimeInv, GatesFollowRecovery
  <1>11. \A p \in Permits : PermitOK(p)'
    <2>1. TAKE p \in Permits
    <2>2. PermitOK(p) /\ HoldsWhatItNames(p) /\ PoisonIsKept(p)
      BY DEF RuntimeInv, PermitOK
    <2>3. /\ permit'[p].pc = permit[p].pc /\ permit'[p].gen = permit[p].gen
          /\ permit'[p].fence = permit[p].fence /\ permit'[p].names = permit[p].names
          /\ permit'[p].poison = permit[p].poison
          /\ permit[p].cancelled => permit'[p].cancelled
      BY <1>2, <1>4, CancelFacts
    <2>4. (Preparing(p)' <=> Preparing(p)) /\ (Running(p)' <=> Running(p))
      BY <1>1, <1>2, CancelKeepsPool
    <2>5. token'[p] = IF Running(p) /\ p \notin failed THEN "none" ELSE token[p]
      BY <1>3
    <2>6. p \in excused => p \in excused'
      BY <1>3
    <2>7. HoldsWhatItNames(p)'
      BY <2>2, <2>3, <2>5, <2>6 DEF HoldsWhatItNames
    <2>8. PoisonIsKept(p)'
      BY <1>1, <2>2, <2>3 DEF PoisonIsKept
    <2>9. Preparing(p) => p \in excused'
      BY <1>2, <2>2, <2>6 DEF PermitOK, Drained
    <2>10. token'[p] = "none" \/ p \in excused'
      <3>1. CASE Running(p)
        BY <1>3, <2>5, <3>1
      <3>2. CASE Preparing(p)
        BY <2>9, <3>2
      <3>3. CASE ~Running(p) /\ ~Preparing(p)
        <4>1. permit[p].pc \in {"unused", "finished"}
          BY <1>4, <3>3 DEF Row, Preparing, Running
        <4>2. token[p] = "none" \/ p \in excused
          BY <2>2, <4>1 DEF HoldsWhatItNames
        <4>3. QED BY <2>5, <2>6, <3>3, <4>2
      <3>4. QED BY <3>1, <3>2, <3>3
    <2>11. recovery = "rebuilding" /\ Running(p) => p \in excused'
      <3>1. recovery = "rebuilding" => epoch # gate.fence
        BY <1>4 DEF RuntimeInv, GatesFollowRecovery, GateType
      <3>2. QED BY <1>3, <3>1
    <2>12. permit'[p].pc = "releasing" => permit'[p].fence = gate'.fence \/ p \in excused'
      BY <1>1, <2>2, <2>3, <2>6 DEF PermitOK
    <2>13. QED
      BY <1>1, <1>2, <2>2, <2>3, <2>4, <2>7, <2>8, <2>9, <2>10, <2>11, <2>12 DEF PermitOK
  <1>12. \A d \in Dispatches : CallOK(d)'
    <2>1. TAKE d \in Dispatches
    <2>2. CallOK(d) /\ Drained
      BY <1>2 DEF RuntimeInv, Drained
    <2>3. d \in excused => d \in excused'
      BY <1>3
    <2>4. QED BY <1>1, <2>2, <2>3 DEF CallOK, InCall
  <1>13. QED BY <1>8, <1>9, <1>10, <1>11, <1>12 DEF RuntimeInv

\* The connection is closed: the broker takes back what was not settled.
LEMMA CloseClientsInv ==
    ASSUME RuntimeInv, CloseClients
    PROVE  RuntimeInv'
  <1>1. UNCHANGED <<count, permit, token, dead, epoch, direct, recovery, cancelled, fatal,
                    gate, publisher, opening, excused, bound>>
    BY DEF CloseClients, redisVars, gateVars
  <1>2. stop = "released" /\ stop' = "closed"
    BY DEF CloseClients
  <1>3. \A p \in Permits : /\ delivery'[p] # "unacked"
                           /\ delivery'[p] = "acked" => delivery[p] = "acked"
    BY DEF CloseClients
  <1>4. delivery' \in [Permits -> Settlements]
    BY DEF CloseClients, RuntimeInv, Shape, Settlements
  <1>5. Shape'
    BY <1>1, <1>4 DEF RuntimeInv, Shape, GateType
  <1>6. PoolCounted' /\ CallsCounted'
    BY <1>1, PoolKept, CallsKept
  <1>7. GatesFollowRecovery'
    BY <1>1, <1>2 DEF RuntimeInv, GatesFollowRecovery
  <1>8. \A p \in Permits : PermitOK(p)'
    <2>1. TAKE p \in Permits
    <2>2. PermitOK(p)
      BY DEF RuntimeInv
    <2>3. (Preparing(p)' <=> Preparing(p)) /\ (Running(p)' <=> Running(p))
      BY <1>1 DEF Preparing, Running
    <2>4. HoldsWhatItNames(p)'
      BY <1>1, <2>2 DEF PermitOK, HoldsWhatItNames
    <2>5. PoisonIsKept(p)'
      BY <1>1, <1>3, <2>2 DEF PermitOK, PoisonIsKept
    <2>6. Drained /\ Released /\ Drained' /\ Released'
      BY <1>2 DEF Drained, Released
    <2>7. QED BY <1>1, <1>3, <2>2, <2>3, <2>4, <2>5, <2>6 DEF PermitOK
  <1>9. \A d \in Dispatches : CallOK(d)'
    BY <1>1, <1>2 DEF RuntimeInv, CallOK, InCall, Drained
  <1>10. QED BY <1>5, <1>6, <1>7, <1>8, <1>9 DEF RuntimeInv

(***************************************************************************)
(* The theorems.                                                            *)
(***************************************************************************)

\* A runtime with closed gates and an unused pool satisfies the invariant.
LEMMA InitInv == RuntimeInit => RuntimeInv
  <1> SUFFICES ASSUME RuntimeInit PROVE RuntimeInv
    OBVIOUS
  <1>1. bound \in Budget
    BY RuntimeAssumption DEF RuntimeInit, RuntimeAssumption, Budget
  <1>2. permit \in [Permits -> Row]
    <2>1. Unused \in Row
      BY DEF Unused, Row, NoBeat
    <2>2. QED BY <2>1 DEF RuntimeInit
  <1>3. GateType
    <2>1. gate \in [open : BOOLEAN, fence : Nat \ {0}, gen : Nat]
      BY DEF RuntimeInit
    <2>2. publisher \in [open : BOOLEAN, gen : Nat, inFlight : Nat] /\ opening \in BOOLEAN
      BY DEF RuntimeInit
    <2>3. QED BY <2>1, <2>2 DEF GateType
  <1>4. Shape
    BY <1>1, <1>2, <1>3 DEF RuntimeInit, Shape, Settlements, Tokens, CallPCs
  <1>5. \A p \in Permits : /\ permit[p].pc = "unused" /\ ~permit[p].poison
                           /\ ~Preparing(p) /\ ~Running(p)
    BY DEF RuntimeInit, Unused, Preparing, Running, PreparePCs, WithoutRun, RunPCs
  <1>6. Preparings = {} /\ Holding = {}
    BY <1>5 DEF Preparings, Holding
  <1>7. Calling = {} /\ Publishing = {}
    BY DEF RuntimeInit, Calling, Publishing, InCall
  <1>8. LocalWorkers \in Nat
    BY RuntimeAssumption DEF RuntimeAssumption
  <1>9. PoolCounted /\ CallsCounted
    BY <1>6, <1>7, <1>8, FS_EmptySet DEF RuntimeInit, PoolCounted, CallsCounted
  <1>10. GatesFollowRecovery
    BY DEF RuntimeInit, GatesFollowRecovery
  <1>11. \A p \in Permits : PermitOK(p)
    <2>1. TAKE p \in Permits
    <2>2. token[p] = "none" /\ delivery[p] = "none" /\ stop = "no"
      BY DEF RuntimeInit
    <2>3. HoldsWhatItNames(p) /\ PoisonIsKept(p)
      BY <1>5, <2>2 DEF HoldsWhatItNames, PoisonIsKept, WithoutRun, RunPCs
    <2>4. QED BY <1>5, <2>2, <2>3 DEF PermitOK, Drained, Released
  <1>12. \A d \in Dispatches : CallOK(d)
    BY DEF RuntimeInit, CallOK, Drained
  <1>13. QED BY <1>4, <1>9, <1>10, <1>11, <1>12 DEF RuntimeInv

\* Every step keeps it.
LEMMA NextInv == RuntimeInv /\ [RuntimeNext]_runtimeVars => RuntimeInv'
  <1> SUFFICES ASSUME RuntimeInv, [RuntimeNext]_runtimeVars PROVE RuntimeInv'
    OBVIOUS
  <1>1. CASE UNCHANGED runtimeVars
    BY <1>1, UnseenInv DEF runtimeVars
  <1>2. CASE OpenBegins
    BY <1>2, OpenBeginsInv
  <1>3. CASE OpenEnds
    BY <1>3, OpenEndsInv
  <1>4. CASE ObserveReady
    BY <1>4, ObserveReadyInv
  <1>5. CASE BeginRebuild
    BY <1>5, BeginRebuildInv
  <1>6. CASE CommitRebuild \/ DrainForRebuild \/ GiveUpRebuild
    BY <1>6, CommitRebuildInv, DrainForRebuildInv, GiveUpRebuildInv
  <1>7. CASE CloseResource \/ EndRecovery
    BY <1>7, CloseResourceInv
  <1>8. CASE AdmitBegins \/ StopWorkers
    BY <1>8, UnseenInv DEF AdmitBegins, StopWorkers, gateVars, rabbitVars, redisVars, lifeVars
  <1>9. CASE AdmitEnds
    BY <1>9, AdmitEndsInv
  <1>10. ASSUME NEW p \in Permits, WorkerStep(p)
         PROVE  RuntimeInv'
    <2>1. CASE Start(p) \/ Abort(p) \/ TakeWork(p) \/ Prepared(p) \/ FatalHandled(p) \/ Bind(p)
      BY <2>1, StartInv, AbortInv, TakeWorkInv, PreparedInv, FatalHandledInv, BindInv
    <2>2. CASE AckClaim(p) \/ BeginRun(p) \/ Nack(p) \/ Activate(p) \/ AckRelease(p)
      BY <2>2, AckClaimInv, BeginRunInv, NackInv, ActivateInv, AckReleaseInv
    <2>3. CASE DeadLetter(p) \/ ReleaseAttempt(p) \/ HeartbeatFails(p) \/ RunFatalHandled(p)
               \/ ReadLatestFence(p) \/ ReleaseRun(p)
      BY <2>3, DeadLetterInv, ReleaseAttemptInv, HeartbeatFailsInv, RunReturnsInv,
         ReadLatestFenceInv, ReleaseRunInv
    <2>4. QED BY <1>10, <2>1, <2>2, <2>3 DEF WorkerStep
  <1>11. ASSUME NEW p \in Permits,
                Expire(p) \/ PreparedFatal(p) \/ HeartbeatBegins(p) \/ RunReturns(p) \/ RunFatal(p)
         PROVE  RuntimeInv'
    BY <1>11, ExpireInv, PreparedFatalInv, HeartbeatBeginsInv, RunReturnsInv, RunFatalInv
  <1>12. ASSUME NEW d \in Dispatches, DispatchBegins(d) \/ DispatchStep(d)
         PROVE  RuntimeInv'
    BY <1>12, DispatchBeginsInv, PublishBeginsInv, PublishEndsInv, DispatchActivatesInv,
       DispatchReturnsInv
    DEF DispatchStep
  <1>13. CASE FailAuthoritative \/ CancelRun \/ MarkStopping
    BY <1>13, MarksInv
  <1>14. CASE FatalCancelsRuns
    BY <1>14, FatalCancelsRunsInv
  <1>15. CASE ShutdownStep
    BY <1>8, <1>15, CloseForShutdownInv, PhasesPassInv, DrainAttemptsInv, ForceReleaseInv,
       CloseClientsInv
    DEF ShutdownStep
  <1>16. QED
    BY <1>1, <1>2, <1>3, <1>4, <1>5, <1>6, <1>7, <1>8, <1>9, <1>10, <1>11, <1>12, <1>13,
       <1>14, <1>15
    DEF RuntimeNext

\* The inductive invariant of the runtime: the counters of the pool, the gates
\* that follow the recovery loop, and what each permit and each call holds.
THEOREM RuntimeInvariant == RuntimeSpec => []RuntimeInv
  <1>1. RuntimeInit => RuntimeInv
    BY InitInv
  <1>2. RuntimeInv /\ [RuntimeNext]_runtimeVars => RuntimeInv'
    BY NextInv
  <1>3. QED BY <1>1, <1>2, PTL DEF RuntimeSpec

\* For every number of workers and permits: the types, and the pool's counters
\* prepareCount, slotsInUse and directCount are the sizes of what they count and
\* never exceed LocalWorkers (runtime.go 452-495, 516-530, 596-662).
THEOREM RuntimeTypesHold == RuntimeSpec => []RuntimeTypeOK
  <1>1. RuntimeInv => RuntimeTypeOK
    <2> SUFFICES ASSUME RuntimeInv PROVE RuntimeTypeOK
      OBVIOUS
    <2>1. gate.open \in BOOLEAN /\ gate.gen \in Nat /\ publisher.open \in BOOLEAN
      BY DEF RuntimeInv, Shape, GateType
    <2>2. /\ delivery \in [Permits -> {"none", "unacked", "acked", "requeued"}]
          /\ token \in [Permits -> {"none", "provisional", "stable"}]
      BY DEF RuntimeInv, Shape, Settlements, Tokens
    <2>3. permit \in [Permits -> Row]
      BY DEF RuntimeInv, Shape
    <2>4. /\ count.prepare = Cardinality({p \in Permits : Preparing(p)})
          /\ count.slots = Cardinality({p \in Permits : Preparing(p) \/ Running(p)})
          /\ count.slots <= LocalWorkers
      BY DEF RuntimeInv, PoolCounted, Preparings, Holding
    <2>5. count.direct = Cardinality({d \in Dispatches : direct[d].pc \notin {"idle", "done"}})
      BY DEF RuntimeInv, CallsCounted, Calling, InCall
    <2>6. QED BY <2>1, <2>2, <2>3, <2>4, <2>5 DEF RuntimeTypeOK, Row
  <1>2. QED BY <1>1, RuntimeInvariant, PTL

\* For every number of permits and dispatches, attempts of two openings of the
\* gates never overlap, although OpenResource reopens without a drain.
THEOREM OneGeneration == RuntimeSpec => []GenerationsDoNotOverlap
  <1>1. RuntimeInv => GenerationsDoNotOverlap
    BY DEF RuntimeInv, PermitOK, CallOK, GenerationsDoNotOverlap
  <1>2. QED BY <1>1, RuntimeInvariant, PTL

\* Once failAuthoritativeWriter has returned, every task that runs is cancelled,
\* whatever the interleaving of beginRun and cancelRunning.
THEOREM FatalReachesAllRuns == RuntimeSpec => []FatalStopsRuns
  <1>1. RuntimeInv => FatalStopsRuns
    BY DEF RuntimeInv, PermitOK, FatalStopsRuns
  <1>2. QED BY <1>1, RuntimeInvariant, PTL

\* After the shutdown has closed its clients nothing is held that is not
\* excused, however many permits, calls and rebuilds there were, and no poison
\* message is gone without its copy: a fence that is read before the release and
\* used after it fails only when READY was taken away or replaced in between.
THEOREM NothingHeldAfterShutdown == RuntimeSpec => []ShutdownHandsBack
  <1>1. RuntimeInv => ShutdownHandsBack
    <2> SUFFICES ASSUME RuntimeInv PROVE ShutdownHandsBack
      OBVIOUS
    <2>1. stop = "closed" => \A p \in Permits \ excused : token[p] = "none"
      BY DEF RuntimeInv, PermitOK, Released
    <2>2. stop = "closed" => \A p \in Permits : delivery[p] # "unacked"
      BY DEF RuntimeInv, PermitOK
    <2>3. stop = "closed" => \A d \in Dispatches \ excused : direct[d].pc # "activating"
      BY DEF RuntimeInv, CallOK, Drained, InCall
    <2>4. \A p \in Permits : permit[p].poison /\ delivery[p] = "acked" => p \in dead
      BY DEF RuntimeInv, PermitOK, PoisonIsKept
    <2>5. QED BY <2>1, <2>2, <2>3, <2>4 DEF ShutdownHandsBack
  <1>2. QED BY <1>1, RuntimeInvariant, PTL

=============================================================================
