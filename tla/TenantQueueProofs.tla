--------------------------- MODULE TenantQueueProofs ---------------------------
(***************************************************************************)
(* The Redis scripts implement TenantQueue, for every set of tenants and     *)
(* tokens and every limit: each script call is a step of the queue or        *)
(* changes nothing that its callers can see.                                 *)
(***************************************************************************)
EXTENDS FairCoordinatorProofs

(***************************************************************************)
(* A turn never has a generation that its tenant has not reached: with it,   *)
(* an activation during the turn always makes the two differ.                *)
(***************************************************************************)
TurnsNotAhead == \A u \in turns : u.generation <= generation[u.tenant]

RefinementInv == CoordinatorInv /\ TurnsNotAhead

\* Under the invariant NextTurn gives the head of the ring a turn of its generation.
LEMMA GrantFacts ==
    ASSUME CoordinatorInv, NEW token \in TurnTokens, NextTurn(token)
    PROVE  /\ ring # <<>> /\ ring[1] \in Tenants \ Holders
           /\ ring' = SubSeq(ring, 1 + 1, Len(ring))
           /\ turns' = turns \cup {[token |-> token, tenant |-> ring[1],
                                    generation |-> generation[ring[1]],
                                    expiry |-> now + ProcessingTurnTTL]}
           /\ tenantTurn' = [tenantTurn EXCEPT ![ring[1]] = token]
           /\ generation' = generation
  <1>1. ring \in Seq(Tenants) /\ Len(ring) \in Nat /\ ring # <<>> /\ 1 \in 1..Len(ring)
    BY DEF CoordinatorInv, CoordinatorTypeOK, NextTurn
  <1>2. EligiblePositions = 1..ScanCount /\ ScanCount \in 1..Len(ring)
    BY <1>1, RingIsEligible
  <1>3. 1 \in EligiblePositions
    BY <1>1, <1>2
  <1>4. PICK k \in EligiblePositions :
          (\A j \in EligiblePositions : k <= j) /\ GrantTurn(token, k)
    BY <1>3 DEF NextTurn
  <1>5. k = 1
    BY <1>1, <1>2, <1>3, <1>4
  <1>6. ring[1] \in Tenants /\ ring[1] \notin Holders
    BY <1>1, RingIsEligible DEF Eligible, Holders
  <1>7. generation' = generation
    BY DEF NextTurn
  <1>8. QED BY <1>1, <1>4, <1>5, <1>6, <1>7 DEF GrantTurn

\* What a reap page does to the turns and to the ring.
LEMMA ReapFacts ==
    ASSUME CoordinatorInv, ReapExpiredTurnsAndProvisionals
    PROVE  \E T \in SUBSET turns :
             LET back == {u.tenant : u \in T} IN
             /\ turns' = turns \ T
             /\ generation' = generation
             /\ back \subseteq Holders
             /\ Holders' = Holders \ back
             /\ \E e \in Seq(Tenants) : ring' = ring \o e /\ Range(e) = back /\ OnePosition(e)
  <1>1. PICK P \in SUBSET reservations, T \in SUBSET turns : ReapPage(P, T)
    BY DEF ReapExpiredTurnsAndProvisionals, Oldest, ExpiredProvisionals, ExpiredTurns
  <1> DEFINE back == {u.tenant : u \in T}
  <1>2. PICK e \in ReturnOrders({u \in T : u.tenant \notin Range(ring)}) : ring' = ring \o e
    BY <1>1 DEF ReapPage
  <1>3. e \in Seq(Tenants) /\ Range(e) = back /\ OnePosition(e)
    BY ReapedRing
  <1>4. turns' = turns \ T /\ generation' = generation
    BY <1>1 DEF ReapPage
  <1>5. back \subseteq Holders
    BY TokenAssumption DEF CoordinatorInv, CoordinatorTypeOK, Turn, TurnsMatchTenants,
       Holders, Holds
  <1>6. Holders' = Holders \ back
    BY <1>1 DEF ReapPage, Holders, Holds
  <1>7. QED BY <1>2, <1>3, <1>4, <1>5, <1>6

\* No script makes a turn's generation overtake its tenant's.
LEMMA NotAheadStep ==
    ASSUME RefinementInv, [CoordinatorNext]_coordVars
    PROVE  TurnsNotAhead'
  <1> USE DEF RefinementInv
  <1>1. /\ \A u \in turns : u.tenant \in Tenants /\ u.generation \in Nat
        /\ \A t \in Tenants : generation[t] \in Nat
        /\ generation \in [Tenants -> 0..MaxGeneration]
    BY DEF CoordinatorInv, CoordinatorTypeOK, Turn
  <1>2. CASE UNCHANGED <<turns, generation>>
    BY <1>2 DEF TurnsNotAhead
  <1>3. ASSUME NEW t \in Tenants, Activate(t)
        PROVE  TurnsNotAhead'
    <2>1. turns' = turns /\ generation' = [generation EXCEPT ![t] = @ + 1]
      BY <1>3 DEF Activate
    <2>2. \A u \in turns : u.generation <= generation'[u.tenant]
      BY <1>1, <2>1 DEF TurnsNotAhead
    <2>3. QED BY <2>1, <2>2 DEF TurnsNotAhead
  <1>4. ASSUME NEW token \in TurnTokens, NextTurn(token)
        PROVE  TurnsNotAhead'
    <2> DEFINE g == [token |-> token, tenant |-> ring[1], generation |-> generation[ring[1]],
                     expiry |-> now + ProcessingTurnTTL]
    <2>1. ring[1] \in Tenants /\ turns' = turns \cup {g} /\ generation' = generation
      BY <1>4, GrantFacts
    <2>2. g.tenant \in Tenants /\ g.generation = generation[g.tenant]
      BY <2>1
    <2> HIDE DEF g
    <2>3. QED BY <1>1, <2>1, <2>2 DEF TurnsNotAhead
  <1>5. ASSUME generation' = generation, turns' \subseteq turns
        PROVE  TurnsNotAhead'
    BY <1>5 DEF TurnsNotAhead
  <1>6. CASE CoordinatorNext
    <2>1. ASSUME NEW t \in Tenants, EnsureKnownTenant(t)
          PROVE  UNCHANGED <<turns, generation>>
      BY <2>1 DEF EnsureKnownTenant
    <2>2. ASSUME NEW u \in turns, NEW hasReady \in BOOLEAN, RotateOrDeactivate(u, hasReady)
          PROVE  generation' = generation /\ turns' \subseteq turns
      BY <2>2 DEF RotateOrDeactivate
    <2>3. CASE ReapExpiredTurnsAndProvisionals
      BY <1>5, <2>3, ReapFacts
    <2>4. CASE \/ \E t \in Tenants, a \in Attempts : AcquireProvisional(t, a)
               \/ \E t \in Tenants, a \in Attempts, s \in Stables : BindReservation(t, a, s)
               \/ \E t \in Tenants, s \in Stables :
                    RenewStable(t, s) \/ EnsureReadyStableInflight(t, s)
               \/ \E t \in Tenants, token \in Attempts \cup Stables : Release(t, token)
               \/ Tick
      <3>1. UNCHANGED <<turns, generation>>
        BY <2>4 DEF AcquireProvisional, BindReservation, RenewStable,
           EnsureReadyStableInflight, WriteStable, Release, Tick, ringVars
      <3>2. QED BY <1>2, <3>1
    <2>5. QED
      BY <1>2, <1>3, <1>4, <1>5, <1>6, <2>1, <2>2, <2>3, <2>4 DEF CoordinatorNext
  <1>7. QED BY <1>2, <1>6 DEF coordVars

\* A sequence that lists a finite set of tenants once each is one of its orders.
LEMMA ListsItsRange ==
    ASSUME NEW e \in Seq(Tenants), OnePosition(e)
    PROVE  e \in TurnQueue!Orders(Range(e))
  <1>1. DOMAIN e = 1..Len(e) /\ Len(e) \in Nat /\ e \in [1..Len(e) -> Range(e)]
    BY DEF Range
  <1>2. e \in Bijection(1..Len(e), Range(e))
    BY <1>1 DEF Bijection, Injection, Surjection, IsInjective, OnePosition, Range
  <1>3. ExistsBijection(1..Len(e), Range(e))
    BY <1>2 DEF ExistsBijection
  <1>4. Cardinality(Range(e)) = Len(e)
    BY <1>1, <1>3, FS_CountingElements
  <1>5. TurnQueue!Cardinality(Range(e)) = Cardinality(Range(e))
    BY Zenon DEF TurnQueue!Cardinality, Cardinality
  <1>6. QED BY <1>1, <1>4, <1>5 DEF TurnQueue!Orders, OnePosition

(***************************************************************************)
(* Initial states and steps.                                                *)
(***************************************************************************)

\* The empty resource is the empty queue.
LEMMA QueueInit == CoordinatorInit => TurnQueue!Init
  BY DEF CoordinatorInit, TurnQueue!Init, Holders, Holds, Reactivated

\* Activate is a request, unless the tenant waits already.
LEMMA ActivateIsRequest ==
    ASSUME RefinementInv, NEW t \in Tenants, Activate(t)
    PROVE  TurnQueue!Request(t) \/ UNCHANGED TurnQueue!queueVars
  <1> USE DEF RefinementInv
  <1>1. /\ turns' = turns /\ tenantTurn' = tenantTurn /\ Holders' = Holders
        /\ generation' = [generation EXCEPT ![t] = @ + 1]
    BY DEF Activate, Holders, Holds
  <1>2. /\ \A u \in turns : u.tenant \in Tenants /\ u.generation \in Nat
        /\ generation \in [Tenants -> Nat]
    BY DEF CoordinatorInv, CoordinatorTypeOK, Turn
  <1>3. \A u \in turns : u.generation # generation'[u.tenant]
                         <=> u.generation # generation[u.tenant] \/ u.tenant = t
    BY <1>1, <1>2 DEF TurnsNotAhead
  <1>4. CASE t \in Holders
    <2>1. PICK u \in turns : u.tenant = t
      BY <1>4 DEF CoordinatorInv, TurnsMatchTenants, TurnRecorded
    <2>2. Reactivated' = Reactivated \cup {t}
      BY <1>1, <1>3, <2>1 DEF Reactivated
    <2>3. ring' = ring
      BY <1>4 DEF Activate, Holders
    <2>4. QED BY <1>1, <1>4, <2>2, <2>3 DEF TurnQueue!Request
  <1>5. CASE t \notin Holders
    <2>1. \A u \in turns : u.tenant # t
      BY <1>5, TokenAssumption DEF CoordinatorInv, CoordinatorTypeOK, Turn, TurnsMatchTenants,
         Holders, Holds
    <2>2. Reactivated' = Reactivated
      BY <1>1, <1>3, <2>1 DEF Reactivated
    <2>3. CASE t \in members
      BY <1>1, <2>2, <2>3 DEF Activate, TurnQueue!queueVars
    <2>4. CASE t \notin members
      <3>1. t \notin Range(ring) /\ ring' = Append(ring, t)
        BY <1>5, <2>4 DEF Activate, PushBack, CoordinatorInv, RingMatchesMembers, Holders
      <3>2. QED BY <1>1, <1>5, <2>2, <3>1 DEF TurnQueue!Request, TurnQueue!Range, Range
    <2>5. QED BY <2>3, <2>4
  <1>6. QED BY <1>4, <1>5

\* NextTurn serves the head of the queue.
LEMMA NextTurnIsServe ==
    ASSUME RefinementInv, NEW token \in TurnTokens, NextTurn(token)
    PROVE  TurnQueue!Serve
  <1> USE DEF RefinementInv
  <1> DEFINE t == ring[1]
             g == [token |-> token, tenant |-> t, generation |-> generation[t],
                   expiry |-> now + ProcessingTurnTTL]
  <1>1. /\ ring # <<>> /\ t \in Tenants \ Holders
        /\ ring' = SubSeq(ring, 1 + 1, Len(ring))
        /\ turns' = turns \cup {g} /\ tenantTurn' = [tenantTurn EXCEPT ![t] = token]
        /\ generation' = generation
    BY GrantFacts
  <1>2. ring \in Seq(Tenants) /\ Head(ring) = t /\ Tail(ring) = SubSeq(ring, 1 + 1, Len(ring))
    BY <1>1 DEF CoordinatorInv, CoordinatorTypeOK
  <1>3. Holders' = Holders \cup {t}
    BY <1>1, TokenAssumption DEF Holders, Holds, CoordinatorInv, CoordinatorTypeOK
  <1>4. g.generation = generation[g.tenant]
    OBVIOUS
  <1> HIDE DEF g
  <1>5. Reactivated' = Reactivated
    BY <1>1, <1>4 DEF Reactivated
  <1>6. QED BY <1>1, <1>2, <1>3, <1>5 DEF TurnQueue!Serve

\* Settling one turn leaves the other turns' tenants as they were.
LEMMA SettleFacts ==
    ASSUME RefinementInv, NEW T \in SUBSET turns, turns' = turns \ T, generation' = generation
    PROVE  Reactivated' = Reactivated \ {u.tenant : u \in T}
  <1>1. \A u, v \in turns : u.tenant = v.tenant => u = v
    BY DEF RefinementInv, CoordinatorInv, TurnsMatchTenants
  <1>2. QED BY <1>1 DEF Reactivated

\* A rotated turn returns to the queue, or leaves it when nobody asked for it.
LEMMA RotateIsReturnOrLeave ==
    ASSUME RefinementInv, NEW u \in turns, NEW hasReady \in BOOLEAN,
           RotateOrDeactivate(u, hasReady)
    PROVE  TurnQueue!Return({u.tenant}) \/ TurnQueue!Leave(u.tenant)
  <1> USE DEF RefinementInv
  <1> DEFINE t == u.tenant
  <1>1. t \in Tenants /\ t \in Holders /\ t \notin members
    BY TokenAssumption DEF CoordinatorInv, CoordinatorTypeOK, Turn, TurnsMatchTenants, Holders,
       Holds, ActiveIsScheduled
  <1>2. /\ turns' = turns \ {u} /\ tenantTurn' = [tenantTurn EXCEPT ![t] = None]
        /\ generation' = generation
    BY DEF RotateOrDeactivate
  <1>3. Holders' = Holders \ {t}
    BY <1>1, <1>2 DEF Holders, Holds, CoordinatorInv, CoordinatorTypeOK
  <1>4. Reactivated' = Reactivated \ {t}
    <2>1. Reactivated' = Reactivated \ {v.tenant : v \in {u}}
      BY <1>2, SettleFacts
    <2>2. QED BY <2>1
  <1>5. CASE Requeue(u, hasReady)
    <2>1. ring' = Append(ring, t)
      BY <1>1, <1>5 DEF RotateOrDeactivate, PushBack, CoordinatorInv, RingMatchesMembers
    <2>2. <<t>> \in Seq(Tenants) /\ OnePosition(<<t>>) /\ Range(<<t>>) = {t}
      BY <1>1 DEF OnePosition, Range
    <2>3. <<t>> \in TurnQueue!Orders({t})
      BY <2>2, ListsItsRange
    <2>4. ring' = ring \o <<t>>
      <3>1. ring \in Seq(Tenants) /\ t \in Tenants
        BY <1>1 DEF CoordinatorInv, CoordinatorTypeOK
      <3> HIDE DEF t
      <3>2. Append(ring, t) = ring \o <<t>>
        BY <3>1
      <3>3. QED BY <2>1, <3>2
    <2>5. QED BY <1>3, <1>4, <2>3, <2>4 DEF TurnQueue!Return
  <1>6. CASE ~Requeue(u, hasReady)
    <2>1. ring' = ring
      BY <1>6 DEF RotateOrDeactivate
    <2>2. t \notin Reactivated
      BY <1>6 DEF Requeue, Reactivated, CoordinatorInv, TurnsMatchTenants
    <2>3. Reactivated' = Reactivated
      BY <1>4, <2>2
    <2>4. QED BY <1>1, <1>3, <2>1, <2>2, <2>3 DEF TurnQueue!Leave
  <1>7. QED BY <1>5, <1>6

\* A reap page returns the tenants of its turns, or touches provisionals only.
LEMMA ReapIsReturn ==
    ASSUME RefinementInv, ReapExpiredTurnsAndProvisionals
    PROVE  \/ \E S \in SUBSET Holders : TurnQueue!Return(S)
           \/ UNCHANGED TurnQueue!queueVars
  <1> USE DEF RefinementInv
  <1>1. PICK T \in SUBSET turns :
             /\ turns' = turns \ T /\ generation' = generation
             /\ {u.tenant : u \in T} \subseteq Holders
             /\ Holders' = Holders \ {u.tenant : u \in T}
             /\ \E e \in Seq(Tenants) :
                  ring' = ring \o e /\ Range(e) = {u.tenant : u \in T} /\ OnePosition(e)
    BY ReapFacts
  <1> DEFINE S == {u.tenant : u \in T}
  <1>2. PICK e \in Seq(Tenants) : ring' = ring \o e /\ Range(e) = S /\ OnePosition(e)
    BY <1>1
  <1>3. Reactivated' = Reactivated \ S
    BY <1>1, SettleFacts
  <1>4. S \in SUBSET Holders /\ Holders' = Holders \ S
    BY <1>1
  <1> HIDE DEF S
  <1>5. CASE S # {}
    <2>1. e \in TurnQueue!Orders(S)
      BY <1>2, ListsItsRange
    <2>2. TurnQueue!Return(S)
      BY <1>2, <1>3, <1>4, <1>5, <2>1 DEF TurnQueue!Return
    <2>3. QED BY <1>4, <2>2
  <1>6. CASE S = {}
    <2>1. Len(e) = 0
      <3>1. Len(e) \in Nat /\ DOMAIN e = 1..Len(e)
        OBVIOUS
      <3>2. Len(e) # 0 => 1 \in DOMAIN e
        BY <3>1
      <3>3. DOMAIN e = {}
        BY <1>2, <1>6 DEF Range
      <3>4. QED BY <3>2, <3>3
    <2>2. ring \in Seq(Tenants) /\ ring \o e = ring
      BY <2>1 DEF CoordinatorInv, CoordinatorTypeOK
    <2>3. QED BY <1>2, <1>3, <1>4, <1>6, <2>2 DEF TurnQueue!queueVars
  <1>7. QED BY <1>5, <1>6

\* Every script call is a step of the queue or invisible to it.
LEMMA StepIsQueueStep ==
    ASSUME RefinementInv, [CoordinatorNext]_coordVars
    PROVE  [TurnQueue!Next]_(TurnQueue!queueVars)
  <1> USE DEF RefinementInv
  <1>1. ASSUME ring' = ring, turns' = turns, tenantTurn' = tenantTurn, generation' = generation
        PROVE  UNCHANGED TurnQueue!queueVars
    BY <1>1 DEF TurnQueue!queueVars, Holders, Holds, Reactivated
  <1>2. CASE UNCHANGED coordVars
    BY <1>1, <1>2 DEF coordVars
  <1>3. ASSUME NEW t \in Tenants, EnsureKnownTenant(t)
        PROVE  UNCHANGED TurnQueue!queueVars
    BY <1>1, <1>3 DEF EnsureKnownTenant
  <1>4. ASSUME NEW t \in Tenants, Activate(t)
        PROVE  [TurnQueue!Next]_(TurnQueue!queueVars)
    BY <1>4, ActivateIsRequest DEF TurnQueue!Next
  <1>5. ASSUME NEW token \in TurnTokens, NextTurn(token)
        PROVE  [TurnQueue!Next]_(TurnQueue!queueVars)
    BY <1>5, NextTurnIsServe DEF TurnQueue!Next
  <1>6. ASSUME NEW u \in turns, NEW hasReady \in BOOLEAN, RotateOrDeactivate(u, hasReady)
        PROVE  [TurnQueue!Next]_(TurnQueue!queueVars)
    <2>1. u.tenant \in Tenants /\ {u.tenant} \in SUBSET Holders
      BY TokenAssumption DEF CoordinatorInv, CoordinatorTypeOK, Turn, TurnsMatchTenants,
         Holders, Holds
    <2>2. QED BY <1>6, <2>1, RotateIsReturnOrLeave DEF TurnQueue!Next
  <1>7. CASE ReapExpiredTurnsAndProvisionals
    BY <1>7, ReapIsReturn DEF TurnQueue!Next
  <1>8. CASE \/ \E t \in Tenants, a \in Attempts : AcquireProvisional(t, a)
             \/ \E t \in Tenants, a \in Attempts, s \in Stables : BindReservation(t, a, s)
             \/ \E t \in Tenants, s \in Stables :
                  RenewStable(t, s) \/ EnsureReadyStableInflight(t, s)
             \/ \E t \in Tenants, token \in Attempts \cup Stables : Release(t, token)
             \/ Tick
    <2>1. UNCHANGED ringVars
      BY <1>8 DEF AcquireProvisional, BindReservation, RenewStable,
         EnsureReadyStableInflight, WriteStable, Release, Tick
    <2>2. QED BY <1>1, <2>1 DEF ringVars
  <1>9. QED
    BY <1>2, <1>3, <1>4, <1>5, <1>6, <1>7, <1>8 DEF CoordinatorNext

\* For all tenants, tokens and limits, the Redis scripts of redis_runtime.go implement
\* one first-in, first-out queue of tenants that never loses a request.
THEOREM ScriptsImplementQueue == CoordinatorSpec => ImplementsTenantQueue
  <1>1. CoordinatorInit => TurnsNotAhead
    BY DEF CoordinatorInit, TurnsNotAhead
  <1>2. RefinementInv /\ [CoordinatorNext]_coordVars => TurnsNotAhead'
    BY NotAheadStep
  <1>3. RefinementInv /\ [CoordinatorNext]_coordVars => [TurnQueue!Next]_(TurnQueue!queueVars)
    BY StepIsQueueStep
  <1>4. QED
    BY <1>1, <1>2, <1>3, QueueInit, InitInv, NextInv, PTL
       DEF CoordinatorSpec, ImplementsTenantQueue, TurnQueue!Spec, RefinementInv
================================================================================
