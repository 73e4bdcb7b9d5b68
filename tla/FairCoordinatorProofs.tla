------------------------- MODULE FairCoordinatorProofs -------------------------
(***************************************************************************)
(* Proofs about FairCoordinator for every set of tenants and tokens and     *)
(* every limit: the inductive invariant of the Redis scripts and what       *)
(* follows from it.                                                         *)
(***************************************************************************)
EXTENDS FairCoordinator, FiniteSetTheorems, TLAPS

(***************************************************************************)
(* Facts about the ring operators.                                          *)
(***************************************************************************)

\* PushBack adds exactly its tenant and keeps one position per tenant.
LEMMA PushBackFacts ==
    ASSUME NEW r \in Seq(Tenants), NEW t \in Tenants, OnePosition(r)
    PROVE  /\ PushBack(r, t) \in Seq(Tenants)
           /\ Range(PushBack(r, t)) = Range(r) \cup {t}
           /\ OnePosition(PushBack(r, t))
  <1>1. CASE t \in Range(r)
    BY <1>1 DEF PushBack
  <1>2. CASE t \notin Range(r)
    <2>1. PushBack(r, t) = Append(r, t)
      BY <1>2 DEF PushBack
    <2>2. /\ Append(r, t) \in Seq(Tenants)
          /\ Len(Append(r, t)) = Len(r) + 1
          /\ \A i \in 1..Len(r) : Append(r, t)[i] = r[i]
          /\ Append(r, t)[Len(r) + 1] = t
      OBVIOUS
    <2>3. Range(Append(r, t)) = Range(r) \cup {t}
      <3>1. DOMAIN r = 1..Len(r) /\ DOMAIN Append(r, t) = 1..(Len(r) + 1) /\ Len(r) \in Nat
        OBVIOUS
      <3>2. QED BY <2>2, <3>1 DEF Range
    <2>4. OnePosition(Append(r, t))
      BY <2>2, <1>2 DEF OnePosition, Range
    <2>5. QED BY <2>1, <2>2, <2>3, <2>4
  <1>3. QED BY <1>1, <1>2

\* Dropping a prefix keeps one position per tenant and adds nobody.
LEMMA DropFacts ==
    ASSUME NEW r \in Seq(Tenants), OnePosition(r), NEW k \in 1..Len(r)
    PROVE  LET d == SubSeq(r, k + 1, Len(r)) IN
           /\ d \in Seq(Tenants)
           /\ OnePosition(d)
           /\ Range(d) = {r[i] : i \in (k + 1)..Len(r)}
  <1> DEFINE d == SubSeq(r, k + 1, Len(r))
  <1>1. /\ d \in Seq(Tenants)
        /\ Len(d) = Len(r) - k
        /\ Len(r) \in Nat
        /\ \A i \in 1..(Len(r) - k) : d[i] = r[i + k]
    OBVIOUS
  <1>2. OnePosition(d)
    BY <1>1 DEF OnePosition
  <1>3. Range(d) = {r[i] : i \in (k + 1)..Len(r)}
    <2>1. DOMAIN d = 1..(Len(r) - k)
      BY <1>1
    <2> HIDE DEF d
    <2>2. \A i \in (k + 1)..Len(r) : i - k \in 1..(Len(r) - k) /\ d[i - k] = r[i]
      <3>1. TAKE i \in (k + 1)..Len(r)
      <3>2. k \in Int /\ i \in Int /\ i - k \in 1..(Len(r) - k) /\ (i - k) + k = i
        BY <1>1
      <3>3. QED BY <1>1, <3>2
    <2>3. \A x \in Range(d) : \E i \in (k + 1)..Len(r) : x = r[i]
      <3>1. TAKE x \in Range(d)
      <3>2. PICK i \in 1..(Len(r) - k) : x = d[i]
        BY <2>1 DEF Range
      <3>3. i + k \in (k + 1)..Len(r) /\ x = r[i + k]
        BY <1>1, <3>2
      <3>4. QED BY <3>3
    <2>4. \A i \in (k + 1)..Len(r) : r[i] \in Range(d)
      BY <2>1, <2>2 DEF Range
    <2>5. QED BY <2>3, <2>4
  <1>4. QED BY <1>1, <1>2, <1>3

(***************************************************************************)
(* The inductive invariant.                                                 *)
(***************************************************************************)

\* An empty resource satisfies the invariant.
LEMMA InitInv == CoordinatorInit => CoordinatorInv
  <1>1. SUFFICES ASSUME CoordinatorInit PROVE CoordinatorInv
    OBVIOUS
  <1>2. CoordinatorTypeOK
    BY <1>1, TimeAssumption, FS_EmptySet DEF CoordinatorInit, CoordinatorTypeOK
  <1>3. Range(ring) = {} /\ OnePosition(ring)
    BY <1>1 DEF CoordinatorInit, Range, OnePosition
  <1>4. RingMatchesMembers
    BY <1>1, <1>3 DEF CoordinatorInit, RingMatchesMembers
  <1>5. Holders = {}
    BY <1>1 DEF CoordinatorInit, Holders, Holds
  <1>6. QED
    BY <1>1, <1>2, <1>4, <1>5 DEF CoordinatorInit, CoordinatorInv, TurnsMatchTenants,
       ActiveIsScheduled, ActiveIsKnown

\* A step that only touches reservations and the clock keeps the ring half of
\* the invariant.
LEMMA RingUntouched ==
    ASSUME CoordinatorInv, UNCHANGED ringVars,
           reservations' \in SUBSET Reservation, now' \in Nat
    PROVE  CoordinatorInv'
  BY DEF CoordinatorInv, ringVars, CoordinatorTypeOK, RingMatchesMembers,
         TurnsMatchTenants, ActiveIsScheduled, ActiveIsKnown, Holders, Holds,
         TurnRecorded

\* EnsureKnownTenant only adds to known_users.
LEMMA EnsureKnownTenantInv ==
    ASSUME CoordinatorInv, NEW t \in Tenants, EnsureKnownTenant(t)
    PROVE  CoordinatorInv'
  BY DEF CoordinatorInv, EnsureKnownTenant, CoordinatorTypeOK, RingMatchesMembers,
         TurnsMatchTenants, ActiveIsScheduled, ActiveIsKnown, Holders, Holds,
         TurnRecorded

\* Activate puts a tenant that neither waits nor holds a turn into the ring.
LEMMA ActivateInv ==
    ASSUME CoordinatorInv, NEW t \in Tenants, Activate(t)
    PROVE  CoordinatorInv'
  <1> USE DEF CoordinatorInv
  <1>1. Holders' = Holders /\ turns' = turns /\ tenantTurn' = tenantTurn
    BY DEF Activate, Holders, Holds
  <1>2. generation[t] + 1 \in 1..MaxGeneration
    BY TimeAssumption DEF Activate, CoordinatorTypeOK
  <1>3. TurnsMatchTenants'
    BY <1>1 DEF TurnsMatchTenants, TurnRecorded
  <1>4. ActiveIsKnown'
    BY <1>2 DEF ActiveIsKnown, Activate, CoordinatorTypeOK
  <1>5. CASE Holds(t) \/ t \in members
    <2>1. ring' = ring /\ members' = members
      BY <1>5 DEF Activate
    <2>2. CoordinatorTypeOK'
      BY <1>2, <2>1 DEF CoordinatorTypeOK, Activate
    <2>3. RingMatchesMembers'
      BY <2>1 DEF RingMatchesMembers
    <2>4. ActiveIsScheduled'
      BY <1>1, <1>5, <2>1 DEF ActiveIsScheduled, Activate, Holders
    <2>5. QED BY <1>3, <1>4, <2>2, <2>3, <2>4
  <1>6. CASE ~(Holds(t) \/ t \in members)
    <2>1. ring' = PushBack(ring, t) /\ members' = members \cup {t} /\ active' = active \cup {t}
      BY <1>6 DEF Activate
    <2>2. /\ PushBack(ring, t) \in Seq(Tenants)
          /\ Range(PushBack(ring, t)) = Range(ring) \cup {t}
          /\ OnePosition(PushBack(ring, t))
      BY PushBackFacts DEF CoordinatorTypeOK, RingMatchesMembers
    <2>3. CoordinatorTypeOK'
      BY <1>2, <2>1, <2>2 DEF CoordinatorTypeOK, Activate
    <2>4. RingMatchesMembers'
      BY <2>1, <2>2 DEF RingMatchesMembers
    <2>5. ActiveIsScheduled'
      BY <1>1, <1>6, <2>1 DEF ActiveIsScheduled, Holders
    <2>6. QED BY <1>3, <1>4, <2>3, <2>4, <2>5
  <1>7. QED BY <1>5, <1>6

\* Under the invariant every ring position is eligible, so a scan drops nobody
\* and stops at the head.
LEMMA RingIsEligible ==
    ASSUME CoordinatorInv
    PROVE  /\ \A i \in 1..Len(ring) : Eligible(ring[i])
           /\ ring # <<>> => ScanCount \in 1..Len(ring)
           /\ EligiblePositions = 1..ScanCount
  <1> USE DEF CoordinatorInv
  <1>1. ring \in Seq(Tenants) /\ Len(ring) \in Nat
    BY DEF CoordinatorTypeOK
  <1>2. \A i \in 1..Len(ring) : Eligible(ring[i])
    <2>1. TAKE i \in 1..Len(ring)
    <2>2. ring[i] \in members /\ ring[i] \in Tenants
      BY <1>1 DEF RingMatchesMembers, Range
    <2>3. QED
      BY <2>2 DEF ActiveIsScheduled, Eligible, Holders
  <1>3. ScanCount \in 0..Len(ring) /\ (ring # <<>> => ScanCount \in 1..Len(ring))
    BY <1>1, TimeAssumption DEF ScanCount, Smaller
  <1>4. EligiblePositions = 1..ScanCount
    BY <1>1, <1>2, <1>3 DEF EligiblePositions
  <1>5. QED BY <1>2, <1>3, <1>4

\* NextTurn moves the head of the ring into a fresh turn.
LEMMA NextTurnInv ==
    ASSUME CoordinatorInv, NEW token \in TurnTokens, NextTurn(token)
    PROVE  CoordinatorInv'
  <1> USE DEF CoordinatorInv
  <1>1. ring \in Seq(Tenants) /\ Len(ring) \in Nat /\ ring # <<>> /\ 1 \in 1..Len(ring)
    BY DEF CoordinatorTypeOK, NextTurn
  <1>2. EligiblePositions = 1..ScanCount /\ ScanCount \in 1..Len(ring)
    BY <1>1, RingIsEligible
  <1>3. 1 \in EligiblePositions
    BY <1>1, <1>2
  <1>4. PICK k \in EligiblePositions :
          (\A j \in EligiblePositions : k <= j) /\ GrantTurn(token, k)
    BY <1>3 DEF NextTurn
  <1>5. k = 1
    BY <1>1, <1>2, <1>3, <1>4
  <1> DEFINE t == ring[1]
             turn == [token |-> token, tenant |-> t, generation |-> generation[t],
                      expiry |-> now + ProcessingTurnTTL]
  <1>6. /\ ring' = SubSeq(ring, 1 + 1, Len(ring))
        /\ members' = members \ {t}
        /\ turns' = turns \cup {turn}
        /\ tenantTurn' = [tenantTurn EXCEPT ![t] = token]
    BY <1>4, <1>5 DEF GrantTurn
  <1>7. /\ active' = active /\ known' = known /\ generation' = generation
        /\ reservations' = reservations /\ now' = now
    BY DEF NextTurn
  <1>8. t \in Tenants /\ t \in members /\ t \in active /\ t \notin Holders
    BY <1>1 DEF RingMatchesMembers, Range, ActiveIsScheduled
  <1>9. /\ ring' \in Seq(Tenants)
        /\ OnePosition(ring')
        /\ Range(ring') = {ring[i] : i \in (1 + 1)..Len(ring)}
    BY <1>1, <1>6, DropFacts DEF RingMatchesMembers
  <1>10. turn \in Turn
    BY <1>8, TimeAssumption DEF Turn, ActiveIsKnown, CoordinatorTypeOK
  <1> HIDE DEF turn
  <1>11. CoordinatorTypeOK'
    BY <1>6, <1>7, <1>9, <1>10, FS_AddElement DEF CoordinatorTypeOK
  <1>12. RingMatchesMembers'
    <2>1. Range(ring) = {ring[i] : i \in 1..Len(ring)}
      BY <1>1 DEF Range
    <2>2. \A i \in (1 + 1)..Len(ring) : ring[i] # t
      BY <1>1 DEF RingMatchesMembers, OnePosition
    <2>3. \A i \in 1..Len(ring) : i = 1 \/ i \in (1 + 1)..Len(ring)
      BY <1>1
    <2>4. {ring[i] : i \in (1 + 1)..Len(ring)} = Range(ring) \ {t}
      BY <1>1, <2>1, <2>2, <2>3
    <2>5. QED BY <1>6, <1>9, <2>4 DEF RingMatchesMembers
  <1>13. Holders' = Holders \cup {t}
    BY <1>6, <1>8, TokenAssumption DEF Holders, Holds, CoordinatorTypeOK
  <1>14. ActiveIsScheduled'
    BY <1>6, <1>7, <1>8, <1>13 DEF ActiveIsScheduled
  <1>15. TurnsMatchTenants'
    <2>1. turn.tenant = t /\ turn.token = token
      BY DEF turn
    <2>2. \A u \in turns : u.token # token /\ u.tenant # t /\ u.tenant \in Tenants
      BY <1>8, TokenAssumption DEF NextTurn, TurnsOf, TurnsMatchTenants, Holders, Holds,
         CoordinatorTypeOK, Turn
    <2>3. \A u \in turns' : tenantTurn'[u.tenant] = u.token
      BY <1>6, <1>8, <2>1, <2>2 DEF TurnsMatchTenants, CoordinatorTypeOK
    <2>4. \A v \in Holders' : TurnRecorded(tenantTurn[v], v)'
      BY <1>6, <1>8, <1>13, <2>1 DEF TurnsMatchTenants, CoordinatorTypeOK, TurnRecorded,
         Holders
    <2>5. \A u, v \in turns' : u.token = v.token => u = v
      BY <1>6, <2>1, <2>2 DEF TurnsMatchTenants
    <2>6. QED BY <2>3, <2>4, <2>5 DEF TurnsMatchTenants
  <1>16. ActiveIsKnown'
    BY <1>7 DEF ActiveIsKnown
  <1>17. QED BY <1>11, <1>12, <1>14, <1>15, <1>16

\* Rotate settles one turn: the tenant returns to the ring or leaves active_users.
LEMMA RotateInv ==
    ASSUME CoordinatorInv, NEW u \in turns, NEW hasReady \in BOOLEAN,
           RotateOrDeactivate(u, hasReady)
    PROVE  CoordinatorInv'
  <1> USE DEF CoordinatorInv
  <1> DEFINE t == u.tenant
  <1>1. /\ t \in Tenants /\ tenantTurn[t] = u.token /\ u.token \in TurnTokens
        /\ t \in Holders /\ t \notin members /\ t \in active
    BY TokenAssumption DEF CoordinatorTypeOK, Turn, TurnsMatchTenants, Holders, Holds,
       ActiveIsScheduled
  <1> HIDE DEF t
  <1>2. /\ turns' = turns \ {u} /\ tenantTurn' = [tenantTurn EXCEPT ![t] = None]
        /\ known' = known /\ generation' = generation
        /\ reservations' = reservations /\ now' = now
    BY DEF RotateOrDeactivate, t
  <1>3. Holders' = Holders \ {t}
    BY <1>1, <1>2 DEF Holders, Holds, CoordinatorTypeOK
  <1>4. TurnsMatchTenants'
    <2>1. \A v \in turns' : v.tenant # t /\ v \in turns
      BY <1>1, <1>2 DEF TurnsMatchTenants, t
    <2>2. \A v \in turns' : tenantTurn'[v.tenant] = v.token
      BY <1>1, <1>2, <2>1 DEF TurnsMatchTenants, CoordinatorTypeOK, Turn
    <2>3. \A h \in Holders' : TurnRecorded(tenantTurn[h], h)'
      BY <1>1, <1>2, <1>3 DEF TurnsMatchTenants, TurnRecorded, CoordinatorTypeOK, Holders, t
    <2>4. QED BY <2>1, <2>2, <2>3 DEF TurnsMatchTenants
  <1>5. CASE Requeue(u, hasReady)
    <2>1. ring' = PushBack(ring, t) /\ members' = members \cup {t} /\ active' = active
      BY <1>1, <1>5 DEF RotateOrDeactivate, t
    <2>2. /\ PushBack(ring, t) \in Seq(Tenants)
          /\ Range(PushBack(ring, t)) = Range(ring) \cup {t}
          /\ OnePosition(PushBack(ring, t))
      BY <1>1, PushBackFacts DEF CoordinatorTypeOK, RingMatchesMembers
    <2>3. CoordinatorTypeOK'
      BY <1>1, <1>2, <2>1, <2>2, FS_RemoveElement DEF CoordinatorTypeOK
    <2>4. RingMatchesMembers'
      BY <2>1, <2>2 DEF RingMatchesMembers
    <2>5. ActiveIsScheduled' /\ ActiveIsKnown'
      BY <1>1, <1>2, <1>3, <2>1 DEF ActiveIsScheduled, ActiveIsKnown
    <2>6. QED BY <1>4, <2>3, <2>4, <2>5
  <1>6. CASE ~Requeue(u, hasReady)
    <2>1. ring' = ring /\ members' = members /\ active' = active \ {t}
      BY <1>6 DEF RotateOrDeactivate, t
    <2>2. CoordinatorTypeOK'
      BY <1>1, <1>2, <2>1, FS_RemoveElement DEF CoordinatorTypeOK
    <2>3. RingMatchesMembers'
      BY <2>1 DEF RingMatchesMembers
    <2>4. ActiveIsScheduled' /\ ActiveIsKnown'
      BY <1>1, <1>2, <1>3, <2>1 DEF ActiveIsScheduled, ActiveIsKnown
    <2>5. QED BY <1>4, <2>2, <2>3, <2>4
  <1>7. QED BY <1>5, <1>6

\* Appending new, distinct tenants keeps one position per tenant.
LEMMA ConcatFacts ==
    ASSUME NEW r \in Seq(Tenants), NEW e \in Seq(Tenants), OnePosition(r), OnePosition(e),
           Range(r) \cap Range(e) = {}
    PROVE  /\ r \o e \in Seq(Tenants)
           /\ Range(r \o e) = Range(r) \cup Range(e)
           /\ OnePosition(r \o e)
  <1> DEFINE c == r \o e
  <1>1. /\ c \in Seq(Tenants) /\ Len(c) = Len(r) + Len(e)
        /\ Len(r) \in Nat /\ Len(e) \in Nat
        /\ DOMAIN r = 1..Len(r) /\ DOMAIN e = 1..Len(e) /\ DOMAIN c = 1..(Len(r) + Len(e))
        /\ \A i \in 1..Len(r) : c[i] = r[i]
        /\ \A i \in 1..Len(e) : c[i + Len(r)] = e[i]
    OBVIOUS
  <1> HIDE DEF c
  <1>2. \A i \in 1..Len(c) : \/ i \in 1..Len(r) /\ c[i] = r[i] /\ c[i] \in Range(r)
                             \/ /\ i - Len(r) \in 1..Len(e)
                                /\ c[i] = e[i - Len(r)] /\ c[i] \in Range(e)
    <2>1. TAKE i \in 1..Len(c)
    <2>2. CASE i \in 1..Len(r)
      BY <1>1, <2>2 DEF Range
    <2>3. CASE i \notin 1..Len(r)
      <3>1. i - Len(r) \in 1..Len(e) /\ (i - Len(r)) + Len(r) = i
        BY <1>1, <2>3
      <3>2. c[i] = e[i - Len(r)]
        BY <1>1, <3>1
      <3>3. QED BY <1>1, <3>1, <3>2 DEF Range
    <2>4. QED BY <2>2, <2>3
  <1>3. \A i \in 1..Len(r) : r[i] \in Range(c)
    BY <1>1 DEF Range
  <1>4. \A i \in 1..Len(e) : e[i] \in Range(c)
    BY <1>1 DEF Range
  <1>5. Range(c) = Range(r) \cup Range(e)
    <2>1. \A x \in Range(c) : x \in Range(r) \cup Range(e)
      BY <1>1, <1>2 DEF Range
    <2>2. \A x \in Range(r) \cup Range(e) : x \in Range(c)
      BY <1>1, <1>3, <1>4 DEF Range
    <2>3. QED BY <2>1, <2>2
  <1>6. OnePosition(c)
    <2>1. SUFFICES ASSUME NEW i \in 1..Len(c), NEW j \in 1..Len(c), c[i] = c[j]
                   PROVE  i = j
      BY DEF OnePosition
    <2>2. CASE c[i] \in Range(r)
      <3>1. i \in 1..Len(r) /\ j \in 1..Len(r) /\ r[i] = r[j]
        BY <1>2, <2>1, <2>2
      <3>2. QED BY <3>1 DEF OnePosition
    <2>3. CASE c[i] \notin Range(r)
      <3>1. /\ i - Len(r) \in 1..Len(e) /\ j - Len(r) \in 1..Len(e)
            /\ e[i - Len(r)] = e[j - Len(r)]
        BY <1>2, <2>1, <2>3
      <3>2. i - Len(r) = j - Len(r)
        BY <3>1 DEF OnePosition
      <3>3. QED BY <1>1, <3>2
    <2>4. QED BY <2>2, <2>3
  <1>7. QED BY <1>1, <1>5, <1>6 DEF c

\* The tenants whose turns a reap takes back, in the order they re-enter the
\* ring: all of them, since a turn holder has no ring position.
LEMMA ReapedRing ==
    ASSUME CoordinatorInv, NEW T \in SUBSET turns,
           NEW e \in ReturnOrders({u \in T : u.tenant \notin Range(ring)})
    PROVE  /\ e \in Seq(Tenants)
           /\ Range(e) = {u.tenant : u \in T}
           /\ OnePosition(e)
           /\ Range(ring) \cap Range(e) = {}
  <1> USE DEF CoordinatorInv
  <1> DEFINE entering == {u \in T : u.tenant \notin Range(ring)}
             n == Cardinality(T)
  <1>1. \A u \in turns : u.tenant \in Tenants /\ u.tenant \in Holders
    BY TokenAssumption DEF CoordinatorTypeOK, Turn, TurnsMatchTenants, Holders, Holds
  <1>2. \A u \in T : u.tenant \notin Range(ring)
    BY <1>1 DEF RingMatchesMembers, ActiveIsScheduled
  <1>3. entering = T
    BY <1>2
  <1>4. n \in Nat
    <2>1. IsFiniteSet(T)
      BY FS_Subset DEF CoordinatorTypeOK
    <2>2. QED BY <2>1, FS_CardinalityType
  <1>5. PICK f \in Bijection(1..n, T) : e = [i \in 1..n |-> f[i].tenant]
    BY <1>3 DEF ReturnOrders
  <1>5a. /\ f \in [1..n -> T]
         /\ \A u \in T : \E i \in 1..n : f[i] = u
         /\ \A i, j \in 1..n : f[i] = f[j] => i = j
    BY DEF Bijection, Injection, Surjection, IsInjective
  <1> HIDE DEF n
  <1>6. \A i \in 1..n : f[i] \in turns /\ f[i].tenant \in Tenants
    BY <1>1, <1>5, <1>5a
  <1>7. e \in Seq(Tenants) /\ Len(e) = n /\ DOMAIN e = 1..n
    BY <1>4, <1>5, <1>6
  <1>8. Range(e) = {u.tenant : u \in T}
    <2>1. \A i \in 1..n : e[i] \in {u.tenant : u \in T}
      BY <1>5, <1>5a
    <2>2. \A u \in T : \E i \in 1..n : e[i] = u.tenant
      BY <1>5, <1>5a
    <2>3. QED BY <1>7, <2>1, <2>2 DEF Range
  <1>9. \A u, v \in turns : u.tenant = v.tenant => u = v
    BY DEF TurnsMatchTenants
  <1>10. OnePosition(e)
    <2>1. \A i, j \in 1..n : e[i] = e[j] => f[i] = f[j]
      BY <1>5, <1>6, <1>9
    <2>2. QED BY <1>5a, <1>7, <2>1 DEF OnePosition
  <1>11. Range(ring) \cap Range(e) = {}
    BY <1>2, <1>8
  <1>12. QED BY <1>7, <1>8, <1>10, <1>11

\* Reaping returns the tenants of expired turns to the ring.
LEMMA ReapInv ==
    ASSUME CoordinatorInv, ReapExpiredTurnsAndProvisionals
    PROVE  CoordinatorInv'
  <1> USE DEF CoordinatorInv
  <1>1. PICK P \in SUBSET reservations, T \in SUBSET turns : ReapPage(P, T)
    BY DEF ReapExpiredTurnsAndProvisionals, Oldest, ExpiredProvisionals, ExpiredTurns
  <1>2. /\ reservations' = reservations \ P
        /\ turns' = turns \ T
        /\ tenantTurn' = [t \in Tenants |->
                            IF \E u \in T : u.tenant = t THEN None ELSE tenantTurn[t]]
        /\ members' = members \cup {u.tenant : u \in T}
        /\ active' = active /\ known' = known /\ generation' = generation /\ now' = now
    BY <1>1 DEF ReapPage
  <1>r. PICK e \in ReturnOrders({u \in T : u.tenant \notin Range(ring)}) : ring' = ring \o e
    BY <1>1 DEF ReapPage
  <1> DEFINE back == {u.tenant : u \in T}
  <1>3. /\ e \in Seq(Tenants) /\ Range(e) = back /\ OnePosition(e)
        /\ Range(ring) \cap Range(e) = {}
    BY ReapedRing
  <1>4. \A u \in turns : u.tenant \in Tenants /\ u.tenant \in Holders
    BY TokenAssumption DEF CoordinatorTypeOK, Turn, TurnsMatchTenants, Holders, Holds
  <1>5. /\ ring' \in Seq(Tenants) /\ Range(ring') = Range(ring) \cup back
        /\ OnePosition(ring')
    BY <1>r, <1>3, ConcatFacts DEF CoordinatorTypeOK, RingMatchesMembers
  <1>6. CoordinatorTypeOK'
    <2>1. IsFiniteSet(turns \ T)
      BY FS_Subset DEF CoordinatorTypeOK
    <2>2. tenantTurn' \in [Tenants -> TurnTokens \cup {None}]
      BY <1>2 DEF CoordinatorTypeOK
    <2>3. QED BY <1>2, <1>4, <1>5, <2>1, <2>2 DEF CoordinatorTypeOK
  <1>7. RingMatchesMembers'
    BY <1>2, <1>5 DEF RingMatchesMembers
  <1>8. Holders' = Holders \ back
    BY <1>2 DEF Holders, Holds
  <1>9. ActiveIsScheduled' /\ ActiveIsKnown'
    BY <1>2, <1>4, <1>8 DEF ActiveIsScheduled, ActiveIsKnown
  <1>10. TurnsMatchTenants'
    <2>1. \A v \in turns' : v \in turns /\ v.tenant \notin back
      BY <1>2 DEF TurnsMatchTenants
    <2>2. \A v \in turns' : tenantTurn'[v.tenant] = v.token
      BY <1>2, <1>4, <2>1 DEF TurnsMatchTenants
    <2>3. \A h \in Holders' : TurnRecorded(tenantTurn[h], h)'
      BY <1>2, <1>8 DEF TurnsMatchTenants, TurnRecorded, Holders
    <2>4. QED BY <2>1, <2>2, <2>3 DEF TurnsMatchTenants
  <1>11. QED BY <1>6, <1>7, <1>9, <1>10

\* The reservation scripts and the clock leave the ring state alone.
LEMMA ReservationInv ==
    ASSUME CoordinatorInv,
           \/ \E t \in Tenants, a \in Attempts : AcquireProvisional(t, a)
           \/ \E t \in Tenants, a \in Attempts, s \in Stables : BindReservation(t, a, s)
           \/ \E t \in Tenants, s \in Stables :
                RenewStable(t, s) \/ EnsureReadyStableInflight(t, s)
           \/ \E t \in Tenants, token \in Attempts \cup Stables : Release(t, token)
           \/ Tick
    PROVE  CoordinatorInv' /\ ring' = ring
  <1>1. reservations \in SUBSET Reservation /\ now \in Nat
    BY DEF CoordinatorInv, CoordinatorTypeOK
  <1>2. UNCHANGED ringVars
    BY DEF AcquireProvisional, BindReservation, RenewStable, EnsureReadyStableInflight,
       WriteStable, Release, Tick
  <1>3. now' \in Nat
    BY <1>1 DEF AcquireProvisional, BindReservation, RenewStable, EnsureReadyStableInflight,
       WriteStable, Release, Tick
  <1>4. reservations' \in SUBSET Reservation
    <2>1. ASSUME NEW t \in Tenants, NEW a \in Attempts, AcquireProvisional(t, a)
          PROVE  reservations' \in SUBSET Reservation
      <3>1. [token |-> a, tenant |-> t, expiry |-> now + ProvisionalTTL] \in Reservation
        BY <1>1, TimeAssumption DEF Reservation
      <3>2. QED BY <1>1, <2>1, <3>1 DEF AcquireProvisional
    <2>2. ASSUME NEW t \in Tenants, NEW s \in Stables
          PROVE  [token |-> s, tenant |-> t, expiry |-> now + ReservationTTL] \in Reservation
      BY <1>1, TimeAssumption DEF Reservation
    <2>3. ASSUME NEW t \in Tenants, NEW a \in Attempts, NEW s \in Stables,
                 BindReservation(t, a, s)
          PROVE  reservations' \in SUBSET Reservation
      BY <1>1, <2>2, <2>3 DEF BindReservation
    <2>4. ASSUME NEW t \in Tenants, NEW s \in Stables, WriteStable(t, s)
          PROVE  reservations' \in SUBSET Reservation
      BY <1>1, <2>2, <2>4 DEF WriteStable
    <2>5. ASSUME NEW t \in Tenants, NEW token \in Attempts \cup Stables, Release(t, token)
          PROVE  reservations' \in SUBSET Reservation
      BY <1>1, <2>5 DEF Release
    <2>6. QED
      BY <1>1, <2>1, <2>3, <2>4, <2>5 DEF RenewStable, EnsureReadyStableInflight, Tick
  <1>5. QED BY <1>2, <1>3, <1>4, RingUntouched DEF ringVars

\* Every script preserves the invariant.
LEMMA NextInv == CoordinatorInv /\ [CoordinatorNext]_coordVars => CoordinatorInv'
  <1>1. SUFFICES ASSUME CoordinatorInv, [CoordinatorNext]_coordVars PROVE CoordinatorInv'
    OBVIOUS
  <1>2. CASE UNCHANGED coordVars
    BY <1>1, <1>2, RingUntouched DEF coordVars, ringVars, CoordinatorInv, CoordinatorTypeOK
  <1>3. CASE CoordinatorNext
    BY <1>1, <1>3, EnsureKnownTenantInv, ActivateInv, NextTurnInv, RotateInv,
       ReservationInv, ReapInv DEF CoordinatorNext
  <1>4. QED BY <1>1, <1>2, <1>3

\* For all tenants, tokens and limits: the Redis scripts of redis_runtime.go keep the
\* inductive invariant in every order of calls.
THEOREM CoordinatorSafe == CoordinatorSpec => []CoordinatorInv
  BY InitInv, NextInv, PTL DEF CoordinatorSpec

\* An active tenant always waits in the ring or holds exactly one turn: no order of
\* Activate, NextTurn, RotateOrDeactivate and reaping loses or duplicates it.
THEOREM NoLostActivation == CoordinatorSpec => []ActiveIsScheduled
  <1>1. CoordinatorInv => ActiveIsScheduled
    BY DEF CoordinatorInv
  <1>2. QED BY <1>1, CoordinatorSafe, PTL

\* The invariant excludes every state in which a ring or turn script answers
\* FQ_COORDINATION_CORRUPT.
LEMMA InvNotCorrupt == CoordinatorInv => NoSpuriousCorruption
  <1>1. SUFFICES ASSUME CoordinatorInv PROVE NoSpuriousCorruption
    OBVIOUS
  <1> USE <1>1 DEF CoordinatorInv
  <1>2. \A t \in Tenants : ~ActivateCorrupt(t)
    BY DEF ActivateCorrupt, RingMatchesMembers, ActiveIsScheduled, TurnsMatchTenants, Holders
  <1>3. \A u \in turns : ~RotateCorrupt(u) /\ ~ReapTurnCorrupt(u)
    <2>1. TAKE u \in turns
    <2>2. u.tenant \in Holders /\ tenantTurn[u.tenant] = u.token
      BY TokenAssumption DEF CoordinatorTypeOK, Turn, TurnsMatchTenants, Holders, Holds
    <2>3. QED
      BY <2>2 DEF RotateCorrupt, ReapTurnCorrupt, ActiveIsScheduled, ActiveIsKnown
  <1>4. ~NextTurnCorrupt
    <2>1. ring \in Seq(Tenants) /\ Len(ring) \in Nat
      BY DEF CoordinatorTypeOK
    <2>2. ring = <<>> => members = {}
      BY DEF RingMatchesMembers, Range
    <2>3. ring # <<>> => EligiblePositions # {}
      BY <2>1, RingIsEligible
    <2>4. \A i \in ScannedPositions : ~ScanPositionCorrupt(ring[i])
      <3>1. TAKE i \in ScannedPositions
      <3>2. i \in 1..Len(ring)
        BY <2>1, TimeAssumption DEF ScannedPositions, ScanCount, Smaller
      <3>3. ring[i] \in active /\ ~Holds(ring[i])
        BY <3>2, RingIsEligible DEF Eligible
      <3>4. QED BY <3>3 DEF ScanPositionCorrupt, ActiveIsKnown
    <2>5. QED BY <2>2, <2>3, <2>4 DEF NextTurnCorrupt
  <1>5. QED BY <1>2, <1>3, <1>4 DEF NoSpuriousCorruption

\* No order of script calls makes a ring or turn script report corruption of state
\* that only the scripts have written.
THEOREM CorruptionIsForeign == CoordinatorSpec => []NoSpuriousCorruption
  BY CoordinatorSafe, InvNotCorrupt, PTL

(***************************************************************************)
(* Round robin.                                                             *)
(***************************************************************************)

\* Appending at the back keeps the order of those already in the ring.
LEMMA ConcatOrder ==
    ASSUME NEW r \in Seq(Tenants), NEW e \in Seq(Tenants), NEW t, NEW u, Ahead(r, t, u)
    PROVE  Ahead(r \o e, t, u) /\ u \in Range(r \o e)
  <1>1. PICK i, j \in 1..Len(r) : i < j /\ r[i] = t /\ r[j] = u
    BY DEF Ahead
  <1>2. /\ Len(r \o e) = Len(r) + Len(e) /\ DOMAIN (r \o e) = 1..Len(r \o e)
        /\ (r \o e)[i] = t /\ (r \o e)[j] = u /\ Len(r) \in Nat /\ Len(e) \in Nat
    BY <1>1
  <1>3. i \in 1..Len(r \o e) /\ j \in 1..Len(r \o e)
    BY <1>2
  <1>4. QED BY <1>1, <1>2, <1>3 DEF Ahead, Range

\* PushBack keeps the order of those already in the ring.
LEMMA PushBackOrder ==
    ASSUME NEW r \in Seq(Tenants), NEW v \in Tenants, NEW t, NEW u, Ahead(r, t, u)
    PROVE  Ahead(PushBack(r, v), t, u) /\ u \in Range(PushBack(r, v))
  <1>1. CASE v \in Range(r)
    BY <1>1 DEF PushBack, Ahead, Range
  <1>2. CASE v \notin Range(r)
    <2>1. PushBack(r, v) = r \o <<v>>
      BY <1>2 DEF PushBack
    <2>2. <<v>> \in Seq(Tenants)
      OBVIOUS
    <2>3. Ahead(r \o <<v>>, t, u) /\ u \in Range(r \o <<v>>)
      BY <2>2, ConcatOrder
    <2>4. QED BY <2>1, <2>3
  <1>3. QED BY <1>1, <1>2

\* Removing the head keeps the order of the others.
LEMMA HeadOrder ==
    ASSUME NEW r \in Seq(Tenants), OnePosition(r), r # <<>>, NEW t, NEW u, Ahead(r, t, u),
           t \in Range(SubSeq(r, 1 + 1, Len(r)))
    PROVE  /\ Ahead(SubSeq(r, 1 + 1, Len(r)), t, u)
           /\ u \in Range(SubSeq(r, 1 + 1, Len(r)))
  <1> DEFINE d == SubSeq(r, 1 + 1, Len(r))
  <1>1. PICK i, j \in 1..Len(r) : i < j /\ r[i] = t /\ r[j] = u
    BY DEF Ahead
  <1>2. /\ Len(r) \in Nat /\ 1 \in 1..Len(r) /\ Len(d) = Len(r) - 1
        /\ DOMAIN d = 1..(Len(r) - 1) /\ \A m \in 1..(Len(r) - 1) : d[m] = r[m + 1]
    <2>1. Len(r) \in Nat /\ 1 \in 1..Len(r) /\ r \in Seq(Tenants)
      OBVIOUS
    <2>2. /\ d \in Seq(Tenants) /\ Len(d) = Len(r) - 1
          /\ \A m \in 1..(Len(r) - 1) : d[m] = r[m + 1]
      <3>1. ASSUME NEW k \in 1..Len(r)
            PROVE  LET c == SubSeq(r, k + 1, Len(r)) IN
                   /\ c \in Seq(Tenants) /\ Len(c) = Len(r) - k
                   /\ \A m \in 1..(Len(r) - k) : c[m] = r[m + k]
        OBVIOUS
      <3>2. QED BY <2>1, <3>1
    <2>3. DOMAIN d = 1..Len(d)
      BY <2>2
    <2>4. QED BY <2>1, <2>2, <2>3
  <1>3. Range(d) = {r[m] : m \in (1 + 1)..Len(r)}
    BY <1>2, DropFacts
  <1> HIDE DEF d
  <1>4. i # 1
    <2>1. PICK m \in (1 + 1)..Len(r) : t = r[m]
      BY <1>3 DEF d
    <2>2. m \in 1..Len(r) /\ m # 1
      BY <1>2, <2>1
    <2>3. QED BY <1>1, <2>1, <2>2 DEF OnePosition
  <1>5. /\ i - 1 \in 1..Len(d) /\ j - 1 \in 1..Len(d) /\ i - 1 < j - 1
        /\ (i - 1) + 1 = i /\ (j - 1) + 1 = j
    BY <1>1, <1>2, <1>4
  <1>6. d[i - 1] = t /\ d[j - 1] = u
    BY <1>1, <1>2, <1>5
  <1>7. Ahead(d, t, u)
    BY <1>5, <1>6 DEF Ahead
  <1>8. u \in Range(d)
    BY <1>2, <1>5, <1>6 DEF Range
  <1>9. QED BY <1>7, <1>8 DEF d

\* Under the invariant a grant removes exactly the head of the ring.
LEMMA NextTurnHead ==
    ASSUME CoordinatorInv, NEW token \in TurnTokens, NextTurn(token)
    PROVE  ring # <<>> /\ ring' = SubSeq(ring, 1 + 1, Len(ring))
  <1>1. ring \in Seq(Tenants) /\ Len(ring) \in Nat /\ ring # <<>> /\ 1 \in 1..Len(ring)
    BY DEF CoordinatorInv, CoordinatorTypeOK, NextTurn
  <1>2. EligiblePositions = 1..ScanCount /\ ScanCount \in 1..Len(ring)
    BY <1>1, RingIsEligible
  <1>3. 1 \in EligiblePositions
    BY <1>1, <1>2
  <1>4. PICK k \in EligiblePositions :
          (\A j \in EligiblePositions : k <= j) /\ GrantTurn(token, k)
    BY <1>3 DEF NextTurn
  <1>5. k = 1
    BY <1>1, <1>2, <1>3, <1>4
  <1>6. QED BY <1>1, <1>4, <1>5 DEF GrantTurn

\* One step never lets a tenant be overtaken in the ring.
LEMMA StepOrder ==
    ASSUME CoordinatorInv, [CoordinatorNext]_coordVars, NEW t \in Tenants, NEW u \in Tenants,
           Ahead(ring, t, u), t \in Range(ring')
    PROVE  u \in Range(ring') /\ Ahead(ring', t, u)
  <1>1. ring \in Seq(Tenants) /\ OnePosition(ring)
    BY DEF CoordinatorInv, CoordinatorTypeOK, RingMatchesMembers
  <1>2. CASE ring' = ring
    BY <1>2 DEF Ahead, Range
  <1>3. CASE \E v \in Tenants : ring' = PushBack(ring, v)
    BY <1>1, <1>3, PushBackOrder
  <1>4. ASSUME NEW token \in TurnTokens, NextTurn(token)
        PROVE  u \in Range(ring') /\ Ahead(ring', t, u)
    BY <1>1, <1>4, NextTurnHead, HeadOrder
  <1>5. CASE ReapExpiredTurnsAndProvisionals
    <2>1. PICK P \in SUBSET reservations, T \in SUBSET turns : ReapPage(P, T)
      BY <1>5 DEF ReapExpiredTurnsAndProvisionals, Oldest, ExpiredProvisionals, ExpiredTurns
    <2>2. PICK e \in ReturnOrders({w \in T : w.tenant \notin Range(ring)}) :
               ring' = ring \o e
      BY <2>1 DEF ReapPage
    <2>3. e \in Seq(Tenants)
      BY ReapedRing
    <2>4. QED BY <1>1, <2>2, <2>3, ConcatOrder
  <1>6. CASE UNCHANGED coordVars
    BY <1>2, <1>6 DEF coordVars
  <1>7. CASE CoordinatorNext
    <2>1. ASSUME NEW v \in Tenants, EnsureKnownTenant(v) \/ Activate(v)
          PROVE  ring' = ring \/ ring' = PushBack(ring, v)
      BY <2>1 DEF EnsureKnownTenant, Activate
    <2>2. ASSUME NEW w \in turns, NEW hasReady \in BOOLEAN, RotateOrDeactivate(w, hasReady)
          PROVE  ring' = ring \/ ring' = PushBack(ring, w.tenant)
      BY <2>2 DEF RotateOrDeactivate
    <2>3. \A w \in turns : w.tenant \in Tenants
      BY DEF CoordinatorInv, CoordinatorTypeOK, Turn
    <2>4. QED
      BY <1>2, <1>3, <1>4, <1>5, <1>7, <2>1, <2>2, <2>3, ReservationInv DEF CoordinatorNext
  <1>8. QED BY <1>6, <1>7

\* Appending at the back puts a newcomer behind everyone who was there.
LEMMA ConcatNewcomer ==
    ASSUME NEW r \in Seq(Tenants), NEW e \in Seq(Tenants), NEW t \in Range(r),
           NEW u \in Range(r \o e) \ Range(r)
    PROVE  Ahead(r \o e, t, u)
  <1>1. /\ Len(r) \in Nat /\ Len(e) \in Nat /\ Len(r \o e) = Len(r) + Len(e)
        /\ DOMAIN r = 1..Len(r) /\ DOMAIN (r \o e) = 1..Len(r \o e)
        /\ \A m \in 1..Len(r) : (r \o e)[m] = r[m]
    OBVIOUS
  <1>2. PICK i \in 1..Len(r) : r[i] = t
    BY <1>1 DEF Range
  <1>3. PICK j \in 1..Len(r \o e) : (r \o e)[j] = u
    BY <1>1 DEF Range
  <1>4. j \notin 1..Len(r)
    BY <1>1, <1>3 DEF Range
  <1>5. i \in 1..Len(r \o e) /\ i < j /\ (r \o e)[i] = t
    BY <1>1, <1>2, <1>3, <1>4
  <1>6. QED BY <1>3, <1>5 DEF Ahead

\* One step puts a tenant that joins the ring behind those that stay in it.
LEMMA StepNewcomer ==
    ASSUME CoordinatorInv, [CoordinatorNext]_coordVars, NEW t \in Tenants, NEW u \in Tenants,
           t \in Range(ring), t \in Range(ring'), u \in Range(ring') \ Range(ring)
    PROVE  Ahead(ring', t, u)
  <1>1. ring \in Seq(Tenants) /\ OnePosition(ring)
    BY DEF CoordinatorInv, CoordinatorTypeOK, RingMatchesMembers
  <1>2. CASE ring' = ring
    BY <1>2
  <1>3. ASSUME NEW v \in Tenants, ring' = PushBack(ring, v)
        PROVE  Ahead(ring', t, u)
    <2>1. ring' = ring \o <<v>>
      BY <1>2, <1>3 DEF PushBack
    <2>2. <<v>> \in Seq(Tenants)
      OBVIOUS
    <2>3. QED BY <1>1, <2>1, <2>2, ConcatNewcomer
  <1>4. ASSUME NEW token \in TurnTokens, NextTurn(token)
        PROVE  Ahead(ring', t, u)
    <2>1. ring # <<>> /\ ring' = SubSeq(ring, 1 + 1, Len(ring))
      BY <1>4, NextTurnHead
    <2>2. 1 \in 1..Len(ring) /\ DOMAIN ring = 1..Len(ring) /\ Len(ring) \in Nat
      BY <1>1, <2>1
    <2>3. Range(ring') = {ring[m] : m \in (1 + 1)..Len(ring)}
      BY <1>1, <2>1, <2>2, DropFacts
    <2>4. Range(ring') \subseteq Range(ring)
      BY <2>2, <2>3 DEF Range
    <2>5. QED BY <2>4
  <1>5. CASE ReapExpiredTurnsAndProvisionals
    <2>1. PICK P \in SUBSET reservations, T \in SUBSET turns : ReapPage(P, T)
      BY <1>5 DEF ReapExpiredTurnsAndProvisionals, Oldest, ExpiredProvisionals, ExpiredTurns
    <2>2. PICK e \in ReturnOrders({w \in T : w.tenant \notin Range(ring)}) :
               ring' = ring \o e
      BY <2>1 DEF ReapPage
    <2>3. e \in Seq(Tenants)
      BY ReapedRing
    <2>4. QED BY <1>1, <2>2, <2>3, ConcatNewcomer
  <1>6. CASE UNCHANGED coordVars
    BY <1>2, <1>6 DEF coordVars
  <1>7. CASE CoordinatorNext
    <2>1. ASSUME NEW v \in Tenants, EnsureKnownTenant(v) \/ Activate(v)
          PROVE  ring' = ring \/ ring' = PushBack(ring, v)
      BY <2>1 DEF EnsureKnownTenant, Activate
    <2>2. ASSUME NEW w \in turns, NEW hasReady \in BOOLEAN, RotateOrDeactivate(w, hasReady)
          PROVE  ring' = ring \/ ring' = PushBack(ring, w.tenant)
      BY <2>2 DEF RotateOrDeactivate
    <2>3. \A w \in turns : w.tenant \in Tenants
      BY DEF CoordinatorInv, CoordinatorTypeOK, Turn
    <2>4. QED
      BY <1>2, <1>3, <1>4, <1>5, <1>7, <2>1, <2>2, <2>3, ReservationInv DEF CoordinatorNext
  <1>8. QED BY <1>6, <1>7

\* Turns are given in ring order for every number of tenants: nobody is overtaken by a
\* tenant behind it or by one that joins later.
THEOREM TurnsAreRoundRobin == CoordinatorSpec => RoundRobin
  <1>1. CoordinatorInv /\ [CoordinatorNext]_coordVars =>
          [\A t, u \in Tenants :
             /\ Ahead(ring, t, u) /\ t \in Range(ring')
                  => u \in Range(ring') /\ Ahead(ring', t, u)
             /\ t \in Range(ring) /\ t \in Range(ring') /\ u \in Range(ring') \ Range(ring)
                  => Ahead(ring', t, u)]_coordVars
    BY StepOrder, StepNewcomer
  <1>2. QED BY <1>1, CoordinatorSafe, PTL DEF CoordinatorSpec, RoundRobin
================================================================================
