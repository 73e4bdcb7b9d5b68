---------------------------- MODULE FairCoordinator ----------------------------
(***************************************************************************)
(* The READY-mode coordination state that one fair-queue resource keeps in  *)
(* Redis, and the Lua scripts of internal/fairqueue/redis_runtime.go that   *)
(* change it.  A script is atomic, so it is one action.                     *)
(*                                                                         *)
(* A script that answers FQ_COORDINATION_CORRUPT writes nothing; the        *)
(* conditions under which it does so are the *Corrupt operators.            *)
(* The redundant reservation keys (global, tenant and provisional ZSETs,    *)
(* stable index, metadata HASH) are written together by every script and    *)
(* are kept here as one set of records.                                     *)
(***************************************************************************)
EXTENDS Integers, Sequences, FiniteSets, Functions

CONSTANTS
    Tenants,            \* tenant identifiers
    TurnTokens,         \* processing-turn tokens (128-bit random in the code)
    Attempts,           \* provisional reservation tokens "p:<attempt>"
    Stables,            \* stable reservation tokens "r:<hash of task, claim>"
    None,               \* an absent HASH field
    GlobalConcurrency, PerUserBaseConcurrency, PerUserBurstConcurrency,
    BorrowEnabled,      \* CapacityLimits
    ProcessingTurnTTL, ProvisionalTTL, ReservationTTL,
    TurnScanBatch,      \* redisRuntimeTurnScanBatch
    CleanupBatch,       \* redisRuntimeReservationCleanupBatch
    ReconcilePageSize,  \* page limit of the expiry reaper
    MaxGeneration,      \* bound: stands for the MaxInt64 guard of Activate
    MaxTime             \* bound on Redis TIME

ASSUME CapacityAssumption ==
    /\ GlobalConcurrency \in Nat \ {0}
    /\ PerUserBaseConcurrency \in Nat \ {0}
    /\ PerUserBurstConcurrency \in Nat \ {0}
    /\ PerUserBaseConcurrency <= PerUserBurstConcurrency
    /\ PerUserBurstConcurrency <= GlobalConcurrency
    /\ BorrowEnabled \in BOOLEAN

ASSUME TimeAssumption ==
    /\ ProcessingTurnTTL \in Nat \ {0}
    /\ ProvisionalTTL \in Nat \ {0}
    /\ ReservationTTL \in Nat \ {0}
    /\ TurnScanBatch \in Nat \ {0}
    /\ CleanupBatch \in Nat \ {0}
    /\ ReconcilePageSize \in Nat \ {0}
    /\ MaxGeneration \in Nat \ {0}
    /\ MaxTime \in Nat

ASSUME TokenAssumption ==
    /\ None \notin TurnTokens
    /\ Attempts \cap Stables = {}
    /\ IsFiniteSet(Tenants) /\ IsFiniteSet(TurnTokens)
    /\ IsFiniteSet(Attempts) /\ IsFiniteSet(Stables)

VARIABLES
    ring,           \* LIST: tenants waiting for a turn, head first
    members,        \* SET ring_members
    active,         \* SET active_users
    known,          \* SET known_users
    generation,     \* HASH activation_gen, 0 when absent
    turns,          \* processing_turns, turn_to_tenant, turn_to_generation
    tenantTurn,     \* HASH tenant_to_turn
    reservations,   \* inflight, inflight:tenant:*, provisional, stable_index, meta
    now             \* Redis TIME

ringVars == <<ring, members, active, known, generation, turns, tenantTurn>>
coordVars == <<ring, members, active, known, generation, turns, tenantTurn,
               reservations, now>>

Turn == [token : TurnTokens, tenant : Tenants,
         generation : Nat \ {0}, expiry : Nat]

Reservation == [token : Attempts \cup Stables, tenant : Tenants, expiry : Nat]

CoordinatorTypeOK ==
    /\ ring \in Seq(Tenants)
    /\ members \in SUBSET Tenants
    /\ active \in SUBSET Tenants
    /\ known \in SUBSET Tenants
    /\ generation \in [Tenants -> 0..MaxGeneration]
    /\ turns \in SUBSET Turn /\ IsFiniteSet(turns)
    /\ tenantTurn \in [Tenants -> TurnTokens \cup {None}]
    /\ reservations \in SUBSET Reservation
    /\ now \in Nat

CoordinatorInit ==
    /\ ring = <<>> /\ members = {} /\ active = {} /\ known = {}
    /\ generation = [t \in Tenants |-> 0]
    /\ turns = {}
    /\ tenantTurn = [t \in Tenants |-> None]
    /\ reservations = {}
    /\ now = 0

(***************************************************************************)
(* Ring and turn helpers.                                                   *)
(***************************************************************************)
Smaller(m, n) == IF m <= n THEN m ELSE n

\* Mutant: LPUSH instead of RPUSH, so the newest tenant goes first.
PushFront(r, t) == IF t \in Range(r) THEN r ELSE <<t>> \o r

\* RPUSH guarded by LPOS: a tenant never gets a second ring position.
PushBack(r, t) == IF t \in Range(r) THEN r ELSE Append(r, t)

Holds(t) == tenantTurn[t] # None

TurnsOf(token) == {u \in turns : u.token = token}

\* turn_to_tenant, turn_to_generation and processing_turns all know the token.
TurnRecorded(token, t) == \E u \in turns : u.token = token /\ u.tenant = t

(***************************************************************************)
(* EnsureKnownTenant.                                                       *)
(***************************************************************************)
EnsureKnownTenant(t) ==
    /\ known' = known \cup {t}
    /\ UNCHANGED <<ring, members, active, generation, turns, tenantTurn,
                   reservations, now>>

(***************************************************************************)
(* Activate and EnsureActive: one script.  The activation generation moves  *)
(* on every call; that is how a Rotate in progress notices it.              *)
(***************************************************************************)
ActivateCorrupt(t) ==
    \/ t \in members /\ t \notin Range(ring)
    \/ Holds(t) /\ t \in members
    \/ Holds(t) /\ ~TurnRecorded(tenantTurn[t], t)

\* Mutant: a tenant that holds a turn is put into the ring as well.
ActivateIgnoringTurn(t) ==
    /\ known' = known \cup {t}
    /\ generation[t] < MaxGeneration
    /\ generation' = [generation EXCEPT ![t] = @ + 1]
    /\ active' = active \cup {t}
    /\ members' = members \cup {t}
    /\ ring' = PushBack(ring, t)
    /\ UNCHANGED <<turns, tenantTurn, reservations, now>>

Activate(t) ==
    /\ ~ActivateCorrupt(t)
    /\ generation[t] < MaxGeneration
    /\ known' = known \cup {t}
    /\ generation' = [generation EXCEPT ![t] = @ + 1]
    /\ active' = active \cup {t}
    /\ IF Holds(t) \/ t \in members
         THEN UNCHANGED <<ring, members>>
         ELSE /\ members' = members \cup {t}
              /\ ring' = PushBack(ring, t)
    /\ UNCHANGED <<turns, tenantTurn, reservations, now>>

(***************************************************************************)
(* NextTurn: scan a bounded prefix of the ring, drop the positions of       *)
(* tenants that hold a turn or are inactive, and give the first other       *)
(* tenant a turn.                                                           *)
(***************************************************************************)
ScanCount == Smaller(Len(ring), TurnScanBatch)

Eligible(t) == ~Holds(t) /\ t \in active

EligiblePositions == {i \in 1..ScanCount : Eligible(ring[i])}

ScanPositionCorrupt(t) ==
    \/ t \notin known
    \/ Holds(t) /\ (t \in members \/ t \notin active \/ ~TurnRecorded(tenantTurn[t], t))
    \/ Eligible(t) /\ generation[t] = 0
    \/ ~Holds(t) /\ t \notin active /\ t \in members

\* Positions the scan looks at: up to and including the chosen one.
ScannedPositions ==
    {i \in 1..ScanCount : \A j \in EligiblePositions : i <= j}

NextTurnCorrupt ==
    \/ ring = <<>> /\ members # {}
    \/ \E i \in ScannedPositions : ScanPositionCorrupt(ring[i])
    \/ EligiblePositions = {} /\ Len(ring) <= ScanCount /\ members # {}

\* Mutant: the granted tenant stays in ring_members.
GrantTurnKeepingMember(token, k) ==
    LET t == ring[k] IN
    /\ ring' = SubSeq(ring, k + 1, Len(ring))
    /\ members' = members
    /\ turns' = turns \cup {[token |-> token, tenant |-> t,
                             generation |-> generation[t],
                             expiry |-> now + ProcessingTurnTTL]}
    /\ tenantTurn' = [tenantTurn EXCEPT ![t] = token]

GrantTurn(token, k) ==
    LET t == ring[k] IN
    /\ ring' = SubSeq(ring, k + 1, Len(ring))
    /\ members' = members \ {t}
    /\ turns' = turns \cup {[token |-> token, tenant |-> t,
                             generation |-> generation[t],
                             expiry |-> now + ProcessingTurnTTL]}
    /\ tenantTurn' = [tenantTurn EXCEPT ![t] = token]

NextTurn(token) ==
    /\ TurnsOf(token) = {}
    /\ ring # <<>>
    /\ ~NextTurnCorrupt
    /\ IF EligiblePositions = {}
         THEN /\ ring' = SubSeq(ring, ScanCount + 1, Len(ring))
              /\ UNCHANGED <<members, turns, tenantTurn>>
         ELSE \E k \in EligiblePositions :
                /\ \A j \in EligiblePositions : k <= j
                /\ GrantTurn(token, k)
    /\ UNCHANGED <<active, known, generation, reservations, now>>

(***************************************************************************)
(* RotateOrDeactivate: settle a turn.  The tenant goes back to the ring if  *)
(* its queue had messages or if it was activated since the turn was given.  *)
(***************************************************************************)
RotateValid(u) == u \in turns /\ tenantTurn[u.tenant] = u.token /\ u.expiry > now

RotateCorrupt(u) ==
    \/ generation[u.tenant] = 0
    \/ u.tenant \notin active
    \/ u.tenant \notin known
    \/ u.tenant \in members

\* Mutant: the activation generation is not compared.
RequeueIfReady(u, hasReady) == hasReady

Requeue(u, hasReady) == hasReady \/ generation[u.tenant] # u.generation

RotateOrDeactivate(u, hasReady) ==
    /\ RotateValid(u)
    /\ ~RotateCorrupt(u)
    /\ turns' = turns \ {u}
    /\ tenantTurn' = [tenantTurn EXCEPT ![u.tenant] = None]
    /\ IF Requeue(u, hasReady)
         THEN /\ active' = active \cup {u.tenant}
              /\ members' = members \cup {u.tenant}
              /\ ring' = PushBack(ring, u.tenant)
         ELSE /\ active' = active \ {u.tenant}
              /\ UNCHANGED <<members, ring>>
    /\ UNCHANGED <<known, generation, reservations, now>>

(***************************************************************************)
(* Reservations.                                                            *)
(***************************************************************************)
Expired(r) == r.expiry <= now
Provisional(r) == r.token \in Attempts

Live == {r \in reservations : ~Expired(r)}
LiveOf(t) == {r \in Live : r.tenant = t}

\* ZRANGEBYSCORE -inf now LIMIT 0 n: the oldest n members of S (ties in any
\* order).
Oldest(S, n) ==
    {X \in SUBSET S :
        /\ Cardinality(X) = Smaller(Cardinality(S), n)
        /\ \A x \in X, y \in S \ X : x.expiry <= y.expiry}

\* policy.go DecideReservation, inlined in the acquire script.
DecideReservation(globalCount, tenantCount, activeCount) ==
    IF globalCount >= GlobalConcurrency THEN "denied-global-full"
    ELSE IF tenantCount >= PerUserBurstConcurrency THEN "denied-tenant-burst"
    ELSE IF tenantCount < PerUserBaseConcurrency THEN "regular"
    ELSE IF ~BorrowEnabled THEN "denied-borrow-disabled"
    ELSE IF activeCount = 1 THEN "borrowed"
    ELSE "denied-competing-active-tenant"

Granted(decision) == decision \in {"regular", "borrowed"}

AcquireCorrupt(t) == t \notin active \/ t \notin known

\* Mutant: the limits are tested with > instead of >=.
DecisionOffByOne(t) ==
    DecideReservation(Cardinality(Live) - 1, Cardinality(LiveOf(t)) - 1, Cardinality(active))

Decision(t) ==
    DecideReservation(Cardinality(Live), Cardinality(LiveOf(t)), Cardinality(active))

\* Purge a batch of expired reservations, then replay an own live token or
\* decide.
AcquireProvisional(t, a) ==
    /\ ~AcquireCorrupt(t)
    /\ \E purged \in Oldest({r \in reservations : Expired(r)}, CleanupBatch) :
         LET kept == reservations \ purged IN
         reservations' =
           IF (\E r \in kept : r.token = a) \/ ~Granted(Decision(t))
             THEN kept
             ELSE kept \cup {[token |-> a, tenant |-> t,
                              expiry |-> now + ProvisionalTTL]}
    /\ UNCHANGED <<ringVars, now>>

\* BindReservation: swap a live provisional for the stable token.  A stable
\* token that is bound already is left alone; both tokens at once are taken for
\* corruption.
BindReplayed(t, a, s) ==
    /\ ~\E r \in reservations : r.token = a
    /\ \E r \in Live : r.token = s /\ r.tenant = t

BindCorrupt(a, s) ==
    {a, s} \subseteq {r.token : r \in reservations}

BindReservation(t, a, s) ==
    /\ \E r \in Live : r.token = a /\ r.tenant = t
    /\ ~\E r \in reservations : r.token = s
    /\ reservations' = {r \in reservations : r.token # a}
         \cup {[token |-> s, tenant |-> t, expiry |-> now + ReservationTTL]}
    /\ UNCHANGED <<ringVars, now>>

WriteStable(t, s) ==
    /\ reservations' = {r \in reservations : r.token # s}
         \cup {[token |-> s, tenant |-> t, expiry |-> now + ReservationTTL]}
    /\ UNCHANGED <<ringVars, now>>

RenewStable(t, s) ==
    /\ \E r \in Live : r.token = s /\ r.tenant = t
    /\ WriteStable(t, s)

EnsureReadyStableInflight(t, s) ==
    /\ \A r \in reservations : r.token = s => r.tenant = t
    /\ WriteStable(t, s)

Release(t, token) ==
    /\ \A r \in reservations : r.token = token => r.tenant = t
    /\ reservations' = {r \in reservations : r.token # token}
    /\ UNCHANGED <<ringVars, now>>

(***************************************************************************)
(* ReapExpiredTurnsAndProvisionals: expired provisionals first, then, with  *)
(* what is left of the page, expired turns; their tenants return to the     *)
(* ring.                                                                    *)
(***************************************************************************)
ReapTurnCorrupt(u) ==
    \/ tenantTurn[u.tenant] # u.token
    \/ u.tenant \notin active
    \/ u.tenant \notin known
    \/ generation[u.tenant] = 0
    \/ u.tenant \in members

ExpiredProvisionals == {r \in reservations : Provisional(r) /\ Expired(r)}
ExpiredTurns == {u \in turns : Expired(u)}

\* The orders in which the tenants of a set of turns return to the ring: by
\* expiry.
ReturnOrders(T) ==
    {[i \in 1..Cardinality(T) |-> f[i].tenant] :
        f \in {g \in Bijection(1..Cardinality(T), T) :
                \A i, j \in 1..Cardinality(T) : i < j => g[i].expiry <= g[j].expiry}}

\* Mutant: the reaper forgets tenant_to_turn.
ReapPageKeepingTenantTurn(P, T) ==
    /\ \A u \in T : ~ReapTurnCorrupt(u)
    /\ reservations' = reservations \ P
    /\ turns' = turns \ T
    /\ members' = members \cup {u.tenant : u \in T}
    /\ \E order \in ReturnOrders({u \in T : u.tenant \notin Range(ring)}) :
         ring' = ring \o order
    /\ UNCHANGED <<active, known, generation, now, tenantTurn>>

ReapPage(P, T) ==
    /\ \A u \in T : ~ReapTurnCorrupt(u)
    /\ reservations' = reservations \ P
    /\ turns' = turns \ T
    /\ tenantTurn' = [t \in Tenants |->
                        IF \E u \in T : u.tenant = t THEN None ELSE tenantTurn[t]]
    /\ members' = members \cup {u.tenant : u \in T}
    /\ \E order \in ReturnOrders({u \in T : u.tenant \notin Range(ring)}) :
         ring' = ring \o order
    /\ UNCHANGED <<active, known, generation, now>>

ReapExpiredTurnsAndProvisionals ==
    \E P \in Oldest(ExpiredProvisionals, ReconcilePageSize) :
    \E T \in Oldest(ExpiredTurns, ReconcilePageSize - Cardinality(P)) :
      ReapPage(P, T)

Tick ==
    /\ now < MaxTime
    /\ now' = now + 1
    /\ UNCHANGED <<ringVars, reservations>>

(***************************************************************************)
(* The scripts in any order, called by anyone who passes the READY fence.   *)
(***************************************************************************)
CoordinatorNext ==
    \/ \E t \in Tenants : EnsureKnownTenant(t) \/ Activate(t)
    \/ \E token \in TurnTokens : NextTurn(token)
    \/ \E u \in turns, hasReady \in BOOLEAN : RotateOrDeactivate(u, hasReady)
    \/ \E t \in Tenants, a \in Attempts : AcquireProvisional(t, a)
    \/ \E t \in Tenants, a \in Attempts, s \in Stables : BindReservation(t, a, s)
    \/ \E t \in Tenants, s \in Stables : RenewStable(t, s) \/ EnsureReadyStableInflight(t, s)
    \/ \E t \in Tenants, token \in Attempts \cup Stables : Release(t, token)
    \/ ReapExpiredTurnsAndProvisionals
    \/ Tick

CoordinatorSpec == CoordinatorInit /\ [][CoordinatorNext]_coordVars

(***************************************************************************)
(* Properties.                                                              *)
(***************************************************************************)
Holders == {t \in Tenants : Holds(t)}

\* The ring LIST and the ring_members SET describe the same tenants, with one
\* position each.
OnePosition(r) == \A i, j \in 1..Len(r) : r[i] = r[j] => i = j

RingMatchesMembers == Range(ring) = members /\ OnePosition(ring)

\* tenant_to_turn and the token-keyed turn HASHes are inverse to each other.
TurnsMatchTenants ==
    /\ \A u \in turns : tenantTurn[u.tenant] = u.token
    /\ \A t \in Holders : TurnRecorded(tenantTurn[t], t)
    /\ \A u, v \in turns : u.token = v.token => u = v

\* An active tenant waits in the ring or holds exactly one turn, never both and
\* never neither: an activation is never lost between NextTurn, Rotate and the
\* expiry reaper (redis_runtime.go 311-459, 746-820).
ActiveIsScheduled ==
    /\ active = members \cup Holders
    /\ members \cap Holders = {}

\* An active tenant is known and has an activation generation.
ActiveIsKnown == \A t \in active : t \in known /\ generation[t] # 0

\* The inductive invariant of the scripts.
CoordinatorInv ==
    /\ CoordinatorTypeOK
    /\ RingMatchesMembers
    /\ TurnsMatchTenants
    /\ ActiveIsScheduled
    /\ ActiveIsKnown

\* No sequence of script calls leads a script to report the coordination state
\* as corrupt: FQ_COORDINATION_CORRUPT really means outside interference.
NoSpuriousCorruption ==
    /\ \A t \in Tenants : ~ActivateCorrupt(t)
    /\ ~NextTurnCorrupt
    /\ \A u \in turns : ~RotateCorrupt(u) /\ ~ReapTurnCorrupt(u)

\* Turns are given in arrival order: tenants that stay in the ring keep their
\* relative order, newcomers stand behind them, and only a tenant with nobody
\* ahead of it leaves (design goal: round robin over active tenants).
Ahead(r, t, u) == \E i, j \in 1..Len(r) : i < j /\ r[i] = t /\ r[j] = u

RoundRobin ==
    [][\A t, u \in Tenants :
         /\ Ahead(ring, t, u) /\ t \in Range(ring')
              => u \in Range(ring') /\ Ahead(ring', t, u)
         /\ t \in Range(ring) /\ t \in Range(ring') /\ u \in Range(ring') \ Range(ring)
              => Ahead(ring', t, u)]_coordVars

\* The tenants that were activated since their turn was given.
Reactivated == {u.tenant : u \in {v \in turns : v.generation # generation[v.tenant]}}

TurnQueue == INSTANCE TenantQueue WITH
    waiting <- ring, served <- Holders, requested <- Reactivated

\* The scripts implement one first-in, first-out queue of tenants: turns and their
\* expiry, generations, the trimmed scan and the index keys are invisible to their
\* callers, and an activation during a turn is never lost (redis_runtime.go 311-459,
\* 746-820).
ImplementsTenantQueue == TurnQueue!Spec
================================================================================
