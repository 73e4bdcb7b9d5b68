------------------------- MODULE FairSchedulerProofs -------------------------
(***************************************************************************)
(* Proofs about FairScheduler for every set of processes, tasks, tenants    *)
(* and tokens and every bound: the loops only ever call the Redis scripts,  *)
(* so that what FairCoordinatorProofs proves of the scripts holds of the    *)
(* whole, and the inductive invariants of the attempts, of the ready        *)
(* messages and of the reservations.                                        *)
(***************************************************************************)
EXTENDS FairScheduler, TenantQueueProofs

(***************************************************************************)
(* The inductive invariant.                                                 *)
(***************************************************************************)
SlotRow == [pc : SlotPCs, tenant : Tenants \cup {None}, turn : Turn \cup {None},
            attempt : Attempts \cup {None}, msg : Message \cup {None}, hasReady : BOOLEAN]

\* What a process holds at each place of its attempt.
RowOK(p) ==
    LET row == slot[p] IN
    /\ row.pc # "idle" => row.tenant \in Tenants
    /\ row.turn # None <=> row.pc \in {"turn", "granted", "emptyGet", "depth", "rotate"}
    /\ row.turn # None => row.turn.tenant = row.tenant
    /\ row.pc \in {"granted", "emptyGet", "release", "prepare", "nacked", "bind", "bound"}
         => row.attempt # None
    /\ row.pc \in {"idle", "turn", "running"} => row.attempt = None
    /\ row.pc \in {"prepare", "bind", "bound", "running", "finished"} => row.msg # None
    /\ row.pc \in {"idle", "turn", "granted", "emptyGet", "nacked"} => row.msg = None
    /\ row.pc \in {"depth", "rotate"} /\ row.msg # None => row.attempt # None
    /\ row.msg # None => TenantOf[row.msg[1]] = row.tenant

Rows == slot \in [Procs -> SlotRow] /\ \A p \in Procs : RowOK(p)

FaultCounters ==
    /\ faults \in [crashes : Nat, deferrals : Nat, redundant : Nat, passes : Nat,
                   bound : Bounds]
    /\ faults.crashes <= faults.bound.crashes
    /\ faults.deferrals <= faults.bound.deferrals
    /\ faults.redundant <= faults.bound.redundant
    /\ faults.passes <= faults.bound.passes

\* The dispatcher's publish, and what was left undone.
PubRow == [pc : {"idle", "published", "marked", "closed"}, msg : Message \cup {None}]
LostRow == [activations : SUBSET Tenants, releases : SUBSET (Attempts \cup Message)]

Types ==
    /\ status \in [Tasks -> Statuses]
    /\ claims \in [Tasks -> 0..MaxClaims]
    /\ ready \in [Message -> Nat]
    /\ gate \in [Procs -> BOOLEAN]
    /\ pub \in PubRow
    /\ pub.pc \in {"published", "marked"} => pub.msg # None
    /\ pub.pc = "idle" => pub = PubIdle
    /\ pub.pc = "closed" => pub = PubClosed
    /\ lost \in LostRow
    /\ recon \in [pc : {"idle", "activate", "running", "stable"},
                  tenant : Tenants \cup {None},
                  canonical : SUBSET Message, redis : SUBSET Message]
    /\ recon.pc = "activate" => recon.tenant \in Tenants
    /\ FaultCounters
    /\ \A k \in Tasks : status[k] = "claimed" => claims[k] # 0

\* A reservation has a provisional token or the name of a delivery.
ReservationsNamed ==
    /\ IsFiniteSet(reservations)
    /\ \A r \in reservations : r.token \in Attempts \cup Message

\* The copies of a message: the ready ones and those that a process has not
\* acknowledged.
HoldersOf(m) == {p \in Procs : Unacked(p) /\ slot[p].msg = m}
CopiesBounded == \A m \in Message : Copies(m) <= MaxCopies

\* A turn has a generation that its tenant has reached.
TurnsHeldNotAhead ==
    \A p \in Procs :
        slot[p].turn # None => slot[p].turn.generation <= generation[slot[p].turn.tenant]

\* A ready message that the tenant must be active for, and the activation that is
\* still owed for it: by the dispatcher that marked this very message, by a worker
\* that put it back, or by nobody any more since the one that owed it was lost.
Waits(k) == status[k] = "dispatched" /\ ready[Current(k)] > 0
Announced(k) ==
    \/ pub.pc = "marked" /\ pub.msg = Current(k)
    \/ \E p \in Procs : slot[p].pc = "nacked" /\ slot[p].tenant = TenantOf[k]
    \/ TenantOf[k] \in lost.activations

\* A scheduler that is about to deactivate its tenant, unless the generation moves.
Blind(p) == slot[p].pc = "rotate" /\ ~slot[p].hasReady
Deactivates(p) ==
    Blind(p) /\ generation[slot[p].turn.tenant] = slot[p].turn.generation

NothingHidden ==
    /\ pub.pc = "published" => status[pub.msg[1]] # "dispatched"
    /\ \A k \in Tasks : Waits(k) => TenantOf[k] \in active \/ Announced(k)
    /\ \A p \in Procs : Deactivates(p) =>
         \A k \in TasksOf(slot[p].tenant) : Waits(k) => Announced(k)

\* Only a pass of the reconciler writes a reservation without a decision.
WithinLimits ==
    /\ Cardinality(Live) <= GlobalConcurrency
    /\ \A t \in Tenants : Cardinality(LiveOf(t)) <= PerUserBurstConcurrency
Decided ==
    faults.passes = 0 => recon.pc \in {"idle", "activate"} /\ WithinLimits

\* A process whose attempt is over for Redis holds no provisional reservation any
\* more, unless its release was lost; the stable one belongs to a worker that has
\* bound it.
AttemptSpent(p) ==
    slot[p].pc \in {"bound", "finished"} =>
        \A r \in reservations : r.token # slot[p].attempt \/ r.token \in lost.releases
Owns(p, token) ==
    \/ slot[p].attempt = token
    \/ slot[p].msg = token /\ slot[p].pc \in {"bound", "running", "release", "finished"}
Owned ==
    /\ \A p \in Procs : AttemptSpent(p)
    /\ faults.passes = 0 =>
         \A r \in Live : r.token \in lost.releases \/ \E p \in Procs : Owns(p, r.token)

SchedulerInv ==
    /\ CoordinatorInv /\ Rows /\ Types
    /\ ReservationsNamed /\ CopiesBounded
    /\ TurnsHeldNotAhead /\ NothingHidden
    /\ Decided /\ Owned

(***************************************************************************)
(* What a step does to the row of a process.                                *)
(***************************************************************************)

\* Only p's row changes,
OneRow(p) ==
    /\ slot' \in [Procs -> SlotRow]
    /\ \A q \in Procs \ {p} : slot'[q] = slot[q]

\* and becomes this one.
Becomes(p, c, t, u, a, m) ==
    /\ OneRow(p)
    /\ slot'[p].pc = c /\ slot'[p].tenant = t /\ slot'[p].turn = u
    /\ slot'[p].attempt = a /\ slot'[p].msg = m

\* The fields of a row have the types that the row has.
LEMMA RowFields ==
    ASSUME NEW row \in SlotRow
    PROVE  /\ row.pc \in SlotPCs /\ row.tenant \in Tenants \cup {None}
           /\ row.turn \in Turn \cup {None} /\ row.attempt \in Attempts \cup {None}
           /\ row.msg \in Message \cup {None} /\ row.hasReady \in BOOLEAN
  BY DEF SlotRow

\* An update of one row is what it says.
LEMMA RowReplaced ==
    ASSUME slot \in [Procs -> SlotRow], NEW p \in Procs, NEW row \in SlotRow,
           slot' = [slot EXCEPT ![p] = row]
    PROVE  /\ Becomes(p, row.pc, row.tenant, row.turn, row.attempt, row.msg)
           /\ slot'[p].hasReady = row.hasReady
  BY DEF Becomes, OneRow

\* A process goes to another place.
LEMMA GotoFacts ==
    ASSUME slot \in [Procs -> SlotRow], NEW p \in Procs, NEW c \in SlotPCs, Goto(p, c)
    PROVE  /\ Becomes(p, c, slot[p].tenant, slot[p].turn, slot[p].attempt, slot[p].msg)
           /\ slot'[p].hasReady = slot[p].hasReady
  <1> DEFINE row == [slot[p] EXCEPT !.pc = c]
  <1>1. slot[p] \in SlotRow /\ slot' = [slot EXCEPT ![p] = row]
    BY DEF Goto
  <1>2. /\ row \in SlotRow /\ row.pc = c /\ row.tenant = slot[p].tenant
        /\ row.turn = slot[p].turn /\ row.attempt = slot[p].attempt
        /\ row.msg = slot[p].msg /\ row.hasReady = slot[p].hasReady
    BY <1>1 DEF SlotRow
  <1> HIDE DEF row
  <1>3. QED BY <1>1, <1>2, RowReplaced

\* A process is idle again.
LEMMA IdleFacts ==
    ASSUME slot \in [Procs -> SlotRow], NEW p \in Procs, Idle(p)
    PROVE  Becomes(p, "idle", None, None, None, None)
  <1>1. SlotIdle \in SlotRow
    BY DEF SlotIdle, SlotRow, SlotPCs
  <1>2. QED BY <1>1, RowReplaced DEF Idle, SlotIdle

\* It goes on without its attempt, or with one.
LEMMA AttemptFacts ==
    ASSUME slot \in [Procs -> SlotRow], NEW p \in Procs, NEW c \in SlotPCs,
           NEW a \in Attempts \cup {None},
           \/ slot' = [slot EXCEPT ![p].pc = c, ![p].attempt = a]
           \/ slot' = [slot EXCEPT ![p] = [@ EXCEPT !.pc = c, !.attempt = a]]
    PROVE  Becomes(p, c, slot[p].tenant, slot[p].turn, a, slot[p].msg)
  <1> DEFINE first == [slot[p] EXCEPT !.pc = c]
             row == [first EXCEPT !.attempt = a]
  <1>1. slot[p] \in SlotRow
    OBVIOUS
  <1>2. slot' = [slot EXCEPT ![p] = row]
    <2>1. [slot EXCEPT ![p].pc = c][p] = first
      BY <1>1
    <2>2. QED BY <1>1, <2>1
  <1>3. /\ first \in SlotRow /\ first.pc = c /\ first.tenant = slot[p].tenant
        /\ first.turn = slot[p].turn /\ first.msg = slot[p].msg
        /\ first.hasReady = slot[p].hasReady
    BY <1>1 DEF SlotRow
  <1> HIDE DEF first
  <1>4. /\ row \in SlotRow /\ row.pc = c /\ row.tenant = slot[p].tenant
        /\ row.turn = slot[p].turn /\ row.attempt = a
        /\ row.msg = slot[p].msg /\ row.hasReady = slot[p].hasReady
    BY <1>3 DEF SlotRow
  <1> HIDE DEF row
  <1>5. QED BY <1>2, <1>4, RowReplaced

\* With another message.
LEMMA MessageFacts ==
    ASSUME slot \in [Procs -> SlotRow], NEW p \in Procs, NEW c \in SlotPCs,
           NEW m \in Message \cup {None},
           slot' = [slot EXCEPT ![p].pc = c, ![p].msg = m]
    PROVE  Becomes(p, c, slot[p].tenant, slot[p].turn, slot[p].attempt, m)
  <1> DEFINE first == [slot[p] EXCEPT !.pc = c]
             row == [first EXCEPT !.msg = m]
  <1>1. slot[p] \in SlotRow
    OBVIOUS
  <1>2. slot' = [slot EXCEPT ![p] = row]
    <2>1. [slot EXCEPT ![p].pc = c][p] = first
      BY <1>1
    <2>2. QED BY <1>1, <2>1
  <1>3. /\ first \in SlotRow /\ first.pc = c /\ first.tenant = slot[p].tenant
        /\ first.turn = slot[p].turn /\ first.attempt = slot[p].attempt
        /\ first.hasReady = slot[p].hasReady
    BY <1>1 DEF SlotRow
  <1> HIDE DEF first
  <1>4. /\ row \in SlotRow /\ row.pc = c /\ row.tenant = slot[p].tenant
        /\ row.turn = slot[p].turn /\ row.attempt = slot[p].attempt
        /\ row.msg = m /\ row.hasReady = slot[p].hasReady
    BY <1>3 DEF SlotRow
  <1> HIDE DEF row
  <1>5. QED BY <1>2, <1>4, RowReplaced

\* With what it knows of its queue.
LEMMA HasReadyFacts ==
    ASSUME slot \in [Procs -> SlotRow], NEW p \in Procs, NEW c \in SlotPCs,
           NEW h \in BOOLEAN,
           \/ slot' = [slot EXCEPT ![p].pc = c, ![p].hasReady = h]
           \/ slot' = [slot EXCEPT ![p] = [@ EXCEPT !.pc = c, !.hasReady = h]]
    PROVE  /\ Becomes(p, c, slot[p].tenant, slot[p].turn, slot[p].attempt, slot[p].msg)
           /\ slot'[p].hasReady = h
  <1> DEFINE first == [slot[p] EXCEPT !.pc = c]
             row == [first EXCEPT !.hasReady = h]
  <1>1. slot[p] \in SlotRow
    OBVIOUS
  <1>2. slot' = [slot EXCEPT ![p] = row]
    <2>1. [slot EXCEPT ![p].pc = c][p] = first
      BY <1>1
    <2>2. QED BY <1>1, <2>1
  <1>3. /\ first \in SlotRow /\ first.pc = c /\ first.tenant = slot[p].tenant
        /\ first.turn = slot[p].turn /\ first.attempt = slot[p].attempt
        /\ first.msg = slot[p].msg
    BY <1>1 DEF SlotRow
  <1> HIDE DEF first
  <1>4. /\ row \in SlotRow /\ row.pc = c /\ row.tenant = slot[p].tenant
        /\ row.turn = slot[p].turn /\ row.attempt = slot[p].attempt
        /\ row.msg = slot[p].msg /\ row.hasReady = h
    BY <1>3 DEF SlotRow
  <1> HIDE DEF row
  <1>5. QED BY <1>2, <1>4, RowReplaced

\* With both that and an attempt whose fate it does not know.
LEMMA UnsureFacts ==
    ASSUME slot \in [Procs -> SlotRow], NEW p \in Procs, NEW a \in Attempts,
           slot' = [slot EXCEPT ![p].pc = "rotate", ![p].hasReady = TRUE, ![p].attempt = a]
    PROVE  /\ Becomes(p, "rotate", slot[p].tenant, slot[p].turn, a, slot[p].msg)
           /\ slot'[p].hasReady
  <1> DEFINE first == [slot[p] EXCEPT !.pc = "rotate"]
             second == [first EXCEPT !.hasReady = TRUE]
             row == [second EXCEPT !.attempt = a]
  <1>1. slot[p] \in SlotRow /\ "rotate" \in SlotPCs
    BY DEF SlotPCs
  <1>2. slot' = [slot EXCEPT ![p] = row]
    <2>1. [slot EXCEPT ![p].pc = "rotate"][p] = first
      BY <1>1
    <2>2. [[slot EXCEPT ![p].pc = "rotate"] EXCEPT ![p].hasReady = TRUE][p] = second
      BY <1>1
    <2>3. QED BY <1>1, <2>1, <2>2
  <1>3. /\ first \in SlotRow /\ first.pc = "rotate" /\ first.tenant = slot[p].tenant
        /\ first.turn = slot[p].turn /\ first.msg = slot[p].msg
    BY <1>1 DEF SlotRow
  <1> HIDE DEF first
  <1>4. /\ second \in SlotRow /\ second.pc = "rotate" /\ second.tenant = slot[p].tenant
        /\ second.turn = slot[p].turn /\ second.msg = slot[p].msg /\ second.hasReady
    BY <1>3 DEF SlotRow
  <1> HIDE DEF second
  <1>5. /\ row \in SlotRow /\ row.pc = "rotate" /\ row.tenant = slot[p].tenant
        /\ row.turn = slot[p].turn /\ row.attempt = a
        /\ row.msg = slot[p].msg /\ row.hasReady = TRUE
    BY <1>4 DEF SlotRow
  <1> HIDE DEF row
  <1>6. QED BY <1>2, <1>5, RowReplaced DEF Becomes

\* What remains of an attempt after its turn is settled.
LEMMA SettledFacts ==
    ASSUME Rows, NEW p \in Procs, slot[p].pc = "rotate", NEW c \in {"release", "prepare"},
           slot[p].attempt # None,
           slot' = [slot EXCEPT ![p] = [@ EXCEPT !.pc = c, !.turn = None, !.hasReady = FALSE]]
    PROVE  Becomes(p, c, slot[p].tenant, None, slot[p].attempt, slot[p].msg)
  <1> DEFINE first == [slot[p] EXCEPT !.pc = c]
             second == [first EXCEPT !.turn = None]
             row == [second EXCEPT !.hasReady = FALSE]
  <1>1. slot[p] \in SlotRow /\ c \in SlotPCs /\ slot \in [Procs -> SlotRow]
    BY DEF SlotPCs, Rows
  <1>2. slot' = [slot EXCEPT ![p] = row]
    BY <1>1
  <1>3. /\ first \in SlotRow /\ first.pc = c /\ first.tenant = slot[p].tenant
        /\ first.attempt = slot[p].attempt /\ first.msg = slot[p].msg
    BY <1>1 DEF SlotRow
  <1> HIDE DEF first
  <1>4. /\ second \in SlotRow /\ second.pc = c /\ second.tenant = slot[p].tenant
        /\ second.turn = None /\ second.msg = slot[p].msg
        /\ second.attempt = slot[p].attempt
    BY <1>3 DEF SlotRow
  <1> HIDE DEF second
  <1>5. /\ row \in SlotRow /\ row.pc = c /\ row.tenant = slot[p].tenant
        /\ row.turn = None /\ row.attempt = slot[p].attempt
        /\ row.msg = slot[p].msg /\ row.hasReady = FALSE
    BY <1>4 DEF SlotRow
  <1> HIDE DEF row
  <1>6. QED BY <1>1, <1>2, <1>5, RowReplaced DEF Becomes

\* A turn is taken up.
LEMMA TurnFacts ==
    ASSUME slot \in [Procs -> SlotRow], NEW p \in Procs, NEW u \in Turn,
           slot' = [slot EXCEPT ![p] =
                      [SlotIdle EXCEPT !.pc = "turn", !.tenant = u.tenant, !.turn = u]]
    PROVE  Becomes(p, "turn", u.tenant, u, None, None)
  <1> DEFINE first == [SlotIdle EXCEPT !.pc = "turn"]
             second == [first EXCEPT !.tenant = u.tenant]
             row == [second EXCEPT !.turn = u]
  <1>1. /\ SlotIdle \in SlotRow /\ SlotIdle.attempt = None /\ SlotIdle.msg = None
        /\ SlotIdle.hasReady = FALSE /\ "turn" \in SlotPCs /\ u.tenant \in Tenants
    BY DEF SlotIdle, SlotRow, SlotPCs, Turn
  <1>2. slot' = [slot EXCEPT ![p] = row]
    OBVIOUS
  <1>3. /\ first \in SlotRow /\ first.pc = "turn" /\ first.attempt = None /\ first.msg = None
        /\ first.hasReady = FALSE
    BY <1>1 DEF SlotRow
  <1> HIDE DEF first
  <1>4. /\ second \in SlotRow /\ second.pc = "turn" /\ second.tenant = u.tenant
        /\ second.attempt = None /\ second.msg = None /\ second.hasReady = FALSE
    BY <1>1, <1>3 DEF SlotRow
  <1> HIDE DEF second
  <1>5. /\ row \in SlotRow /\ row.pc = "turn" /\ row.tenant = u.tenant /\ row.turn = u
        /\ row.attempt = None /\ row.msg = None /\ row.hasReady = FALSE
    BY <1>1, <1>4 DEF SlotRow
  <1> HIDE DEF row
  <1>6. QED BY <1>2, <1>5, RowReplaced DEF Becomes

\* The row of p is as it should be, and so are those of the others.
LEMMA RowsKept ==
    ASSUME Rows, NEW p \in Procs, OneRow(p), RowOK(p)'
    PROVE  Rows'
  <1>1. \A q \in Procs \ {p} : RowOK(q)'
    <2>1. TAKE q \in Procs \ {p}
    <2>2. slot'[q] = slot[q] /\ RowOK(q)
      BY DEF OneRow, Rows
    <2>3. QED BY <2>2 DEF RowOK
  <1>2. QED BY <1>1 DEF Rows, OneRow

\* What the assumptions say of None.
LEMMA NoneIsNothing ==
    /\ None \notin Attempts /\ None \notin Message /\ None \notin Turn
    /\ None \notin TurnTokens
    /\ Message \subseteq Stables /\ Attempts \cap Stables = {}
    /\ Attempts \cap Message = {}
    /\ TenantOf \in [Tasks -> Tenants] /\ MaxCopies \in Nat /\ MaxClaims \in Nat
    /\ IsFiniteSet(Procs)
    /\ \A m \in Message : m[1] \in Tasks /\ TenantOf[m[1]] \in Tenants
  BY SchedulerAssumption, TokenAssumption DEF Message

\* A fresh token is one.
LEMMA FreshFacts ==
    /\ FreshTurnTokens # {} => FreshTurnToken \in TurnTokens
    /\ FreshAttempts # {} =>
         /\ FreshAttempt \in Attempts
         /\ \A r \in reservations : r.token # FreshAttempt
         /\ \A q \in Procs : slot[q].attempt # FreshAttempt
  <1>1. FreshTurnTokens # {} => FreshTurnToken \in FreshTurnTokens
    BY DEF FreshTurnToken
  <1>2. FreshAttempts # {} => FreshAttempt \in FreshAttempts
    BY DEF FreshAttempt
  <1>3. QED BY <1>1, <1>2 DEF FreshTurnTokens, FreshAttempts

\* The message that a row waits for.
LEMMA CurrentFacts ==
    ASSUME Types, NEW k \in Tasks
    PROVE  Current(k) \in Message /\ Current(k)[1] = k
  <1>1. claims[k] \in 0..MaxClaims /\ MaxClaims \in Nat
    BY NoneIsNothing DEF Types
  <1>2. claims[k] + 1 \in 1..MaxClaims + 1
    BY <1>1
  <1>3. QED BY <1>2 DEF Current, Message

\* A grant gives a turn with the generation its tenant has.
LEMMA GrantedTurn ==
    ASSUME CoordinatorInv, NEW x \in TurnTokens, NextTurn(x)
    PROVE  \E u \in Turn :
             /\ turns' \ turns = {u} /\ u.generation = generation[u.tenant]
             /\ generation' = generation /\ active' = active /\ reservations' = reservations
  <1> DEFINE t == ring[1]
             u == [token |-> x, tenant |-> t, generation |-> generation[t],
                   expiry |-> now + ProcessingTurnTTL]
  <1>1. /\ ring # <<>> /\ t \in Tenants
        /\ turns' = turns \cup {u} /\ generation' = generation
    BY GrantFacts
  <1>2. generation[t] \in Nat /\ generation[t] # 0 /\ now \in Nat
    <2>1. t \in active
      <3>1. 1 \in 1..Len(ring)
        BY <1>1 DEF CoordinatorInv, CoordinatorTypeOK
      <3>2. QED BY <3>1, RingIsEligible DEF Eligible
    <2>2. QED BY <2>1, <1>1 DEF CoordinatorInv, ActiveIsKnown, CoordinatorTypeOK
  <1>3. u \in Turn
    BY <1>1, <1>2, TimeAssumption DEF Turn
  <1>4. u \notin turns
    BY DEF NextTurn, TurnsOf
  <1>5. turns' \ turns = {u} /\ u.generation = generation[u.tenant]
    BY <1>1, <1>4
  <1>6. active' = active /\ reservations' = reservations
    BY DEF NextTurn
  <1> HIDE DEF u
  <1>7. QED BY <1>1, <1>3, <1>5, <1>6

(***************************************************************************)
(* The scripts.                                                             *)
(***************************************************************************)

\* What a step of the loops asks of Redis: a script, with the names that the
\* loops have.  Only a reconciler that has listed the stable tokens writes one
\* without a decision.
Script ==
    \/ \E t \in Tenants : Activate(t)
    \/ \E x \in TurnTokens : NextTurn(x)
    \/ \E u \in turns, h \in BOOLEAN : RotateOrDeactivate(u, h)
    \/ \E t \in Tenants, a \in Attempts : AcquireProvisional(t, a)
    \/ \E t \in Tenants, a \in Attempts, s \in Message : BindReservation(t, a, s)
    \/ \E t \in Tenants, s \in Message : RenewStable(t, s)
    \/ recon.pc = "stable" /\ \E t \in Tenants, s \in Message : EnsureReadyStableInflight(t, s)
    \/ \E t \in Tenants, token \in Attempts \cup Message : Release(t, token)
    \/ ReapExpiredTurnsAndProvisionals
    \/ Tick
ScriptStep == Script \/ UNCHANGED coordVars

\* Such a step is one of FairCoordinator.
LEMMA ScriptIsNext == ScriptStep => [CoordinatorNext]_coordVars
  <1>1. ASSUME Script PROVE CoordinatorNext
    BY <1>1, NoneIsNothing DEF Script, CoordinatorNext
  <1>2. QED BY <1>1 DEF ScriptStep

\* No script takes a generation back.
GenerationsGrow == \A t \in Tenants : generation[t] <= generation'[t]

\* The scripts keep to that.
LEMMA ScriptGenerations ==
    ASSUME CoordinatorInv, ScriptStep
    PROVE  GenerationsGrow
  <1>1. generation \in [Tenants -> Nat]
    BY TimeAssumption DEF CoordinatorInv, CoordinatorTypeOK
  <1>2. ASSUME NEW t \in Tenants, Activate(t) PROVE GenerationsGrow
    <2>1. generation' = [generation EXCEPT ![t] = @ + 1]
      BY <1>2 DEF Activate
    <2>2. QED BY <1>1, <2>1 DEF GenerationsGrow
  <1>3. ASSUME generation' = generation PROVE GenerationsGrow
    BY <1>1, <1>3 DEF GenerationsGrow
  <1>4. CASE UNCHANGED coordVars
    BY <1>3, <1>4 DEF coordVars
  <1>5. CASE Script
    <2>1. ASSUME NEW x, NextTurn(x) PROVE generation' = generation
      BY <2>1 DEF NextTurn
    <2>2. ASSUME NEW u, NEW h, RotateOrDeactivate(u, h) PROVE generation' = generation
      BY <2>2 DEF RotateOrDeactivate
    <2>3. ASSUME NEW t, NEW a, AcquireProvisional(t, a) PROVE generation' = generation
      BY <2>3 DEF AcquireProvisional, ringVars
    <2>4. ASSUME NEW t, NEW a, NEW s, BindReservation(t, a, s) PROVE generation' = generation
      BY <2>4 DEF BindReservation, ringVars
    <2>5. ASSUME NEW t, NEW s, RenewStable(t, s) \/ EnsureReadyStableInflight(t, s)
          PROVE  generation' = generation
      BY <2>5 DEF RenewStable, EnsureReadyStableInflight, WriteStable, ringVars
    <2>6. ASSUME NEW t, NEW token, Release(t, token) PROVE generation' = generation
      BY <2>6 DEF Release, ringVars
    <2>7. ASSUME ReapExpiredTurnsAndProvisionals PROVE generation' = generation
      BY <2>7 DEF ReapExpiredTurnsAndProvisionals, ReapPage
    <2>8. ASSUME Tick PROVE generation' = generation
      BY <2>8 DEF Tick, ringVars
    <2>9. QED
      BY <1>2, <1>3, <1>5, <2>1, <2>2, <2>3, <2>4, <2>5, <2>6, <2>7, <2>8 DEF Script
  <1>6. QED BY <1>4, <1>5 DEF ScriptStep

(***************************************************************************)
(* The reservations.                                                        *)
(***************************************************************************)
\* A script that writes no reservation.
ReservationsShrink ==
    /\ reservations' \subseteq reservations
    /\ Live' \subseteq Live

\* One that writes the reservation of one token, and keeps that of others or drops it.
Writes(t, token) ==
    \E e \in Nat :
      LET new == [token |-> token, tenant |-> t, expiry |-> e] IN
      /\ reservations' \subseteq reservations \cup {new}
      /\ Live' \subseteq Live \cup {new}

\* The reservations are what the type invariant of the coordinator says.
LEMMA ReservationTypes ==
    ASSUME CoordinatorInv
    PROVE  /\ now \in Nat
           /\ \A r \in reservations : /\ r.expiry \in Nat /\ r.tenant \in Tenants
                                      /\ r = [token |-> r.token, tenant |-> r.tenant,
                                              expiry |-> r.expiry]
  BY DEF CoordinatorInv, CoordinatorTypeOK, Reservation

\* There are finitely many.
LEMMA LiveIsFinite ==
    ASSUME ReservationsNamed
    PROVE  /\ IsFiniteSet(Live) /\ Cardinality(Live) \in Nat
           /\ \A t \in Tenants : IsFiniteSet(LiveOf(t)) /\ Cardinality(LiveOf(t)) \in Nat
  <1>1. Live \subseteq reservations /\ \A t \in Tenants : LiveOf(t) \subseteq reservations
    BY DEF Live, LiveOf
  <1>2. QED BY <1>1, FS_Subset, FS_CardinalityType DEF ReservationsNamed

\* A release ends the reservation of its token.
LEMMA ReleaseFacts ==
    ASSUME CoordinatorInv, NEW t, NEW token, Release(t, token)
    PROVE  /\ ReservationsShrink
           /\ \A r \in reservations' : r.token # token
           /\ active' = active /\ generation' = generation /\ now' = now
  BY DEF Release, ReservationsShrink, Live, Expired, ringVars

\* Time and the reaper only end reservations.
LEMMA EndFacts ==
    ASSUME CoordinatorInv, Tick \/ ReapExpiredTurnsAndProvisionals
    PROVE  ReservationsShrink /\ active' = active /\ generation' = generation
  <1>1. now \in Nat /\ \A r \in reservations : r.expiry \in Nat
    BY ReservationTypes
  <1>2. CASE Tick
    BY <1>1, <1>2 DEF Tick, ReservationsShrink, Live, Expired, ringVars
  <1>3. CASE ReapExpiredTurnsAndProvisionals
    <2>1. PICK P, T : ReapPage(P, T)
      BY <1>3 DEF ReapExpiredTurnsAndProvisionals
    <2>2. /\ reservations' = reservations \ P /\ now' = now
          /\ active' = active /\ generation' = generation
      BY <2>1 DEF ReapPage
    <2>3. QED BY <2>2 DEF ReservationsShrink, Live, Expired
  <1>4. QED BY <1>2, <1>3

\* An acquire that is granted had room for one more; one that is not writes none.
LEMMA AcquireFacts ==
    ASSUME CoordinatorInv, ReservationsNamed, NEW t \in Tenants, NEW a \in Attempts,
           AcquireProvisional(t, a)
    PROVE  /\ Writes(t, a)
           /\ \/ ReservationsShrink
              \/ /\ Cardinality(Live) < GlobalConcurrency
                 /\ Cardinality(LiveOf(t)) < PerUserBurstConcurrency
           /\ active' = active /\ generation' = generation /\ now' = now
  <1> DEFINE new == [token |-> a, tenant |-> t, expiry |-> now + ProvisionalTTL]
  <1>1. active' = active /\ generation' = generation /\ now' = now
    BY DEF AcquireProvisional, ringVars
  <1>2. PICK purged \in Oldest({r \in reservations : Expired(r)}, CleanupBatch) :
          LET kept == reservations \ purged IN
          reservations' = IF (\E r \in kept : r.token = a) \/ ~Granted(Decision(t))
                            THEN kept ELSE kept \cup {new}
    BY DEF AcquireProvisional
  <1>3. \/ reservations' = reservations \ purged
        \/ Granted(Decision(t)) /\ reservations' = (reservations \ purged) \cup {new}
    BY <1>2
  <1>4. now + ProvisionalTTL \in Nat
    BY ReservationTypes, TimeAssumption
  <1>5. CASE reservations' = reservations \ purged
    <2>1. ReservationsShrink
      BY <1>1, <1>5 DEF ReservationsShrink, Live, Expired
    <2>2. Writes(t, a)
      BY <1>4, <2>1 DEF ReservationsShrink, Writes
    <2>3. QED BY <1>1, <2>1, <2>2
  <1>6. CASE Granted(Decision(t)) /\ reservations' = (reservations \ purged) \cup {new}
    <2>1. reservations' \subseteq reservations \cup {new} /\ Live' \subseteq Live \cup {new}
      BY <1>1, <1>6 DEF Live, Expired
    <2>2. Writes(t, a)
      BY <1>4, <2>1 DEF Writes
    <2>3. ~(Cardinality(Live) >= GlobalConcurrency)
      BY <1>6 DEF Decision, DecideReservation, Granted
    <2>4. ~(Cardinality(LiveOf(t)) >= PerUserBurstConcurrency)
      BY <1>6 DEF Decision, DecideReservation, Granted
    <2>5. QED BY <1>1, <2>2, <2>3, <2>4, LiveIsFinite, CapacityAssumption
  <1>7. QED BY <1>3, <1>5, <1>6

\* A bind and a renewal put one live reservation in the place of another of the same
\* tenant.
Swaps(t, s) ==
    /\ Writes(t, s)
    /\ \E old \in Live, e \in Nat :
         /\ old.tenant = t
         /\ Live' \subseteq (Live \ {old}) \cup {[token |-> s, tenant |-> t, expiry |-> e]}

\* Whoever replaces the reservation of a live token has swapped it.
LEMMA SwapFacts ==
    ASSUME CoordinatorInv, NEW t \in Tenants, NEW a, NEW s,
           \E r \in Live : r.token = a /\ r.tenant = t,
           reservations' = {r \in reservations : r.token # a}
                             \cup {[token |-> s, tenant |-> t, expiry |-> now + ReservationTTL]},
           now' = now
    PROVE  Swaps(t, s)
  <1> DEFINE e == now + ReservationTTL
             new == [token |-> s, tenant |-> t, expiry |-> e]
  <1>1. e \in Nat
    BY ReservationTypes, TimeAssumption
  <1>2. PICK old \in Live : old.token = a /\ old.tenant = t
    OBVIOUS
  <1>3. reservations' \subseteq reservations \cup {new} /\ Live' \subseteq Live \cup {new}
    BY DEF Live, Expired
  <1>4. Live' \subseteq (Live \ {old}) \cup {new}
    BY <1>2 DEF Live, Expired
  <1>5. Writes(t, s)
    BY <1>1, <1>3 DEF Writes
  <1>6. QED BY <1>1, <1>2, <1>4, <1>5 DEF Swaps

\* The bind of an attempt to its delivery.
LEMMA BindFacts ==
    ASSUME CoordinatorInv, NEW t \in Tenants, NEW a, NEW s, a # s, BindReservation(t, a, s)
    PROVE  /\ Swaps(t, s)
           /\ \A r \in reservations' : r.token # a
           /\ active' = active /\ generation' = generation /\ now' = now
  <1>1. now' = now /\ active' = active /\ generation' = generation
    BY DEF BindReservation, ringVars
  <1>2. \A r \in reservations' : r.token # a
    BY DEF BindReservation
  <1>3. QED BY <1>1, <1>2, SwapFacts DEF BindReservation

\* The renewal of a stable reservation.
LEMMA RenewFacts ==
    ASSUME CoordinatorInv, NEW t \in Tenants, NEW s, RenewStable(t, s)
    PROVE  /\ Swaps(t, s) /\ \E r \in Live : r.token = s
           /\ active' = active /\ generation' = generation /\ now' = now
  <1>1. now' = now /\ active' = active /\ generation' = generation
    BY DEF RenewStable, WriteStable, ringVars
  <1>2. QED BY <1>1, SwapFacts DEF RenewStable, WriteStable

\* The reconciler's write.
LEMMA EnsureFacts ==
    ASSUME CoordinatorInv, NEW t \in Tenants, NEW s, EnsureReadyStableInflight(t, s)
    PROVE  /\ Writes(t, s)
           /\ active' = active /\ generation' = generation /\ now' = now
  <1> DEFINE new == [token |-> s, tenant |-> t, expiry |-> now + ReservationTTL]
  <1>1. now' = now /\ active' = active /\ generation' = generation
    BY DEF EnsureReadyStableInflight, WriteStable, ringVars
  <1>2. reservations' \subseteq reservations \cup {new} /\ Live' \subseteq Live \cup {new}
    BY <1>1 DEF EnsureReadyStableInflight, WriteStable, Live, Expired
  <1>3. now + ReservationTTL \in Nat
    BY ReservationTypes, TimeAssumption
  <1>4. QED BY <1>1, <1>2, <1>3 DEF Writes

\* The reservations that a script leaves have the names that they should have.
LEMMA NamesKept ==
    ASSUME ReservationsNamed,
           ReservationsShrink \/ \E t, token : token \in Attempts \cup Message /\ Writes(t, token)
    PROVE  ReservationsNamed'
  <1>1. ASSUME reservations' \subseteq reservations PROVE ReservationsNamed'
    BY <1>1, FS_Subset DEF ReservationsNamed
  <1>2. ASSUME NEW t, NEW token \in Attempts \cup Message, Writes(t, token)
        PROVE  ReservationsNamed'
    <2>1. PICK e \in Nat : reservations' \subseteq
                reservations \cup {[token |-> token, tenant |-> t, expiry |-> e]}
      BY <1>2 DEF Writes
    <2>2. IsFiniteSet(reservations \cup {[token |-> token, tenant |-> t, expiry |-> e]})
      BY FS_AddElement DEF ReservationsNamed
    <2>3. IsFiniteSet(reservations')
      BY <2>1, <2>2, FS_Subset
    <2>4. \A r \in reservations' : r.token \in Attempts \cup Message
      BY <2>1 DEF ReservationsNamed
    <2>5. QED BY <2>3, <2>4 DEF ReservationsNamed
  <1>3. QED BY <1>1, <1>2 DEF ReservationsShrink

\* A set is no larger when a member makes place for another, and one larger with it.
LEMMA CountSwap ==
    ASSUME NEW S, NEW T, NEW x, NEW y, IsFiniteSet(S), x \in S, T \subseteq (S \ {x}) \cup {y}
    PROVE  Cardinality(T) <= Cardinality(S)
  <1>1. IsFiniteSet(S \ {x}) /\ Cardinality(S \ {x}) = Cardinality(S) - 1
    BY FS_RemoveElement
  <1>2. /\ IsFiniteSet((S \ {x}) \cup {y})
        /\ \/ Cardinality((S \ {x}) \cup {y}) = Cardinality(S \ {x})
           \/ Cardinality((S \ {x}) \cup {y}) = Cardinality(S \ {x}) + 1
    BY <1>1, FS_AddElement
  <1>3. Cardinality(T) <= Cardinality((S \ {x}) \cup {y}) /\ IsFiniteSet(T)
    BY <1>2, FS_Subset
  <1>4. Cardinality(S) \in Nat /\ Cardinality(T) \in Nat
    BY <1>3, FS_CardinalityType
  <1>5. QED BY <1>1, <1>2, <1>3, <1>4

\* It is larger by one at most when a member is added.
LEMMA CountAdd ==
    ASSUME NEW S, NEW T, NEW y, IsFiniteSet(S), T \subseteq S \cup {y}
    PROVE  Cardinality(T) <= Cardinality(S) + 1
  <1>1. /\ IsFiniteSet(S \cup {y}) /\ Cardinality(S) \in Nat
        /\ \/ Cardinality(S \cup {y}) = Cardinality(S)
           \/ Cardinality(S \cup {y}) = Cardinality(S) + 1
    BY FS_AddElement, FS_CardinalityType
  <1>2. Cardinality(T) <= Cardinality(S \cup {y}) /\ IsFiniteSet(T)
    BY <1>1, FS_Subset
  <1>3. Cardinality(T) \in Nat
    BY <1>2, FS_CardinalityType
  <1>4. QED BY <1>1, <1>2, <1>3

\* With fewer reservations the limits hold all the same.
LEMMA LimitsShrink ==
    ASSUME ReservationsNamed, WithinLimits, ReservationsShrink
    PROVE  WithinLimits'
  <1>1. Cardinality(Live') <= Cardinality(Live) /\ IsFiniteSet(Live')
    BY LiveIsFinite, FS_Subset DEF ReservationsShrink
  <1>2. \A t \in Tenants : /\ IsFiniteSet(LiveOf(t)')
                           /\ Cardinality(LiveOf(t)') <= Cardinality(LiveOf(t))
    <2>1. TAKE t \in Tenants
    <2>2. LiveOf(t)' \subseteq LiveOf(t)
      BY DEF ReservationsShrink, LiveOf
    <2>3. QED BY <2>2, LiveIsFinite, FS_Subset
  <1>3. Cardinality(Live') \in Nat /\ \A t \in Tenants : Cardinality(LiveOf(t)') \in Nat
    BY <1>1, <1>2, FS_CardinalityType
  <1>4. QED BY <1>1, <1>2, <1>3, LiveIsFinite, CapacityAssumption DEF WithinLimits

\* The same when one reservation is put in the place of another.
LEMMA LimitsSwap ==
    ASSUME ReservationsNamed, WithinLimits, NEW t \in Tenants, NEW s, Swaps(t, s)
    PROVE  WithinLimits'
  <1>1. PICK old \in Live, e \in Nat :
          /\ old.tenant = t
          /\ Live' \subseteq (Live \ {old}) \cup {[token |-> s, tenant |-> t, expiry |-> e]}
    BY DEF Swaps
  <1> DEFINE new == [token |-> s, tenant |-> t, expiry |-> e]
  <1>2. Live' \subseteq (Live \ {old}) \cup {new} /\ new.tenant = t
    BY <1>1
  <1> HIDE DEF new
  <1>3. Cardinality(Live') <= Cardinality(Live) /\ IsFiniteSet(Live')
    <2>1. IsFiniteSet(Live)
      BY LiveIsFinite
    <2>2. IsFiniteSet((Live \ {old}) \cup {new})
      BY <2>1, FS_AddElement, FS_RemoveElement
    <2>3. QED BY <1>2, <2>1, <2>2, CountSwap, FS_Subset
  <1>4. \A v \in Tenants : /\ IsFiniteSet(LiveOf(v)')
                           /\ Cardinality(LiveOf(v)') <= Cardinality(LiveOf(v))
    <2>1. TAKE v \in Tenants
    <2>2. IsFiniteSet(LiveOf(v)')
      <3>1. LiveOf(v)' \subseteq Live'
        BY DEF LiveOf
      <3>2. QED BY <1>3, <3>1, FS_Subset
    <2>3. CASE v = t
      <3>1. old \in LiveOf(v) /\ LiveOf(v)' \subseteq (LiveOf(v) \ {old}) \cup {new}
        BY <1>1, <1>2, <2>3 DEF LiveOf
      <3>2. QED BY <2>2, <3>1, LiveIsFinite, CountSwap
    <2>4. CASE v # t
      <3>1. LiveOf(v)' \subseteq LiveOf(v)
        BY <1>2, <2>4 DEF LiveOf
      <3>2. QED BY <2>2, <3>1, LiveIsFinite, FS_Subset
    <2>5. QED BY <2>3, <2>4
  <1>5. Cardinality(Live') \in Nat /\ \A v \in Tenants : Cardinality(LiveOf(v)') \in Nat
    BY <1>3, <1>4, FS_CardinalityType
  <1>6. QED BY <1>3, <1>4, <1>5, LiveIsFinite, CapacityAssumption DEF WithinLimits

\* A grant takes what the decision found free.
LEMMA LimitsGrant ==
    ASSUME ReservationsNamed, WithinLimits, NEW t \in Tenants, NEW a, Writes(t, a),
           Cardinality(Live) < GlobalConcurrency,
           Cardinality(LiveOf(t)) < PerUserBurstConcurrency
    PROVE  WithinLimits'
  <1>1. PICK e \in Nat : Live' \subseteq Live \cup {[token |-> a, tenant |-> t, expiry |-> e]}
    BY DEF Writes
  <1> DEFINE new == [token |-> a, tenant |-> t, expiry |-> e]
  <1>2. Live' \subseteq Live \cup {new} /\ new.tenant = t
    BY <1>1
  <1> HIDE DEF new
  <1>3. Cardinality(Live') <= Cardinality(Live) + 1 /\ IsFiniteSet(Live')
    <2>1. IsFiniteSet(Live) /\ IsFiniteSet(Live \cup {new})
      BY LiveIsFinite, FS_AddElement
    <2>2. QED BY <1>2, <2>1, CountAdd, FS_Subset
  <1>4. ASSUME NEW v \in Tenants
        PROVE  /\ IsFiniteSet(LiveOf(v)')
               /\ v = t => Cardinality(LiveOf(v)') <= Cardinality(LiveOf(v)) + 1
               /\ v # t => Cardinality(LiveOf(v)') <= Cardinality(LiveOf(v))
    <2>1. IsFiniteSet(LiveOf(v)')
      <3>1. LiveOf(v)' \subseteq Live'
        BY DEF LiveOf
      <3>2. QED BY <1>3, <3>1, FS_Subset
    <2>2. CASE v = t
      <3>1. LiveOf(v)' \subseteq LiveOf(v) \cup {new}
        BY <1>2 DEF LiveOf
      <3>2. QED BY <2>1, <2>2, <3>1, LiveIsFinite, CountAdd
    <2>3. CASE v # t
      <3>1. LiveOf(v)' \subseteq LiveOf(v)
        BY <1>2, <2>3 DEF LiveOf
      <3>2. QED BY <2>1, <2>3, <3>1, LiveIsFinite, FS_Subset
    <2>4. QED BY <2>2, <2>3
  <1>5. Cardinality(Live') \in Nat /\ \A v \in Tenants : Cardinality(LiveOf(v)') \in Nat
    BY <1>3, <1>4, FS_CardinalityType
  <1>6. Cardinality(Live') <= GlobalConcurrency
    BY <1>3, <1>5, LiveIsFinite, CapacityAssumption
  <1>7. ASSUME NEW v \in Tenants
        PROVE  Cardinality(LiveOf(v)') <= PerUserBurstConcurrency
    <2>1. /\ Cardinality(LiveOf(v)') \in Nat /\ Cardinality(LiveOf(v)) \in Nat
          /\ PerUserBurstConcurrency \in Nat
      BY <1>5, LiveIsFinite, CapacityAssumption
    <2>2. CASE v = t
      <3>1. /\ Cardinality(LiveOf(v)') <= Cardinality(LiveOf(v)) + 1
            /\ Cardinality(LiveOf(v)) < PerUserBurstConcurrency
        BY <1>4, <2>2
      <3>2. QED BY <2>1, <3>1
    <2>3. CASE v # t
      <3>1. /\ Cardinality(LiveOf(v)') <= Cardinality(LiveOf(v))
            /\ Cardinality(LiveOf(v)) <= PerUserBurstConcurrency
        BY <1>4, <2>3 DEF WithinLimits
      <3>2. QED BY <2>1, <3>1
    <2>4. QED BY <2>2, <2>3
  <1>8. QED BY <1>6, <1>7 DEF WithinLimits

\* A script that leaves the reservations alone.
LEMMA RingScript ==
    ASSUME CoordinatorInv,
           \/ \E t \in Tenants : Activate(t)
           \/ \E x \in TurnTokens : NextTurn(x)
           \/ \E u \in turns, h \in BOOLEAN : RotateOrDeactivate(u, h)
           \/ UNCHANGED coordVars
    PROVE  ReservationsShrink /\ reservations' = reservations /\ now' = now
  <1>1. reservations' = reservations /\ now' = now
    BY DEF Activate, NextTurn, RotateOrDeactivate, coordVars
  <1>2. QED BY <1>1 DEF ReservationsShrink, Live, Expired

\* Every script keeps the names, and the limits as long as the reconciler has not
\* listed the stable tokens.
LEMMA ScriptReservations ==
    ASSUME CoordinatorInv, ReservationsNamed, ScriptStep
    PROVE  /\ ReservationsNamed'
           /\ WithinLimits /\ recon.pc # "stable" => WithinLimits'
  <1>1. ASSUME ReservationsShrink
        PROVE  ReservationsNamed' /\ (WithinLimits => WithinLimits')
    BY <1>1, NamesKept, LimitsShrink
  <1>2. ASSUME NEW t \in Tenants, NEW a \in Attempts, AcquireProvisional(t, a)
        PROVE  ReservationsNamed' /\ (WithinLimits => WithinLimits')
    <2>1. /\ Writes(t, a)
          /\ \/ ReservationsShrink
             \/ /\ Cardinality(Live) < GlobalConcurrency
                /\ Cardinality(LiveOf(t)) < PerUserBurstConcurrency
      BY <1>2, AcquireFacts
    <2>2. ReservationsNamed'
      BY <2>1, NamesKept
    <2>3. WithinLimits => WithinLimits'
      BY <2>1, LimitsShrink, LimitsGrant
    <2>4. QED BY <2>2, <2>3
  <1>3. ASSUME NEW t \in Tenants, NEW s \in Message, Swaps(t, s)
        PROVE  ReservationsNamed' /\ (WithinLimits => WithinLimits')
    <2>1. ReservationsNamed'
      BY <1>3, NamesKept DEF Swaps
    <2>2. WithinLimits => WithinLimits'
      BY <1>3, LimitsSwap
    <2>3. QED BY <2>1, <2>2
  <1>4. ASSUME NEW t \in Tenants, NEW a \in Attempts, NEW s \in Message, BindReservation(t, a, s)
        PROVE  Swaps(t, s)
    BY <1>4, BindFacts, NoneIsNothing
  <1>5. ASSUME NEW t \in Tenants, NEW s \in Message, RenewStable(t, s)
        PROVE  Swaps(t, s)
    BY <1>5, RenewFacts
  <1>6. ASSUME NEW t \in Tenants, NEW s \in Message, EnsureReadyStableInflight(t, s)
        PROVE  ReservationsNamed'
    BY <1>6, EnsureFacts, NamesKept
  <1>7. ASSUME NEW t \in Tenants, NEW token \in Attempts \cup Message, Release(t, token)
        PROVE  ReservationsShrink
    BY <1>7, ReleaseFacts
  <1>8. QED
    BY <1>1, <1>2, <1>3, <1>4, <1>5, <1>6, <1>7, RingScript, EndFacts DEF ScriptStep, Script

(***************************************************************************)
(* What a step has to show.                                                 *)
(***************************************************************************)

\* As long as no pass has begun, the reconciler is not in one.
PassKept ==
    faults'.passes = 0 => faults.passes = 0 /\ recon'.pc \in {"idle", "activate"}

StepOK ==
    /\ Rows' /\ Types' /\ ScriptStep /\ PassKept
    /\ CopiesBounded' /\ TurnsHeldNotAhead' /\ NothingHidden' /\ Owned'

\* With that the invariant is kept.
LEMMA StepKeepsInv ==
    ASSUME SchedulerInv, StepOK
    PROVE  SchedulerInv'
  <1>1. CoordinatorInv'
    BY ScriptIsNext, NextInv DEF SchedulerInv, StepOK
  <1>2. /\ ReservationsNamed'
        /\ WithinLimits /\ recon.pc # "stable" => WithinLimits'
    BY ScriptReservations DEF SchedulerInv, StepOK
  <1>3. Decided'
    <2>1. SUFFICES ASSUME faults'.passes = 0
                   PROVE  recon'.pc \in {"idle", "activate"} /\ WithinLimits'
      BY DEF Decided
    <2>2. faults.passes = 0 /\ recon'.pc \in {"idle", "activate"}
      BY <2>1 DEF StepOK, PassKept
    <2>3. recon.pc # "stable" /\ WithinLimits
      BY <2>2 DEF SchedulerInv, Decided
    <2>4. QED BY <1>2, <2>2, <2>3
  <1>4. QED BY <1>1, <1>2, <1>3 DEF SchedulerInv, StepOK

\* The counter that matters here stays, and a bounded outcome has room for itself.
FaultsSame ==
    /\ FaultCounters'
    /\ faults'.passes = faults.passes

\* A negative outcome is counted below its bound and moves no other counter.
LEMMA DeferralFacts ==
    ASSUME Types, Deferral \/ UNCHANGED faults
    PROVE  FaultsSame
  <1>1. CASE UNCHANGED faults
    BY <1>1 DEF Types, FaultCounters, FaultsSame
  <1>2. CASE Deferral
    <2>1. FaultCounters
      BY DEF Types
    <2>2. /\ faults' = [faults EXCEPT !.deferrals = @ + 1]
          /\ faults.deferrals < faults.bound.deferrals
      BY <1>2 DEF Deferral
    <2>3. faults.deferrals + 1 \in Nat /\ faults.bound.deferrals \in Nat
      BY <2>1, SchedulerAssumption DEF FaultCounters
    <2>4. /\ faults' \in [crashes : Nat, deferrals : Nat, redundant : Nat, passes : Nat,
                          bound : Bounds]
          /\ faults'.deferrals = faults.deferrals + 1 /\ faults'.bound = faults.bound
          /\ faults'.crashes = faults.crashes /\ faults'.passes = faults.passes
          /\ faults'.redundant = faults.redundant
      BY <2>1, <2>2, <2>3 DEF FaultCounters
    <2>5. QED BY <2>1, <2>2, <2>3, <2>4 DEF FaultCounters, FaultsSame
  <1>3. QED BY <1>1, <1>2

\* A crash too.
LEMMA CrashFacts ==
    ASSUME Types, faults.crashes < faults.bound.crashes,
           faults' = [faults EXCEPT !.crashes = @ + 1]
    PROVE  FaultsSame
  <1>1. FaultCounters
    BY DEF Types
  <1>2. faults.crashes + 1 \in Nat /\ faults.bound.crashes \in Nat
    BY <1>1, SchedulerAssumption DEF FaultCounters
  <1>3. /\ faults' \in [crashes : Nat, deferrals : Nat, redundant : Nat, passes : Nat,
                        bound : Bounds]
        /\ faults'.crashes = faults.crashes + 1 /\ faults'.bound = faults.bound
        /\ faults'.deferrals = faults.deferrals /\ faults'.passes = faults.passes
        /\ faults'.redundant = faults.redundant
    BY <1>1, <1>2 DEF FaultCounters
  <1>4. QED BY <1>1, <1>2, <1>3 DEF FaultCounters, FaultsSame

\* An activation of t moves its generation and leaves it active.
Moves(t) == t \in active' /\ generation'[t] > generation[t]

\* What was left undone stays so: a lost activation until another one succeeds.
LostKept ==
    /\ lost' \in LostRow
    /\ lost.releases \subseteq lost'.releases
    /\ \A t \in lost.activations : t \in lost'.activations \/ Moves(t)

\* The steps that touch it do that.
LEMMA LostFacts ==
    ASSUME Types
    PROVE  /\ UNCHANGED lost => LostKept
           /\ \A t \in Tenants : ActivationLost(t) =>
                LostKept /\ t \in lost'.activations /\ lost.activations \subseteq lost'.activations
           /\ \A t \in Tenants : Activated(t) /\ Moves(t) => LostKept
           /\ \A R \in SUBSET (Attempts \cup Message) :
                lost' = [lost EXCEPT !.releases = @ \cup R] =>
                  LostKept /\ R \subseteq lost'.releases
  BY DEF Types, LostRow, LostKept, ActivationLost, Activated

\* A gate that a process closes stays a gate.
LEMMA GateFacts ==
    ASSUME Types, NEW p \in Procs, CloseGate(p) \/ UNCHANGED gate
    PROVE  gate' \in [Procs -> BOOLEAN]
  BY DEF Types, CloseGate

\* A step that changes neither the rows of MySQL nor the queues nor the publish.
Quiet ==
    /\ UNCHANGED <<status, claims, ready, pub, recon>>
    /\ gate' \in [Procs -> BOOLEAN]
    /\ FaultsSame /\ LostKept

\* After a quiet step the types hold, and the reconciler is where it was.
LEMMA QuietTypes ==
    ASSUME Types, Decided, Quiet
    PROVE  Types' /\ PassKept
  <1>1. Types'
    BY DEF Types, Quiet, FaultsSame, LostKept
  <1>2. QED BY <1>1 DEF Quiet, FaultsSame, PassKept, Decided

(***************************************************************************)
(* Copies.                                                                  *)
(***************************************************************************)
\* A message has finitely many copies in hand.
LEMMA HoldersFinite ==
    ASSUME NEW m
    PROVE  /\ IsFiniteSet(HoldersOf(m)) /\ Cardinality(HoldersOf(m)) \in Nat
           /\ Copies(m) = ready[m] + Cardinality(HoldersOf(m))
  <1>1. HoldersOf(m) \subseteq Procs
    BY DEF HoldersOf
  <1>2. QED BY <1>1, NoneIsNothing, FS_Subset, FS_CardinalityType DEF Copies, HoldersOf

\* The same one step later.
LEMMA HoldersFiniteNext ==
    ASSUME NEW m
    PROVE  /\ IsFiniteSet(HoldersOf(m)') /\ Cardinality(HoldersOf(m)') \in Nat
           /\ Copies(m)' = ready'[m] + Cardinality(HoldersOf(m)')
  <1>1. HoldersOf(m)' \subseteq Procs
    BY DEF HoldersOf
  <1>2. QED BY <1>1, NoneIsNothing, FS_Subset, FS_CardinalityType DEF Copies, HoldersOf

\* Nobody takes a message.
NoneTaken == \A q \in Procs : Unacked(q)' => Unacked(q) /\ slot'[q].msg = slot[q].msg

\* Then no copies are added.
LEMMA CopiesKept ==
    ASSUME Types, CopiesBounded, ready' = ready, NoneTaken
    PROVE  CopiesBounded'
  <1>1. SUFFICES ASSUME NEW m \in Message PROVE Copies(m)' <= MaxCopies
    BY DEF CopiesBounded
  <1>2. HoldersOf(m)' \subseteq HoldersOf(m)
    BY DEF HoldersOf, NoneTaken
  <1>3. Cardinality(HoldersOf(m)') <= Cardinality(HoldersOf(m))
    BY <1>2, HoldersFinite, FS_Subset
  <1>4. ready[m] \in Nat /\ ready'[m] = ready[m] /\ MaxCopies \in Nat /\ Copies(m) <= MaxCopies
    BY NoneIsNothing DEF Types, CopiesBounded
  <1>5. QED BY <1>3, <1>4, HoldersFinite, HoldersFiniteNext

\* One process takes a ready message.
LEMMA CopiesTaken ==
    ASSUME Types, CopiesBounded, NEW p \in Procs, NEW m \in Message, ~Unacked(p),
           \A q \in Procs \ {p} : slot'[q] = slot[q], slot'[p].msg = m,
           ready[m] > 0, ready' = [ready EXCEPT ![m] = @ - 1]
    PROVE  CopiesBounded' /\ ready' \in [Message -> Nat]
  <1>1. /\ ready \in [Message -> Nat] /\ ready[m] - 1 \in Nat /\ ready'[m] = ready[m] - 1
        /\ ready' \in [Message -> Nat]
        /\ \A n \in Message \ {m} : ready'[n] = ready[n]
    BY DEF Types
  <1>2. SUFFICES ASSUME NEW n \in Message PROVE Copies(n)' <= MaxCopies
    BY <1>1 DEF CopiesBounded
  <1>3. MaxCopies \in Nat /\ Copies(n) <= MaxCopies /\ ready[n] \in Nat
    BY <1>1, NoneIsNothing DEF CopiesBounded
  <1>4. CASE n = m
    <2>1. HoldersOf(n)' \subseteq HoldersOf(n) \cup {p}
      BY DEF HoldersOf, Unacked
    <2>2. Cardinality(HoldersOf(n)') <= Cardinality(HoldersOf(n)) + 1
      BY <2>1, HoldersFinite, CountAdd
    <2>3. QED BY <1>1, <1>3, <1>4, <2>2, HoldersFinite, HoldersFiniteNext
  <1>5. CASE n # m
    <2>1. HoldersOf(n)' \subseteq HoldersOf(n)
      BY <1>5 DEF HoldersOf, Unacked
    <2>2. Cardinality(HoldersOf(n)') <= Cardinality(HoldersOf(n))
      BY <2>1, HoldersFinite, FS_Subset
    <2>3. QED BY <1>1, <1>3, <1>5, <2>2, HoldersFinite, HoldersFiniteNext
  <1>6. QED BY <1>4, <1>5

\* One process gives back what it had not acknowledged.
LEMMA CopiesReturned ==
    ASSUME Types, CopiesBounded, NEW p \in Procs, Unacked(p), slot[p].msg \in Message,
           \A q \in Procs \ {p} : slot'[q] = slot[q], slot'[p].msg = None,
           ready' = [ready EXCEPT ![slot[p].msg] = @ + 1]
    PROVE  CopiesBounded' /\ ready' \in [Message -> Nat]
  <1> DEFINE m == slot[p].msg
  <1>1. /\ ready \in [Message -> Nat] /\ ready[m] + 1 \in Nat /\ ready'[m] = ready[m] + 1
        /\ ready' \in [Message -> Nat]
        /\ \A n \in Message \ {m} : ready'[n] = ready[n]
    BY DEF Types
  <1>2. SUFFICES ASSUME NEW n \in Message PROVE Copies(n)' <= MaxCopies
    BY <1>1 DEF CopiesBounded
  <1>3. MaxCopies \in Nat /\ Copies(n) <= MaxCopies /\ ready[n] \in Nat
    BY <1>1, NoneIsNothing DEF CopiesBounded
  <1>4. CASE n = m
    <2>1. HoldersOf(n)' \subseteq HoldersOf(n) \ {p} /\ p \in HoldersOf(n)
      BY <1>4, NoneIsNothing DEF HoldersOf, Unacked
    <2>2. /\ IsFiniteSet(HoldersOf(n) \ {p})
          /\ Cardinality(HoldersOf(n) \ {p}) = Cardinality(HoldersOf(n)) - 1
      BY <2>1, HoldersFinite, FS_RemoveElement
    <2>3. Cardinality(HoldersOf(n)') <= Cardinality(HoldersOf(n)) - 1
      BY <2>1, <2>2, FS_Subset
    <2>4. QED BY <1>1, <1>3, <1>4, <2>3, HoldersFinite, HoldersFiniteNext
  <1>5. CASE n # m
    <2>1. HoldersOf(n)' \subseteq HoldersOf(n)
      BY <1>5, NoneIsNothing DEF HoldersOf, Unacked
    <2>2. Cardinality(HoldersOf(n)') <= Cardinality(HoldersOf(n))
      BY <2>1, HoldersFinite, FS_Subset
    <2>3. QED BY <1>1, <1>3, <1>5, <2>2, HoldersFinite, HoldersFiniteNext
  <1>6. QED BY <1>4, <1>5

\* The dispatcher publishes where there is room for one more.
LEMMA CopiesPublished ==
    ASSUME Types, CopiesBounded, slot' = slot, NEW m \in Message, Copies(m) < MaxCopies,
           ready' = [ready EXCEPT ![m] = @ + 1]
    PROVE  CopiesBounded' /\ ready' \in [Message -> Nat]
  <1>1. /\ ready \in [Message -> Nat] /\ ready[m] + 1 \in Nat /\ ready'[m] = ready[m] + 1
        /\ ready' \in [Message -> Nat]
        /\ \A n \in Message \ {m} : ready'[n] = ready[n]
    BY DEF Types
  <1>2. SUFFICES ASSUME NEW n \in Message PROVE Copies(n)' <= MaxCopies
    BY <1>1 DEF CopiesBounded
  <1>3. MaxCopies \in Nat /\ Copies(n) <= MaxCopies /\ ready[n] \in Nat
    BY <1>1, NoneIsNothing DEF CopiesBounded
  <1>4. HoldersOf(n)' = HoldersOf(n)
    BY DEF HoldersOf, Unacked
  <1>5. QED BY <1>1, <1>3, <1>4, HoldersFinite, HoldersFiniteNext

(***************************************************************************)
(* Turns and hidden messages.                                               *)
(***************************************************************************)

\* Nobody's turn moves, or one process takes a turn of its tenant's generation.
LEMMA TurnsKept ==
    ASSUME CoordinatorInv, TurnsHeldNotAhead, Rows, GenerationsGrow, generation' \in [Tenants -> Nat],
           \A q \in Procs : \/ slot'[q].turn \in {None, slot[q].turn}
                            \/ /\ slot'[q].turn \in Turn
                               /\ slot'[q].turn.generation
                                    = generation'[slot'[q].turn.tenant]
    PROVE  TurnsHeldNotAhead'
  <1>1. SUFFICES ASSUME NEW q \in Procs, slot'[q].turn # None
                 PROVE  slot'[q].turn.generation <= generation'[slot'[q].turn.tenant]
    BY DEF TurnsHeldNotAhead
  <1>2. CASE slot'[q].turn = slot[q].turn
    <2> DEFINE u == slot[q].turn
    <2>1. u \in Turn
      BY <1>1, <1>2, RowFields DEF Rows
    <2>2. u.generation \in Nat /\ u.tenant \in Tenants
      BY <2>1 DEF Turn
    <2>3. u.generation <= generation[u.tenant]
      BY <1>1, <1>2 DEF TurnsHeldNotAhead
    <2>4. generation[u.tenant] <= generation'[u.tenant] /\ generation[u.tenant] \in Nat
          /\ generation'[u.tenant] \in Nat
      BY <2>2, TimeAssumption DEF GenerationsGrow, CoordinatorInv, CoordinatorTypeOK
    <2>5. QED BY <1>2, <2>2, <2>3, <2>4
  <1>3. CASE /\ slot'[q].turn \in Turn
             /\ slot'[q].turn.generation = generation'[slot'[q].turn.tenant]
    <2>1. slot'[q].turn.tenant \in Tenants
      BY <1>3 DEF Turn
    <2>2. QED BY <1>3, <2>1
  <1>4. QED BY <1>1, <1>2, <1>3

\* What keeps ready messages from being hidden: nobody leaves active_users, nothing
\* new waits unannounced, an announcement is kept until its activation has moved the
\* generation, and a scheduler that is about to deactivate has seen an empty queue.

\* A step that does all this hides nothing.
LEMMA HiddenStep ==
    ASSUME CoordinatorInv, Rows, TurnsHeldNotAhead, NothingHidden,
           GenerationsGrow, generation' \in [Tenants -> Nat], active \subseteq active',
           TenantOf \in [Tasks -> Tenants], slot' \in [Procs -> SlotRow],
           pub'.pc = "published" => status'[pub'.msg[1]] # "dispatched",
           \A k \in Tasks : Waits(k)' => Waits(k) \/ Announced(k)',
           \A k \in Tasks : Waits(k)' /\ Announced(k) => Announced(k)' \/ Moves(TenantOf[k]),
           \A p \in Procs : Blind(p)' =>
             \/ /\ Blind(p) /\ slot'[p].turn = slot[p].turn /\ slot'[p].tenant = slot[p].tenant
             \/ \A k \in TasksOf(slot'[p].tenant) : ~Waits(k)'
    PROVE  NothingHidden'
  <1>1. SUFFICES /\ \A k \in Tasks : Waits(k)' => TenantOf[k] \in active' \/ Announced(k)'
                 /\ \A p \in Procs : Deactivates(p)' =>
                      \A k \in TasksOf(slot'[p].tenant) : Waits(k)' => Announced(k)'
    BY DEF NothingHidden
  <1>2. /\ \A k \in Tasks : Waits(k) => TenantOf[k] \in active \/ Announced(k)
        /\ \A p \in Procs : Deactivates(p) =>
             \A k \in TasksOf(slot[p].tenant) : Waits(k) => Announced(k)
    BY DEF NothingHidden
  <1>3. ASSUME NEW k \in Tasks, Waits(k)'
        PROVE  TenantOf[k] \in active' \/ Announced(k)'
    BY <1>2, <1>3 DEF Moves
  <1>4. ASSUME NEW p \in Procs, Deactivates(p)', NEW k \in TasksOf(slot'[p].tenant), Waits(k)'
        PROVE  Announced(k)'
    <2>1. k \in Tasks /\ TenantOf[k] = slot'[p].tenant
      BY <1>4 DEF TasksOf
    <2>2. CASE Waits(k) /\ Blind(p) /\ slot'[p].turn = slot[p].turn /\ slot'[p].tenant = slot[p].tenant
      <3> DEFINE u == slot[p].turn
      <3>1. u # None /\ u.tenant = slot[p].tenant /\ u.tenant = TenantOf[k]
        BY <2>1, <2>2 DEF Blind, Rows, RowOK
      <3>2. u \in Turn
        BY <3>1, RowFields DEF Rows
      <3>3. u.generation \in Nat /\ u.tenant \in Tenants
        BY <3>2 DEF Turn
      <3>4. generation'[u.tenant] = u.generation
        BY <1>4, <2>2 DEF Deactivates
      <3>5. u.generation <= generation[u.tenant] /\ generation[u.tenant] <= generation'[u.tenant]
            /\ generation[u.tenant] \in Nat /\ generation'[u.tenant] \in Nat
        BY <3>1, <3>3, TimeAssumption DEF TurnsHeldNotAhead, GenerationsGrow, CoordinatorInv,
           CoordinatorTypeOK
      <3>6. generation[u.tenant] = u.generation /\ ~Moves(u.tenant)
        BY <3>3, <3>4, <3>5 DEF Moves
      <3>7. Deactivates(p) /\ k \in TasksOf(slot[p].tenant)
        BY <2>2, <3>6, <1>4 DEF Deactivates, TasksOf
      <3>8. Announced(k)
        BY <1>2, <2>2, <3>7
      <3>9. QED BY <1>4, <2>1, <3>1, <3>6, <3>8
    <2>3. Blind(p)'
      BY <1>4 DEF Deactivates
    <2>4. QED BY <1>4, <2>1, <2>2, <2>3
  <1>5. QED BY <1>3, <1>4

(***************************************************************************)
(* The owners of reservations.                                              *)
(***************************************************************************)
FaultsKept ==
    /\ faults'.passes = 0 => faults.passes = 0
    /\ lost.releases \subseteq lost'.releases

\* What a process owned and does not own any more was released, or its release is lost.
Forgets(p) ==
    \E r \in reservations' :
        Owns(p, r.token) /\ ~Owns(p, r.token)' /\ r.token \notin lost'.releases

\* The step of one process: a reservation it writes is its own, and it forgets none
\* that is left.
LEMMA OwnedStep ==
    ASSUME Owned, FaultsKept, NEW p \in Procs, \A q \in Procs \ {p} : slot'[q] = slot[q],
           \A r \in reservations' :
             r \in reservations \/ \A q \in Procs \ {p} : slot[q].attempt # r.token,
           \A r \in Live' : r \in Live \/ Owns(p, r.token)',
           ~Forgets(p), AttemptSpent(p)'
    PROVE  Owned'
  <1>1. \A q \in Procs \ {p} : AttemptSpent(q)'
    BY DEF Owned, AttemptSpent, FaultsKept
  <1>2. ASSUME faults'.passes = 0, NEW r \in Live', r.token \notin lost'.releases
        PROVE  \E q \in Procs : Owns(q, r.token)'
    <2>1. CASE r \in Live
      <3>1. PICK q \in Procs : Owns(q, r.token)
        BY <1>2, <2>1 DEF Owned, FaultsKept
      <3>2. CASE q = p
        BY <1>2, <3>1, <3>2 DEF Forgets, Live
      <3>3. CASE q # p
        BY <3>1, <3>3 DEF Owns
      <3>4. QED BY <3>2, <3>3
    <2>2. QED BY <2>1
  <1>3. QED BY <1>1, <1>2 DEF Owned

\* A step in which no process changes its row, and nothing is reserved for anyone else.
LEMMA OwnedRest ==
    ASSUME Owned, FaultsKept, slot' = slot,
           \/ ReservationsShrink
           \/ \E t, token : /\ Writes(t, token) /\ \A q \in Procs : slot[q].attempt # token
                            /\ \/ \E r \in Live : r.token = token
                               \/ faults'.passes # 0
    PROVE  Owned'
  <1>1. CASE ReservationsShrink
    BY <1>1 DEF ReservationsShrink, Owned, AttemptSpent, Owns, FaultsKept
  <1>2. ASSUME NEW t, NEW token, Writes(t, token), \A q \in Procs : slot[q].attempt # token,
               (\E r \in Live : r.token = token) \/ faults'.passes # 0
        PROVE  Owned'
    <2>1. PICK e \in Nat : LET new == [token |-> token, tenant |-> t, expiry |-> e] IN
                /\ reservations' \subseteq reservations \cup {new}
                /\ Live' \subseteq Live \cup {new}
      BY <1>2 DEF Writes
    <2>2. /\ \A r \in reservations' : r \in reservations \/ r.token = token
          /\ \A r \in Live' : r \in Live \/ r.token = token
      BY <2>1
    <2>3. \A q \in Procs : AttemptSpent(q)'
      BY <1>2, <2>2 DEF Owned, AttemptSpent, FaultsKept
    <2>4. faults'.passes = 0 =>
            \A r \in Live' :
               r.token \in lost'.releases \/ \E q \in Procs : Owns(q, r.token)'
      BY <1>2, <2>2 DEF Owned, Owns, FaultsKept
    <2>5. QED BY <2>3, <2>4 DEF Owned
  <1>3. QED BY <1>1, <1>2

\* The step of a process that reserves nothing and keeps, or has released, what it
\* owned.
LEMMA OwnedShrink ==
    ASSUME Owned, FaultsKept, ReservationsShrink, NEW p \in Procs,
           \A q \in Procs \ {p} : slot'[q] = slot[q],
           ~Forgets(p), AttemptSpent(p)'
    PROVE  Owned'
  BY OwnedStep DEF ReservationsShrink, Live

\* The step of a process that has written the reservation of a token that is its own
\* now and was nobody's attempt.
LEMMA OwnedWrite ==
    ASSUME Owned, FaultsKept, NEW p \in Procs, NEW t, NEW token, Writes(t, token),
           \A q \in Procs \ {p} : slot'[q] = slot[q],
           \A q \in Procs \ {p} : slot[q].attempt # token,
           Owns(p, token)',
           ~Forgets(p), AttemptSpent(p)'
    PROVE  Owned'
  <1>1. PICK e \in Nat : LET new == [token |-> token, tenant |-> t, expiry |-> e] IN
              /\ reservations' \subseteq reservations \cup {new}
              /\ Live' \subseteq Live \cup {new}
    BY DEF Writes
  <1>2. /\ \A r \in reservations' : r \in reservations \/ r.token = token
        /\ \A r \in Live' : r \in Live \/ r.token = token
        /\ Live' \subseteq reservations'
    BY <1>1 DEF Live
  <1>3. QED BY <1>2, OwnedStep

(***************************************************************************)
(* A step of a process that is quiet otherwise.                             *)
(***************************************************************************)
\* Generations are numbers,
LEMMA GenerationTypes ==
    ASSUME CoordinatorInv
    PROVE  generation \in [Tenants -> Nat]
  BY TimeAssumption DEF CoordinatorInv, CoordinatorTypeOK

\* after a step as before it.
LEMMA NextGenerationTypes ==
    ASSUME CoordinatorInv'
    PROVE  generation' \in [Tenants -> Nat]
  BY TimeAssumption DEF CoordinatorInv, CoordinatorTypeOK

\* What a script does to the generations.
LEMMA ScriptFacts ==
    ASSUME CoordinatorInv, ScriptStep
    PROVE  GenerationsGrow /\ generation' \in [Tenants -> Nat]
  <1>1. CoordinatorInv'
    BY ScriptIsNext, NextInv
  <1>2. QED BY <1>1, ScriptGenerations, NextGenerationTypes

\* The parts of the invariant that do not depend on the messages.
LEMMA QuietFrame ==
    ASSUME SchedulerInv, Quiet, ScriptStep,
           NEW p \in Procs, OneRow(p), RowOK(p)',
           \/ slot'[p].turn \in {None, slot[p].turn}
           \/ /\ slot'[p].turn \in Turn
              /\ slot'[p].turn.generation = generation'[slot'[p].turn.tenant],
           Unacked(p)' => Unacked(p) /\ slot'[p].msg = slot[p].msg
    PROVE  Rows' /\ Types' /\ PassKept /\ TurnsHeldNotAhead' /\ CopiesBounded'
  <1>1. Types' /\ PassKept
    BY QuietTypes DEF SchedulerInv
  <1>2. Rows'
    BY RowsKept DEF SchedulerInv
  <1>3. GenerationsGrow /\ generation' \in [Tenants -> Nat]
    BY ScriptFacts DEF SchedulerInv
  <1>4. TurnsHeldNotAhead'
    <2>1. \A q \in Procs : \/ slot'[q].turn \in {None, slot[q].turn}
                           \/ /\ slot'[q].turn \in Turn
                              /\ slot'[q].turn.generation
                                   = generation'[slot'[q].turn.tenant]
      BY DEF OneRow
    <2>2. QED BY <1>3, <2>1, TurnsKept DEF SchedulerInv
  <1>5. CopiesBounded'
    <2>1. NoneTaken
      BY DEF NoneTaken, OneRow, Unacked
    <2>2. QED BY <2>1, CopiesKept DEF SchedulerInv, Quiet
  <1>6. QED BY <1>1, <1>2, <1>4, <1>5

\* No tenant leaves active_users, and nobody but a scheduler that has seen its queue
\* empty becomes blind.
LEMMA QuietStep ==
    ASSUME SchedulerInv, Quiet, ScriptStep, active \subseteq active',
           NEW p \in Procs, OneRow(p), RowOK(p)', Owned',
           slot[p].pc # "nacked",
           Blind(p)' => \A k \in TasksOf(slot'[p].tenant) : ~Waits(k),
           \/ slot'[p].turn \in {None, slot[p].turn}
           \/ /\ slot'[p].turn \in Turn
              /\ slot'[p].turn.generation = generation'[slot'[p].turn.tenant],
           Unacked(p)' => Unacked(p) /\ slot'[p].msg = slot[p].msg
    PROVE  StepOK
  <1>1. Rows' /\ Types' /\ PassKept /\ TurnsHeldNotAhead' /\ CopiesBounded'
    BY QuietFrame
  <1>2. GenerationsGrow /\ generation' \in [Tenants -> Nat]
    BY ScriptFacts DEF SchedulerInv
  <1>3. NothingHidden'
    <2>1. \A k \in Tasks : Waits(k)' <=> Waits(k)
      BY DEF Waits, Current, Quiet
    <2>2. \A k \in Tasks : Announced(k) => Announced(k)' \/ Moves(TenantOf[k])
      BY DEF Announced, Current, Quiet, OneRow, LostKept
    <2>3. \A q \in Procs \ {p} : Blind(q)' =>
             /\ Blind(q) /\ slot'[q].turn = slot[q].turn /\ slot'[q].tenant = slot[q].tenant
      BY DEF Blind, OneRow
    <2>4. Blind(p)' => \A k \in TasksOf(slot'[p].tenant) : ~Waits(k)'
      BY <2>1 DEF TasksOf
    <2>5. pub'.pc = "published" => status'[pub'.msg[1]] # "dispatched"
      BY DEF SchedulerInv, NothingHidden, Quiet
    <2>6. slot' \in [Procs -> SlotRow]
      BY DEF OneRow
    <2>7. QED
      BY <1>2, <2>1, <2>2, <2>3, <2>4, <2>5, <2>6, HiddenStep, NoneIsNothing
         DEF SchedulerInv
  <1>4. QED BY <1>1, <1>3 DEF StepOK

(***************************************************************************)
(* The scheduler's steps that leave the messages alone.                     *)
(***************************************************************************)

\* What the invariant says of one process.
LEMMA RowOfInv ==
    ASSUME SchedulerInv, NEW p \in Procs
    PROVE  /\ slot \in [Procs -> SlotRow] /\ slot[p] \in SlotRow /\ RowOK(p) /\ AttemptSpent(p)
           /\ slot[p].turn \in Turn \cup {None} /\ slot[p].attempt \in Attempts \cup {None}
           /\ slot[p].msg \in Message \cup {None} /\ slot[p].hasReady \in BOOLEAN
           /\ \A r \in reservations : r.token # None /\ r.token \in Attempts \cup Message
           /\ ReservationsNamed /\ CoordinatorInv /\ Types /\ Owned /\ Rows
  BY RowFields, NoneIsNothing DEF SchedulerInv, Rows, Owned, ReservationsNamed

\* A step that touches neither the rows of MySQL nor the messages is quiet.
LEMMA QuietFacts ==
    ASSUME SchedulerInv, NEW p \in Procs, UNCHANGED <<status, claims, ready, pub, recon>>,
           CloseGate(p) \/ UNCHANGED gate, Deferral \/ UNCHANGED faults,
           UNCHANGED lost \/ LostKept
    PROVE  Quiet /\ FaultsKept
  BY RowOfInv, GateFacts, DeferralFacts, LostFacts DEF Quiet, FaultsSame, FaultsKept, LostKept

\* The scheduler takes a turn.
LEMMA SchedulerNextTurnStep ==
    ASSUME SchedulerInv, NEW p \in Procs, SchedulerNextTurn(p)
    PROVE  StepOK
  <1>1. FreshTurnToken \in TurnTokens /\ NextTurn(FreshTurnToken)
    BY FreshFacts DEF SchedulerNextTurn
  <1>2. PICK u \in Turn : /\ turns' \ turns = {u} /\ u.generation = generation[u.tenant]
                          /\ generation' = generation /\ active' = active
                          /\ reservations' = reservations
    BY <1>1, GrantedTurn, RowOfInv
  <1>3. slot' = [slot EXCEPT ![p] =
                   [SlotIdle EXCEPT !.pc = "turn", !.tenant = u.tenant, !.turn = u]]
    BY <1>2 DEF SchedulerNextTurn
  <1>4. Becomes(p, "turn", u.tenant, u, None, None)
    BY <1>3, TurnFacts, RowOfInv
  <1>5. Script /\ ReservationsShrink
    BY <1>1, RingScript, RowOfInv DEF Script
  <1>6. Quiet /\ FaultsKept
    BY QuietFacts DEF SchedulerNextTurn
  <1>7. RowOK(p)'
    BY <1>4, NoneIsNothing DEF Becomes, OneRow, RowOK, Turn
  <1>8. slot[p].pc = "idle" /\ RowOK(p)
    BY RowOfInv DEF SchedulerNextTurn
  <1>9. Owned'
    <2>1. \A r \in reservations' : ~Owns(p, r.token)
      BY <1>2, <1>8, RowOfInv DEF Owns, RowOK
    <2>2. AttemptSpent(p)'
      BY <1>4 DEF AttemptSpent, Becomes, OneRow
    <2>3. QED BY <1>4, <1>5, <1>6, <2>1, <2>2, OwnedShrink, RowOfInv DEF Forgets, Becomes, OneRow
  <1>10. QED
    BY <1>2, <1>4, <1>5, <1>6, <1>7, <1>8, <1>9, QuietStep DEF ScriptStep, Becomes, Unacked, Blind

\* An attempt that is refused, and one whose coordination state is corrupt.
LEMMA RefusedStep ==
    ASSUME SchedulerInv, Quiet, FaultsKept, ScriptStep, ReservationsShrink, active' = active,
           NEW p \in Procs, slot[p].pc \in {"turn", "granted"},
           NEW a \in Attempts \cup {None}, slot[p].attempt \in {None, a},
           Becomes(p, "rotate", slot[p].tenant, slot[p].turn, a, slot[p].msg),
           slot'[p].hasReady
    PROVE  StepOK
  <1>1. RowOK(p)'
    BY RowOfInv DEF Becomes, OneRow, RowOK
  <1>2. Owned'
    <2>1. \A r \in reservations' : r.token # None
      BY RowOfInv DEF ReservationsShrink
    <2>2. ~Forgets(p)
      BY <2>1 DEF Forgets, Owns, Becomes, OneRow
    <2>3. AttemptSpent(p)'
      BY DEF AttemptSpent, Becomes, OneRow
    <2>4. QED BY <2>2, <2>3, OwnedShrink, RowOfInv DEF Becomes, OneRow
  <1>3. slot[p].msg = None
    BY RowOfInv DEF RowOK
  <1>4. QED BY <1>1, <1>2, <1>3, QuietStep DEF Becomes, Unacked, Blind

\* An attempt with a reservation of its own, which nobody else knows.
LEMMA GrantedStep ==
    ASSUME SchedulerInv, Quiet, FaultsKept, NEW p \in Procs, slot[p].pc = "turn",
           FreshAttempts # {}, AcquireProvisional(slot[p].tenant, FreshAttempt),
           NEW c \in {"granted", "rotate"}, c = "rotate" => slot'[p].hasReady,
           Becomes(p, c, slot[p].tenant, slot[p].turn, FreshAttempt, slot[p].msg)
    PROVE  StepOK
  <1>0. PICK a, t : a = FreshAttempt /\ t = slot[p].tenant
    OBVIOUS
  <1>1. /\ a \in Attempts /\ a # None /\ t \in Tenants
        /\ \A q \in Procs : slot[q].attempt # a
        /\ AcquireProvisional(t, a)
    BY <1>0, FreshFacts, NoneIsNothing, RowOfInv DEF RowOK
  <1>2. Writes(t, a) /\ active' = active /\ generation' = generation
    BY <1>1, AcquireFacts, RowOfInv
  <1>3. Script
    BY <1>1 DEF Script
  <1>4. Becomes(p, c, slot[p].tenant, slot[p].turn, a, slot[p].msg)
    BY <1>0
  <1>5. RowOK(p) /\ slot[p].attempt = None /\ slot[p].msg = None
    BY RowOfInv DEF RowOK
  <1>6. RowOK(p)'
    BY <1>1, <1>4, <1>5 DEF Becomes, OneRow, RowOK
  <1>7. Owned'
    <2>1. ReservationsNamed'
      BY <1>3, ScriptReservations, RowOfInv DEF ScriptStep
    <2>2. \A r \in reservations' : ~Owns(p, r.token)
      BY <1>5, <2>1, NoneIsNothing DEF Owns, ReservationsNamed
    <2>3. Owns(p, a)' /\ AttemptSpent(p)'
      BY <1>4 DEF Owns, AttemptSpent, Becomes, OneRow
    <2>4. ~Forgets(p) /\ \A q \in Procs \ {p} : slot'[q] = slot[q]
      BY <1>4, <2>2 DEF Forgets, Becomes, OneRow
    <2>5. QED BY <1>1, <1>2, <2>3, <2>4, OwnedWrite, RowOfInv
  <1>8. QED BY <1>2, <1>3, <1>4, <1>5, <1>6, <1>7, QuietStep DEF ScriptStep, Becomes, Unacked, Blind

\* The acquire: corrupt, granted or denied.
LEMMA SchedulerAcquireStep ==
    ASSUME SchedulerInv, NEW p \in Procs, SchedulerAcquire(p)
    PROVE  StepOK
  <1> DEFINE a == FreshAttempt
             t == slot[p].tenant
  <1>1. slot[p].pc = "turn" /\ FreshAttempts # {} /\ RowOK(p) /\ slot \in [Procs -> SlotRow]
    BY RowOfInv DEF SchedulerAcquire
  <1>2. a \in Attempts /\ a # None /\ \A r \in reservations : r.token # a
    BY <1>1, FreshFacts, NoneIsNothing
  <1>3. Quiet /\ FaultsKept
    BY QuietFacts DEF SchedulerAcquire
  <1>4. slot[p].attempt = None /\ t \in Tenants /\ {"granted", "rotate"} \subseteq SlotPCs
    BY <1>1 DEF RowOK, SlotPCs
  <1>5. CASE /\ UNCHANGED coordVars
             /\ slot' = [slot EXCEPT ![p].pc = "rotate", ![p].hasReady = TRUE, ![p].attempt = a]
    <2>1. Becomes(p, "rotate", slot[p].tenant, slot[p].turn, a, slot[p].msg) /\ slot'[p].hasReady
      BY <1>1, <1>2, <1>5, UnsureFacts
    <2>2. ReservationsShrink /\ active' = active
      BY <1>5, RingScript, RowOfInv DEF coordVars
    <2>3. QED BY <1>1, <1>2, <1>3, <1>4, <1>5, <2>1, <2>2, RefusedStep DEF ScriptStep
  <1>6. CASE /\ AcquireProvisional(t, a)
             /\ slot' = [slot EXCEPT ![p] =
                        IF \E r \in reservations' : r.token = a
                          THEN [@ EXCEPT !.pc = "granted", !.attempt = a]
                          ELSE [@ EXCEPT !.pc = "rotate", !.hasReady = TRUE]]
    <2>1. CASE \E r \in reservations' : r.token = a
      <3>1. slot' = [slot EXCEPT ![p] = [@ EXCEPT !.pc = "granted", !.attempt = a]]
        BY <1>6, <2>1
      <3>2. Becomes(p, "granted", slot[p].tenant, slot[p].turn, a, slot[p].msg)
        BY <1>1, <1>2, <1>4, <3>1, AttemptFacts
      <3>3. QED BY <1>1, <1>3, <1>6, <3>2, GrantedStep
    <2>2. CASE ~\E r \in reservations' : r.token = a
      <3>1. slot' = [slot EXCEPT ![p] = [@ EXCEPT !.pc = "rotate", !.hasReady = TRUE]]
        BY <1>6, <2>2
      <3>2. /\ Becomes(p, "rotate", slot[p].tenant, slot[p].turn, slot[p].attempt, slot[p].msg)
            /\ slot'[p].hasReady
        BY <1>1, <1>4, <3>1, HasReadyFacts
      <3>3. Script
        BY <1>2, <1>4, <1>6 DEF Script
      <3>4. Writes(t, a) /\ active' = active
        BY <1>2, <1>4, <1>6, AcquireFacts, RowOfInv
      <3>5. ReservationsShrink
        BY <2>2, <3>4 DEF Writes, ReservationsShrink, Live
      <3>6. QED BY <1>1, <1>3, <1>4, <3>2, <3>3, <3>4, <3>5, RefusedStep DEF ScriptStep
    <2>3. QED BY <2>1, <2>2
  <1>7. QED BY <1>5, <1>6 DEF SchedulerAcquire

\* The answer to the acquire is lost: the process keeps the name of what it may have.
LEMMA SchedulerAcquireLostStep ==
    ASSUME SchedulerInv, NEW p \in Procs, SchedulerAcquireLost(p)
    PROVE  StepOK
  <1> DEFINE a == FreshAttempt
  <1>1. slot[p].pc = "turn" /\ FreshAttempts # {} /\ RowOK(p) /\ slot \in [Procs -> SlotRow]
    BY RowOfInv DEF SchedulerAcquireLost
  <1>2. a \in Attempts /\ slot[p].attempt = None
    BY <1>1, FreshFacts DEF RowOK
  <1>3. Quiet /\ FaultsKept
    BY QuietFacts DEF SchedulerAcquireLost
  <1>4. Becomes(p, "rotate", slot[p].tenant, slot[p].turn, a, slot[p].msg) /\ slot'[p].hasReady
    BY <1>1, <1>2, UnsureFacts DEF SchedulerAcquireLost
  <1>5. CASE AcquireProvisional(slot[p].tenant, a)
    BY <1>1, <1>3, <1>4, <1>5, GrantedStep
  <1>6. CASE UNCHANGED coordVars
    <2>1. ReservationsShrink /\ active' = active
      BY <1>6, RingScript, RowOfInv DEF coordVars
    <2>2. QED BY <1>1, <1>2, <1>3, <1>4, <1>6, <2>1, RefusedStep DEF ScriptStep
  <1>7. QED BY <1>5, <1>6 DEF SchedulerAcquireLost

\* The basic.get fails: the capacity is given back after the rotate.
LEMMA SchedulerGetFailedStep ==
    ASSUME SchedulerInv, NEW p \in Procs, SchedulerGetFailed(p)
    PROVE  StepOK
  <1>1. slot[p].pc = "granted" /\ slot \in [Procs -> SlotRow] /\ "rotate" \in SlotPCs
        /\ slot[p].attempt \in Attempts \cup {None}
    BY RowOfInv DEF SchedulerGetFailed, SlotPCs
  <1>2. /\ Becomes(p, "rotate", slot[p].tenant, slot[p].turn, slot[p].attempt, slot[p].msg)
        /\ slot'[p].hasReady
    BY <1>1, HasReadyFacts DEF SchedulerGetFailed
  <1>3. ReservationsShrink /\ active' = active
    BY RingScript, RowOfInv DEF SchedulerGetFailed, coordVars
  <1>4. Quiet /\ FaultsKept
    BY QuietFacts DEF SchedulerGetFailed
  <1>5. UNCHANGED coordVars
    BY DEF SchedulerGetFailed
  <1>6. QED BY <1>1, <1>2, <1>3, <1>4, <1>5, RefusedStep DEF ScriptStep

\* A release that works, or one that is lost and leaves its token behind.
LEMMA ReleaseTried ==
    ASSUME SchedulerInv, NEW p \in Procs, slot[p].tenant \in Tenants,
           NEW token \in Attempts \cup Message, UNCHANGED <<status, claims, ready, pub, recon>>,
           \/ Release(slot[p].tenant, token) /\ UNCHANGED <<gate, faults, lost>>
           \/ ReleaseFails(p, token)
    PROVE  /\ Quiet /\ FaultsKept /\ ScriptStep /\ ReservationsShrink /\ active' = active
           /\ \A r \in reservations' : r.token # token \/ r.token \in lost'.releases
  <1>1. /\ Deferral \/ UNCHANGED faults
        /\ CloseGate(p) \/ UNCHANGED gate
        /\ \/ Release(slot[p].tenant, token) /\ UNCHANGED lost
           \/ /\ lost' = [lost EXCEPT !.releases = @ \cup LeftBehind({token})]
              /\ UNCHANGED coordVars
    BY DEF ReleaseFails
  <1>2. PICK t \in Tenants : t = slot[p].tenant
    OBVIOUS
  <1>3. CASE Release(t, token) /\ UNCHANGED lost
    <2>1. /\ ReservationsShrink /\ active' = active
          /\ \A r \in reservations' : r.token # token
      BY <1>3, ReleaseFacts, RowOfInv
    <2>2. Script
      BY <1>3 DEF Script
    <2>3. QED BY <1>1, <1>3, <2>1, <2>2, QuietFacts DEF ScriptStep
  <1>4. CASE /\ lost' = [lost EXCEPT !.releases = @ \cup LeftBehind({token})]
             /\ UNCHANGED coordVars
    <2>1. LeftBehind({token}) \in SUBSET (Attempts \cup Message)
      BY DEF LeftBehind
    <2>2. LostKept /\ LeftBehind({token}) \subseteq lost'.releases
      BY <1>4, <2>1, LostFacts, RowOfInv
    <2>3. ReservationsShrink /\ reservations' = reservations /\ active' = active
      BY <1>4, RingScript, RowOfInv DEF coordVars
    <2>4. \A r \in reservations' : r.token = token => r.token \in lost'.releases
      BY <2>2, <2>3 DEF LeftBehind
    <2>5. QED BY <1>1, <1>4, <2>2, <2>3, <2>4, QuietFacts DEF ScriptStep
  <1>5. QED BY <1>1, <1>2, <1>3, <1>4

\* The end of a provisional reservation: the process that named it is left with none,
\* unless its release was lost.
LEMMA ReleasedStep ==
    ASSUME SchedulerInv, NEW p \in Procs, slot[p].attempt # None, slot[p].tenant \in Tenants,
           UNCHANGED <<status, claims, ready, pub, recon>>,
           \/ Release(slot[p].tenant, slot[p].attempt) /\ UNCHANGED <<gate, faults, lost>>
           \/ ReleaseFails(p, slot[p].attempt),
           OneRow(p), RowOK(p)',
           slot[p].pc # "nacked",
           slot'[p].pc \notin {"rotate", "prepare", "bind", "bound"},
           slot'[p].pc = "depth" => slot'[p].msg = None,
           slot'[p].turn \in {None, slot[p].turn},
           slot'[p].attempt \in {None, slot[p].attempt},
           slot[p].msg # None => \A token : slot[p].msg = token => Owns(p, token)'
    PROVE  StepOK
  <1>0. PICK a \in Attempts : a = slot[p].attempt
    BY RowOfInv
  <1>1. /\ Quiet /\ FaultsKept /\ ScriptStep /\ ReservationsShrink /\ active' = active
        /\ \A r \in reservations' : r.token # slot[p].attempt \/ r.token \in lost'.releases
    BY <1>0, ReleaseTried
  <1>2. \A r \in reservations' : r.token # None
    BY <1>1, RowOfInv DEF ReservationsShrink
  <1>3. Owned'
    <2>1. ~Forgets(p)
      BY <1>1, <1>2 DEF Forgets, Owns
    <2>2. AttemptSpent(p)'
      BY <1>1, <1>2 DEF AttemptSpent
    <2>3. QED BY <1>1, <2>1, <2>2, OwnedShrink, RowOfInv DEF OneRow
  <1>4. QED BY <1>1, <1>3, QuietStep DEF Unacked, Blind

\* An empty queue: the capacity is given back before the depth is read.
LEMMA SchedulerReleaseEmptyStep ==
    ASSUME SchedulerInv, NEW p \in Procs,
           SchedulerReleaseEmpty(p) \/ SchedulerReleaseEmptyFailed(p)
    PROVE  StepOK
  <1>1. /\ slot[p].pc = "emptyGet" /\ RowOK(p) /\ slot \in [Procs -> SlotRow]
        /\ "depth" \in SlotPCs /\ InspectDepth(p)
    BY RowOfInv DEF SchedulerReleaseEmpty, SchedulerReleaseEmptyFailed, SlotPCs
  <1>2. slot[p].attempt # None /\ slot[p].msg = None /\ slot[p].tenant \in Tenants
    BY <1>1 DEF RowOK
  <1>3. Becomes(p, "depth", slot[p].tenant, slot[p].turn, None, slot[p].msg)
    BY <1>1, AttemptFacts DEF InspectDepth
  <1>4. RowOK(p)'
    BY <1>1, <1>2, <1>3 DEF Becomes, RowOK
  <1>5. /\ UNCHANGED <<status, claims, ready, pub, recon>>
        /\ \/ Release(slot[p].tenant, slot[p].attempt) /\ UNCHANGED <<gate, faults, lost>>
           \/ ReleaseFails(p, slot[p].attempt)
    BY DEF SchedulerReleaseEmpty, SchedulerReleaseEmptyFailed
  <1>6. QED BY <1>1, <1>2, <1>3, <1>4, <1>5, ReleasedStep DEF Becomes

\* A step of one process that asks nothing of Redis.
LEMMA LocalStep ==
    ASSUME SchedulerInv, Quiet, FaultsKept, UNCHANGED coordVars,
           NEW p \in Procs, OneRow(p), RowOK(p)', slot[p].pc # "nacked",
           Blind(p)' => \A k \in TasksOf(slot'[p].tenant) : ~Waits(k),
           slot'[p].turn \in {None, slot[p].turn},
           Unacked(p)' => Unacked(p) /\ slot'[p].msg = slot[p].msg,
           ~Forgets(p),
           AttemptSpent(p)'
    PROVE  StepOK
  <1>1. reservations' = reservations /\ active' = active
    BY DEF coordVars
  <1>2. ReservationsShrink
    BY RingScript, RowOfInv
  <1>3. Owned'
    BY <1>1, <1>2, OwnedShrink, RowOfInv DEF OneRow
  <1>4. QED BY <1>1, <1>3, QuietStep DEF ScriptStep

\* The depth of the queue is read: a scheduler that finds it empty is blind from now on.
LEMMA SchedulerReadyDepthStep ==
    ASSUME SchedulerInv, NEW p \in Procs, SchedulerReadyDepth(p)
    PROVE  StepOK
  <1>1. /\ slot[p].pc = "depth" /\ RowOK(p) /\ slot \in [Procs -> SlotRow]
        /\ "rotate" \in SlotPCs /\ HasReady(slot[p].tenant) \in BOOLEAN
    BY RowOfInv DEF SchedulerReadyDepth, SlotPCs, HasReady
  <1>2. /\ Becomes(p, "rotate", slot[p].tenant, slot[p].turn, slot[p].attempt, slot[p].msg)
        /\ slot'[p].hasReady = HasReady(slot[p].tenant)
    BY <1>1, HasReadyFacts DEF SchedulerReadyDepth
  <1>3. RowOK(p)'
    BY <1>1, <1>2 DEF Becomes, RowOK
  <1>4. Quiet /\ FaultsKept /\ UNCHANGED coordVars
    BY QuietFacts DEF SchedulerReadyDepth
  <1>5. ASSUME Blind(p)', NEW k \in TasksOf(slot'[p].tenant)
        PROVE  ~Waits(k)
    <2>1. ~HasReady(slot[p].tenant) /\ k \in Tasks /\ TenantOf[k] = slot[p].tenant
      BY <1>2, <1>5 DEF Blind, Becomes, TasksOf
    <2>2. Current(k) \in Message /\ Current(k)[1] = k
      BY <2>1, CurrentFacts, RowOfInv
    <2>3. QED BY <2>1, <2>2 DEF HasReady, Waits
  <1>6. ~Forgets(p)
    BY <1>1, <1>2 DEF Forgets, Owns, Becomes
  <1>7. AttemptSpent(p)'
    BY <1>2 DEF AttemptSpent, Becomes
  <1>8. Unacked(p)' => Unacked(p) /\ slot'[p].msg = slot[p].msg
    BY <1>1, <1>2 DEF Unacked, Becomes
  <1>9. QED BY <1>1, <1>2, <1>3, <1>4, <1>5, <1>6, <1>7, <1>8, LocalStep DEF Becomes

\* The depth cannot be read and counts as "has messages".
LEMMA SchedulerDepthFailedStep ==
    ASSUME SchedulerInv, NEW p \in Procs, SchedulerDepthFailed(p)
    PROVE  StepOK
  <1>1. /\ slot[p].pc = "depth" /\ RowOK(p) /\ slot \in [Procs -> SlotRow]
        /\ "rotate" \in SlotPCs
    BY RowOfInv DEF SchedulerDepthFailed, SlotPCs
  <1>2. /\ Becomes(p, "rotate", slot[p].tenant, slot[p].turn, slot[p].attempt, slot[p].msg)
        /\ slot'[p].hasReady
    BY <1>1, HasReadyFacts DEF SchedulerDepthFailed
  <1>3. RowOK(p)'
    BY <1>1, <1>2 DEF Becomes, RowOK
  <1>4. Quiet /\ FaultsKept /\ UNCHANGED coordVars
    BY QuietFacts DEF SchedulerDepthFailed
  <1>5. ~Blind(p)'
    BY <1>2 DEF Blind
  <1>6. ~Forgets(p)
    BY <1>1, <1>2 DEF Forgets, Owns, Becomes
  <1>7. AttemptSpent(p)'
    BY <1>2 DEF AttemptSpent, Becomes
  <1>8. Unacked(p)' => Unacked(p) /\ slot'[p].msg = slot[p].msg
    BY <1>1, <1>2 DEF Unacked, Becomes
  <1>9. QED BY <1>1, <1>2, <1>3, <1>4, <1>5, <1>6, <1>7, <1>8, LocalStep DEF Becomes

\* What the scheduler is after its turn is settled.
LEMMA RotatedRow ==
    ASSUME SchedulerInv, NEW p \in Procs, slot[p].pc = "rotate", TurnSettled(p)
    PROVE  /\ OneRow(p) /\ RowOK(p)' /\ slot'[p].turn = None
           /\ slot'[p].pc \in {"idle", "release", "prepare"}
           /\ slot'[p].attempt = slot[p].attempt
           /\ slot'[p].msg = slot[p].msg
  <1>1. RowOK(p) /\ slot \in [Procs -> SlotRow] /\ Rows
    BY RowOfInv
  <1>2. CASE slot[p].attempt = None
    <2>1. Idle(p)
      BY <1>2 DEF TurnSettled, Idle
    <2>2. Becomes(p, "idle", None, None, None, None)
      BY <1>1, <2>1, IdleFacts
    <2>3. slot[p].msg = None
      BY <1>1, <1>2 DEF RowOK
    <2>4. RowOK(p)'
      BY <2>2 DEF Becomes, RowOK
    <2>5. QED BY <1>1, <1>2, <2>2, <2>3, <2>4 DEF Becomes
  <1>3. CASE slot[p].attempt # None
    <2>1. PICK c \in {"release", "prepare"} :
             c = IF slot[p].msg = None THEN "release" ELSE "prepare"
      OBVIOUS
    <2>2. slot' = [slot EXCEPT ![p] = [@ EXCEPT !.pc = c, !.turn = None, !.hasReady = FALSE]]
      BY <1>3, <2>1 DEF TurnSettled
    <2>3. Becomes(p, c, slot[p].tenant, None, slot[p].attempt, slot[p].msg)
      BY <1>1, <1>3, <2>2, SettledFacts
    <2>4. RowOK(p)'
      BY <1>1, <1>3, <2>1, <2>3 DEF Becomes, RowOK
    <2>5. QED BY <1>1, <2>3, <2>4 DEF Becomes
  <1>4. QED BY <1>2, <1>3

\* A tenant that is deactivated has nothing that waits unannounced.
LEMMA DeactivateHidden ==
    ASSUME SchedulerInv, Quiet, NEW p \in Procs, OneRow(p), slot[p].pc = "rotate",
           slot'[p].pc \in {"idle", "release", "prepare"},
           generation' = generation, Deactivates(p), active' = active \ {slot[p].tenant}
    PROVE  NothingHidden'
  <1>1. \A k \in Tasks : Waits(k)' <=> Waits(k)
    BY DEF Waits, Current, Quiet
  <1>2. \A k \in Tasks : Announced(k) => Announced(k)'
    <2>1. \A t \in Tenants : ~Moves(t)
      BY GenerationTypes DEF Moves, SchedulerInv
    <2>2. lost.activations \subseteq lost'.activations
      BY <2>1, RowOfInv DEF Quiet, LostKept, Types, LostRow
    <2>3. QED BY <2>2 DEF Announced, Current, Quiet, OneRow
  <1>3. \A q \in Procs : Deactivates(q)' => Deactivates(q) /\ slot'[q].tenant = slot[q].tenant
    BY DEF Deactivates, Blind, OneRow
  <1>4. pub'.pc = "published" => status'[pub'.msg[1]] # "dispatched"
    BY DEF SchedulerInv, NothingHidden, Quiet
  <1>5. SUFFICES /\ \A k \in Tasks : Waits(k)' => TenantOf[k] \in active' \/ Announced(k)'
                 /\ \A q \in Procs : Deactivates(q)' =>
                      \A k \in TasksOf(slot'[q].tenant) : Waits(k)' => Announced(k)'
    BY <1>4 DEF NothingHidden
  <1>6. /\ \A k \in Tasks : Waits(k) => TenantOf[k] \in active \/ Announced(k)
        /\ \A q \in Procs : Deactivates(q) =>
             \A k \in TasksOf(slot[q].tenant) : Waits(k) => Announced(k)
    BY DEF SchedulerInv, NothingHidden
  <1>7. ASSUME NEW k \in Tasks, Waits(k)' PROVE TenantOf[k] \in active' \/ Announced(k)'
    <2>1. CASE TenantOf[k] = slot[p].tenant
      <3>1. k \in TasksOf(slot[p].tenant)
        BY <2>1 DEF TasksOf
      <3>2. QED BY <1>1, <1>2, <1>6, <1>7, <3>1
    <2>2. CASE TenantOf[k] # slot[p].tenant
      BY <1>1, <1>2, <1>6, <1>7, <2>2
    <2>3. QED BY <2>1, <2>2
  <1>8. ASSUME NEW q \in Procs, Deactivates(q)', NEW k \in TasksOf(slot'[q].tenant), Waits(k)'
        PROVE  Announced(k)'
    <2>1. k \in TasksOf(slot[q].tenant) /\ k \in Tasks /\ Deactivates(q)
      BY <1>3, <1>8 DEF TasksOf
    <2>2. QED BY <1>1, <1>2, <1>6, <1>8, <2>1
  <1>9. QED BY <1>7, <1>8

\* The turn is settled: requeued, deactivated, refused or not known to be.
LEMMA SchedulerRotateStep ==
    ASSUME SchedulerInv, NEW p \in Procs, SchedulerRotate(p) \/ SchedulerRotateLost(p)
    PROVE  StepOK
  <1>0. /\ slot[p].pc = "rotate" /\ TurnSettled(p)
        /\ RotateOrDeactivate(slot[p].turn, slot[p].hasReady) \/ UNCHANGED coordVars
    BY DEF SchedulerRotate, SchedulerRotateLost
  <1>1. /\ OneRow(p) /\ RowOK(p)' /\ slot'[p].turn = None
        /\ slot'[p].pc \in {"idle", "release", "prepare"}
        /\ slot'[p].attempt = slot[p].attempt
        /\ slot'[p].msg = slot[p].msg
        /\ slot[p].pc = "rotate"
    BY <1>0, RotatedRow
  <1>2. Quiet /\ FaultsKept
    BY QuietFacts DEF SchedulerRotate, SchedulerRotateLost
  <1>3. /\ ~Forgets(p)
        /\ AttemptSpent(p)' /\ ~Blind(p)'
        /\ Unacked(p)' => Unacked(p)
    BY <1>1 DEF Forgets, Owns, AttemptSpent, Blind, Unacked
  <1>4. CASE UNCHANGED coordVars
    BY <1>1, <1>2, <1>3, <1>4, LocalStep
  <1>5. CASE RotateOrDeactivate(slot[p].turn, slot[p].hasReady)
    <2>1. PICK u, h : u = slot[p].turn /\ h = slot[p].hasReady
      OBVIOUS
    <2>2. u \in turns /\ h \in BOOLEAN /\ RotateOrDeactivate(u, h)
      BY <1>5, <2>1, RowOfInv DEF RotateOrDeactivate, RotateValid
    <2>3. ScriptStep
      BY <2>2 DEF Script, ScriptStep
    <2>4. ReservationsShrink /\ reservations' = reservations
      BY <2>2, RingScript, RowOfInv
    <2>5. Owned'
      BY <1>1, <1>2, <1>3, <2>4, OwnedShrink, RowOfInv DEF OneRow
    <2>6. CASE Requeue(u, h)
      <3>1. active \subseteq active'
        BY <2>2, <2>6 DEF RotateOrDeactivate
      <3>2. QED BY <1>1, <1>2, <1>3, <2>3, <2>5, <3>1, QuietStep
    <2>7. CASE ~Requeue(u, h)
      <3>1. u \in Turn /\ u.tenant = slot[p].tenant
        BY <1>1, <2>1, <2>2, RowOfInv DEF RowOK
      <3>2. active' = active \ {slot[p].tenant} /\ generation' = generation
        BY <2>2, <2>7, <3>1 DEF RotateOrDeactivate
      <3>3. Deactivates(p)
        BY <1>1, <2>1, <2>7 DEF Deactivates, Blind, Requeue
      <3>4. NothingHidden'
        BY <1>1, <1>2, <3>2, <3>3, DeactivateHidden
      <3>5. Rows' /\ Types' /\ PassKept /\ TurnsHeldNotAhead' /\ CopiesBounded'
        BY <1>1, <1>2, <1>3, <2>3, QuietFrame
      <3>6. QED BY <2>3, <2>5, <3>4, <3>5 DEF StepOK
    <2>8. QED BY <2>6, <2>7
  <1>6. QED BY <1>0, <1>4, <1>5

(***************************************************************************)
(* The steps that move messages or change the rows of MySQL.                *)
(***************************************************************************)

\* What is left to show when one process moves and Redis is not asked.
LEMMA MessageStep ==
    ASSUME SchedulerInv, UNCHANGED coordVars, FaultsKept, NEW p \in Procs, OneRow(p), RowOK(p)',
           Types', PassKept, CopiesBounded', NothingHidden',
           slot'[p].turn \in {None, slot[p].turn},
           ~Forgets(p),
           AttemptSpent(p)'
    PROVE  StepOK
  <1>1. reservations' = reservations /\ ScriptStep
    BY DEF coordVars, ScriptStep
  <1>2. ReservationsShrink
    BY RingScript, RowOfInv
  <1>3. Owned'
    BY <1>1, <1>2, OwnedShrink, RowOfInv DEF OneRow
  <1>4. Rows'
    BY RowsKept DEF SchedulerInv
  <1>5. TurnsHeldNotAhead'
    <2>1. GenerationsGrow /\ generation' \in [Tenants -> Nat]
      BY <1>1, ScriptFacts DEF SchedulerInv
    <2>2. \A q \in Procs : slot'[q].turn \in {None, slot[q].turn}
      BY DEF OneRow
    <2>3. QED BY <2>1, <2>2, TurnsKept DEF SchedulerInv
  <1>6. QED BY <1>1, <1>3, <1>4, <1>5 DEF StepOK

\* When one process moves and does not become blind, only what waits and what is
\* announced has to be looked at.
LEMMA MessagesSeen ==
    ASSUME SchedulerInv, UNCHANGED coordVars, NEW p \in Procs, OneRow(p), ~Blind(p)',
           pub'.pc = "published" => status'[pub'.msg[1]] # "dispatched",
           \A k \in Tasks : Waits(k)' => Waits(k) \/ Announced(k)',
           \A k \in Tasks : Waits(k)' /\ Announced(k) => Announced(k)'
    PROVE  NothingHidden'
  <1>1. GenerationsGrow /\ generation' \in [Tenants -> Nat] /\ active' = active
    BY ScriptFacts DEF SchedulerInv, ScriptStep, coordVars
  <1>2. \A q \in Procs : Blind(q)' =>
          /\ Blind(q) /\ slot'[q].turn = slot[q].turn /\ slot'[q].tenant = slot[q].tenant
    BY DEF Blind, OneRow
  <1>3. slot' \in [Procs -> SlotRow]
    BY DEF OneRow
  <1>4. QED BY <1>1, <1>2, <1>3, HiddenStep, NoneIsNothing DEF SchedulerInv

\* The scheduler takes a message, or finds none.
LEMMA SchedulerGetOneStep ==
    ASSUME SchedulerInv, NEW p \in Procs, SchedulerGetOne(p)
    PROVE  StepOK
  <1>1. /\ slot[p].pc = "granted" /\ RowOK(p) /\ slot \in [Procs -> SlotRow] /\ Types
        /\ {"depth", "emptyGet"} \subseteq SlotPCs /\ slot[p].msg = None
    BY RowOfInv DEF SchedulerGetOne, SlotPCs, RowOK
  <1>2. UNCHANGED <<coordVars, status, claims, gate, pub, recon, faults, lost>>
    BY DEF SchedulerGetOne
  <1>3. ASSUME NEW m \in Message, TenantOf[m[1]] = slot[p].tenant, ready[m] > 0,
               ready' = [ready EXCEPT ![m] = @ - 1],
               slot' = [slot EXCEPT ![p].pc = "depth", ![p].msg = m]
        PROVE  StepOK
    <2>1. Becomes(p, "depth", slot[p].tenant, slot[p].turn, slot[p].attempt, m)
      BY <1>1, <1>3, MessageFacts
    <2>2. OneRow(p) /\ slot'[p].pc = "depth" /\ slot'[p].msg = m
      BY <2>1 DEF Becomes
    <2>3. RowOK(p)'
      BY <1>1, <1>3, <2>1, NoneIsNothing DEF Becomes, RowOK
    <2>4. CopiesBounded' /\ ready' \in [Message -> Nat]
      BY <1>1, <1>3, <2>2, CopiesTaken DEF SchedulerInv, OneRow, Unacked
    <2>5. Types' /\ PassKept /\ FaultsKept
      BY <1>1, <1>2, <2>4 DEF Types, FaultCounters, PassKept, FaultsKept, SchedulerInv, Decided
    <2>6. NothingHidden'
      <3>1. \A k \in Tasks : Waits(k)' => Waits(k)
        <4>1. TAKE k \in Tasks
        <4>2. Current(k) \in Message /\ ready[Current(k)] \in Nat /\ Current(k)' = Current(k)
          BY <1>1, <1>2, CurrentFacts DEF Types, Current
        <4>3. ready'[Current(k)] <= ready[Current(k)] /\ ready'[Current(k)] \in Nat
          BY <1>1, <1>3, <2>4, <4>2 DEF Types
        <4>4. QED BY <1>2, <4>2, <4>3 DEF Waits
      <3>2. \A k \in Tasks : Announced(k) => Announced(k)'
        BY <1>1, <1>2, <2>2 DEF Announced, Current, OneRow
      <3>3. ~Blind(p)'
        BY <2>2 DEF Blind
      <3>4. QED
        BY <1>2, <2>2, <3>1, <3>2, <3>3, MessagesSeen DEF SchedulerInv, NothingHidden
    <2>7. ~Forgets(p)
      BY <1>1, <2>1, RowOfInv DEF Forgets, Owns, Becomes
    <2>8. AttemptSpent(p)'
      BY <2>2 DEF AttemptSpent
    <2>9. slot'[p].turn = slot[p].turn
      BY <2>1 DEF Becomes
    <2>10. QED
      BY <1>2, <2>2, <2>3, <2>4, <2>5, <2>6, <2>7, <2>8, <2>9, MessageStep
  <1>4. CASE Goto(p, "emptyGet") /\ UNCHANGED ready
    <2>1. Becomes(p, "emptyGet", slot[p].tenant, slot[p].turn, slot[p].attempt, slot[p].msg)
      BY <1>1, <1>4, GotoFacts
    <2>2. RowOK(p)'
      BY <1>1, <2>1 DEF Becomes, RowOK
    <2>3. Quiet /\ FaultsKept
      BY <1>2, <1>4, QuietFacts
    <2>4. /\ ~Forgets(p)
          /\ AttemptSpent(p)' /\ ~Blind(p)' /\ ~Unacked(p)'
      BY <1>1, <2>1 DEF Forgets, Owns, AttemptSpent, Blind, Unacked, Becomes
    <2>5. QED BY <1>1, <1>2, <2>1, <2>2, <2>3, <2>4, LocalStep DEF Becomes
  <1>5. QED BY <1>3, <1>4 DEF SchedulerGetOne

\* A row that ends, fails or waits again hides nothing.
LEMMA StatusFrame ==
    ASSUME SchedulerInv, UNCHANGED <<claims, ready, pub, recon, lost>>,
           gate' \in [Procs -> BOOLEAN], FaultsSame, NEW k \in Tasks, NEW s \in {"pending", "done", "failed"},
           status' = [status EXCEPT ![k] = s]
    PROVE  /\ Types' /\ PassKept /\ FaultsKept
           /\ pub'.pc = "published" => status'[pub'.msg[1]] # "dispatched"
           /\ \A j \in Tasks : Waits(j)' => Waits(j)
  <1>1. Types
    BY DEF SchedulerInv
  <1>2. /\ status' \in [Tasks -> Statuses] /\ status'[k] = s
        /\ \A j \in Tasks \ {k} : status'[j] = status[j]
    BY <1>1 DEF Types, Statuses
  <1>3. Types'
    BY <1>1, <1>2 DEF Types, FaultsSame
  <1>4. PassKept /\ FaultsKept
    BY DEF FaultsSame, PassKept, FaultsKept, SchedulerInv, Decided
  <1>5. \A j \in Tasks : Waits(j)' => Waits(j)
    BY <1>2 DEF Waits, Current
  <1>6. pub'.pc = "published" => status'[pub'.msg[1]] # "dispatched"
    <2>1. SUFFICES ASSUME pub.pc = "published" PROVE status'[pub.msg[1]] # "dispatched"
      OBVIOUS
    <2>2. pub.msg[1] \in Tasks /\ status[pub.msg[1]] # "dispatched"
      BY <1>1, <2>1, NoneIsNothing DEF Types, PubRow, SchedulerInv, NothingHidden
    <2>3. QED BY <1>2, <2>2
  <1>7. QED BY <1>3, <1>4, <1>5, <1>6

\* The step of a process that settles a row.
LEMMA StatusStep ==
    ASSUME SchedulerInv, UNCHANGED <<coordVars, claims, ready, pub, recon, lost>>,
           gate' \in [Procs -> BOOLEAN], FaultsSame,
           NEW k \in Tasks, NEW s \in {"pending", "done", "failed"},
           status' = [status EXCEPT ![k] = s],
           NEW p \in Procs, OneRow(p), RowOK(p)', ~Blind(p)', slot[p].pc # "nacked",
           slot'[p].turn \in {None, slot[p].turn},
           Unacked(p)' => Unacked(p) /\ slot'[p].msg = slot[p].msg,
           ~Forgets(p),
           AttemptSpent(p)'
    PROVE  StepOK
  <1>1. /\ Types' /\ PassKept /\ FaultsKept
        /\ pub'.pc = "published" => status'[pub'.msg[1]] # "dispatched"
        /\ \A j \in Tasks : Waits(j)' => Waits(j)
    BY StatusFrame
  <1>2. CopiesBounded'
    <2>1. NoneTaken
      BY DEF NoneTaken, OneRow, Unacked
    <2>2. QED BY <2>1, CopiesKept DEF SchedulerInv
  <1>3. NothingHidden'
    <2>1. \A j \in Tasks : Announced(j) => Announced(j)'
      BY DEF Announced, Current, OneRow
    <2>2. QED BY <1>1, <2>1, MessagesSeen DEF FaultsSame
  <1>4. QED BY <1>1, <1>2, <1>3, MessageStep

(***************************************************************************)
(* The worker.                                                              *)
(***************************************************************************)

\* The worker that has a delivery in hand.
LEMMA WorkerRow ==
    ASSUME SchedulerInv, NEW p \in Procs,
           slot[p].pc \in {"prepare", "bind", "bound", "running", "finished"}
    PROVE  /\ slot[p].msg \in Message /\ slot[p].msg # None
           /\ slot[p].msg[1] \in Tasks /\ TenantOf[slot[p].msg[1]] = slot[p].tenant
           /\ slot[p].tenant \in Tenants /\ slot[p].turn = None
           /\ slot[p].pc \in {"prepare", "bind", "bound"} => slot[p].attempt \in Attempts
           /\ slot[p].pc = "running" => slot[p].attempt = None
           /\ slot \in [Procs -> SlotRow]
           /\ {"idle", "release", "bind", "bound", "running", "finished", "nacked"} \subseteq SlotPCs
  <1>1. /\ RowOK(p) /\ slot[p].msg \in Message \cup {None} /\ slot \in [Procs -> SlotRow]
        /\ slot[p].attempt \in Attempts \cup {None}
    BY RowOfInv
  <1>2. slot[p].msg \in Message /\ slot[p].msg # None
    BY <1>1 DEF RowOK
  <1>3. slot[p].msg[1] \in Tasks
    BY <1>2, NoneIsNothing
  <1>4. QED BY <1>1, <1>2, <1>3 DEF RowOK, SlotPCs

\* The claim moves both numbers of the row and leaves the delivery unacknowledged.
LEMMA PrepareClaimedStep ==
    ASSUME SchedulerInv, NEW p \in Procs, PrepareClaimed(p)
    PROVE  StepOK
  <1> DEFINE k == slot[p].msg[1]
  <1>1. slot[p].pc = "prepare" /\ RowOK(p) /\ Types
    BY RowOfInv DEF PrepareClaimed
  <1>2. k \in Tasks /\ slot \in [Procs -> SlotRow] /\ "bind" \in SlotPCs
    BY <1>1, WorkerRow
  <1> HIDE DEF k
  <1>3. /\ claims[k] < MaxClaims /\ status' = [status EXCEPT ![k] = "claimed"]
        /\ claims' = [claims EXCEPT ![k] = @ + 1]
        /\ UNCHANGED <<coordVars, ready, gate, pub, recon, faults, lost>> /\ Goto(p, "bind")
    BY DEF PrepareClaimed, k
  <1>4. claims[k] \in 0..MaxClaims /\ claims[k] + 1 \in 0..MaxClaims /\ claims[k] + 1 # 0
    BY <1>1, <1>2, <1>3, NoneIsNothing DEF Types
  <1>5. /\ status' \in [Tasks -> Statuses] /\ claims' \in [Tasks -> 0..MaxClaims]
        /\ status'[k] = "claimed" /\ claims'[k] # 0
        /\ \A j \in Tasks \ {k} : status'[j] = status[j] /\ claims'[j] = claims[j]
    BY <1>1, <1>2, <1>3, <1>4 DEF Types, Statuses
  <1>6. Types' /\ PassKept /\ FaultsKept
    <2>1. \A j \in Tasks : status'[j] = "claimed" => claims'[j] # 0
      BY <1>1, <1>5 DEF Types
    <2>2. Types'
      BY <1>1, <1>3, <1>5, <2>1 DEF Types, FaultCounters
    <2>3. QED BY <1>3, <2>2 DEF PassKept, FaultsKept, SchedulerInv, Decided
  <1>7. Becomes(p, "bind", slot[p].tenant, slot[p].turn, slot[p].attempt, slot[p].msg)
    BY <1>2, <1>3, GotoFacts
  <1>8. RowOK(p)'
    BY <1>1, <1>7 DEF Becomes, RowOK
  <1>9. CopiesBounded'
    <2>1. NoneTaken
      BY <1>1, <1>7 DEF NoneTaken, Becomes, OneRow, Unacked
    <2>2. QED BY <1>1, <1>3, <2>1, CopiesKept DEF SchedulerInv
  <1>10. NothingHidden'
    <2>1. \A j \in Tasks : Waits(j)' => j # k /\ Waits(j) /\ Current(j)' = Current(j)
      BY <1>3, <1>5 DEF Waits, Current
    <2>2. \A j \in Tasks : Waits(j)' /\ Announced(j) => Announced(j)'
      BY <1>1, <1>3, <1>7, <2>1 DEF Announced, Becomes, OneRow
    <2>3. pub'.pc = "published" => status'[pub'.msg[1]] # "dispatched"
      <3>1. SUFFICES ASSUME pub.pc = "published" PROVE status'[pub.msg[1]] # "dispatched"
        BY <1>3
      <3>2. pub.msg[1] \in Tasks /\ status[pub.msg[1]] # "dispatched"
        BY <1>1, <3>1, NoneIsNothing DEF Types, PubRow, SchedulerInv, NothingHidden
      <3>3. QED BY <1>5, <3>2
    <2>4. ~Blind(p)' /\ OneRow(p)
      BY <1>7 DEF Blind, Becomes
    <2>5. QED BY <1>3, <2>1, <2>2, <2>3, <2>4, MessagesSeen
  <1>11. /\ ~Forgets(p)
         /\ AttemptSpent(p)' /\ OneRow(p) /\ slot'[p].turn = slot[p].turn
    BY <1>1, <1>7 DEF Forgets, Owns, AttemptSpent, Becomes
  <1>12. QED BY <1>3, <1>6, <1>8, <1>9, <1>10, <1>11, MessageStep

\* The retry budget is spent.
LEMMA PrepareTerminalStep ==
    ASSUME SchedulerInv, NEW p \in Procs, PrepareTerminal(p)
    PROVE  StepOK
  <1>1. slot[p].pc = "prepare" /\ RowOK(p) /\ Types
    BY RowOfInv DEF PrepareTerminal
  <1>2. /\ slot[p].msg[1] \in Tasks /\ slot \in [Procs -> SlotRow] /\ "release" \in SlotPCs
    BY <1>1, WorkerRow
  <1>3. Becomes(p, "release", slot[p].tenant, slot[p].turn, slot[p].attempt, None)
    BY <1>2, MessageFacts DEF PrepareTerminal
  <1>4. RowOK(p)'
    BY <1>1, <1>3 DEF Becomes, RowOK
  <1>5. FaultsSame /\ gate' \in [Procs -> BOOLEAN]
    BY <1>1, DeferralFacts, GateFacts DEF PrepareTerminal
  <1>6. /\ ~Forgets(p)
        /\ AttemptSpent(p)' /\ ~Blind(p)' /\ ~Unacked(p)'
        /\ OneRow(p) /\ slot'[p].turn = slot[p].turn
    BY <1>1, <1>3 DEF Forgets, Owns, AttemptSpent, Blind, Unacked, Becomes
  <1>7. PICK k \in Tasks : status' = [status EXCEPT ![k] = "failed"]
    BY <1>2 DEF PrepareTerminal
  <1>8. UNCHANGED <<coordVars, claims, ready, pub, recon, lost>>
    BY DEF PrepareTerminal
  <1>9. QED BY <1>1, <1>4, <1>5, <1>6, <1>7, <1>8, StatusStep

\* A delivery that the row does not wait for.
LEMMA PrepareDuplicateStaleStep ==
    ASSUME SchedulerInv, NEW p \in Procs, PrepareDuplicateStale(p)
    PROVE  StepOK
  <1>1. slot[p].pc = "prepare" /\ RowOK(p)
    BY RowOfInv DEF PrepareDuplicateStale
  <1>2. slot \in [Procs -> SlotRow] /\ "release" \in SlotPCs
    BY <1>1, WorkerRow
  <1>3. Becomes(p, "release", slot[p].tenant, slot[p].turn, slot[p].attempt, None)
    BY <1>2, MessageFacts DEF PrepareDuplicateStale
  <1>4. RowOK(p)'
    BY <1>1, <1>3 DEF Becomes, RowOK
  <1>5. Quiet /\ FaultsKept /\ UNCHANGED coordVars
    BY QuietFacts DEF PrepareDuplicateStale
  <1>6. /\ ~Forgets(p)
        /\ AttemptSpent(p)' /\ ~Blind(p)' /\ ~Unacked(p)'
        /\ OneRow(p) /\ slot'[p].turn = slot[p].turn
    BY <1>1, <1>3 DEF Forgets, Owns, AttemptSpent, Blind, Unacked, Becomes
  <1>7. QED BY <1>1, <1>4, <1>5, <1>6, LocalStep

\* A delivery that is put back is announced by the worker that put it back.
LEMMA PrepareNackRequeueStep ==
    ASSUME SchedulerInv, NEW p \in Procs, PrepareNackRequeue(p)
    PROVE  StepOK
  <1>1. slot[p].pc = "prepare" /\ RowOK(p) /\ Types
    BY RowOfInv DEF PrepareNackRequeue
  <1>2. /\ slot[p].msg \in Message /\ slot[p].msg # None /\ slot[p].tenant \in Tenants
        /\ TenantOf[slot[p].msg[1]] = slot[p].tenant
        /\ slot \in [Procs -> SlotRow] /\ "nacked" \in SlotPCs
    BY <1>1, WorkerRow
  <1>3. Becomes(p, "nacked", slot[p].tenant, slot[p].turn, slot[p].attempt, None)
    BY <1>2, MessageFacts DEF PrepareNackRequeue
  <1>4. RowOK(p)'
    BY <1>1, <1>3 DEF Becomes, RowOK
  <1>5. FaultsSame /\ UNCHANGED <<coordVars, status, claims, gate, pub, recon, lost>>
        /\ ready' = [ready EXCEPT ![slot[p].msg] = @ + 1]
    BY <1>1, DeferralFacts DEF PrepareNackRequeue
  <1>6. CopiesBounded' /\ ready' \in [Message -> Nat]
    <2>1. Unacked(p)
      BY <1>1, <1>2 DEF Unacked
    <2>2. QED BY <1>1, <1>2, <1>3, <1>5, <2>1, CopiesReturned DEF SchedulerInv, Becomes, OneRow
  <1>7. Types' /\ PassKept /\ FaultsKept
    BY <1>1, <1>5, <1>6 DEF Types, FaultsSame, PassKept, FaultsKept, SchedulerInv, Decided
  <1>8. NothingHidden'
    <2>1. ASSUME NEW j \in Tasks, Waits(j)' PROVE Waits(j) \/ Announced(j)'
      <3>1. CASE Current(j) = slot[p].msg
        <4>1. TenantOf[j] = slot[p].tenant
          BY <1>1, <1>2, <3>1, CurrentFacts
        <4>2. slot'[p].pc = "nacked" /\ slot'[p].tenant = TenantOf[j]
          BY <1>3, <4>1 DEF Becomes
        <4>3. QED BY <4>2 DEF Announced
      <3>2. CASE Current(j) # slot[p].msg
        <4>1. ready'[Current(j)] = ready[Current(j)]
          BY <1>1, <1>5, <3>2, CurrentFacts DEF Types
        <4>2. QED BY <1>5, <2>1, <4>1 DEF Waits, Current
      <3>3. QED BY <3>1, <3>2
    <2>2. \A j \in Tasks : Announced(j) => Announced(j)'
      BY <1>1, <1>3, <1>5 DEF Announced, Current, Becomes, OneRow
    <2>3. ~Blind(p)' /\ OneRow(p)
      BY <1>3 DEF Blind, Becomes
    <2>4. pub'.pc = "published" => status'[pub'.msg[1]] # "dispatched"
      BY <1>5 DEF SchedulerInv, NothingHidden
    <2>5. QED BY <1>5, <2>1, <2>2, <2>3, <2>4, MessagesSeen DEF FaultsSame
  <1>9. /\ ~Forgets(p)
        /\ AttemptSpent(p)' /\ OneRow(p) /\ slot'[p].turn = slot[p].turn
    BY <1>1, <1>3 DEF Forgets, Owns, AttemptSpent, Becomes
  <1>10. QED BY <1>4, <1>5, <1>6, <1>7, <1>8, <1>9, MessageStep

\* An activation moves the generation of a tenant that is active from then on.
LEMMA ActivateMoves ==
    ASSUME CoordinatorInv, NEW t \in Tenants, Activate(t)
    PROVE  /\ Moves(t) /\ active \subseteq active' /\ ReservationsShrink
           /\ reservations' = reservations /\ Script
  <1>1. generation' = [generation EXCEPT ![t] = @ + 1] /\ active' = active \cup {t}
    BY DEF Activate
  <1>2. generation'[t] > generation[t]
    BY <1>1, GenerationTypes
  <1>3. QED BY <1>1, <1>2, RingScript DEF Moves, Script

\* The activation that the worker owed moves the generation of its tenant, or is lost.
LEMMA EnsureActiveAfterNackStep ==
    ASSUME SchedulerInv, NEW p \in Procs, EnsureActiveAfterNack(p) \/ EnsureActiveFailed(p)
    PROVE  StepOK
  <1>1. /\ slot[p].pc = "nacked" /\ RowOK(p) /\ slot \in [Procs -> SlotRow]
        /\ "release" \in SlotPCs /\ slot[p].tenant \in Tenants
    BY RowOfInv DEF EnsureActiveAfterNack, EnsureActiveFailed, RowOK, SlotPCs
  <1>2. PICK t \in Tenants : t = slot[p].tenant
    BY <1>1
  <1>3. /\ \/ Activate(t) /\ Activated(t)
           \/ ActivationLost(t) /\ UNCHANGED coordVars
        /\ Goto(p, "release")
        /\ Deferral \/ UNCHANGED faults
        /\ CloseGate(p) \/ UNCHANGED gate
        /\ UNCHANGED <<status, claims, ready, pub, recon>>
    BY <1>2 DEF EnsureActiveAfterNack, EnsureActiveFailed
  <1>4. /\ Moves(t) \/ t \in lost'.activations
        /\ active \subseteq active' /\ ReservationsShrink
        /\ reservations' = reservations /\ ScriptStep /\ LostKept
    <2>1. CASE Activate(t) /\ Activated(t)
      BY <2>1, ActivateMoves, LostFacts, RowOfInv DEF ScriptStep
    <2>2. CASE ActivationLost(t) /\ UNCHANGED coordVars
      <3>1. t \in lost'.activations /\ LostKept
        BY <2>2, LostFacts, RowOfInv
      <3>2. QED BY <2>2, <3>1, RingScript, RowOfInv DEF ScriptStep, coordVars
    <2>3. QED BY <1>3, <2>1, <2>2
  <1>5. Becomes(p, "release", slot[p].tenant, slot[p].turn, slot[p].attempt, slot[p].msg)
    BY <1>1, <1>3, GotoFacts
  <1>6. RowOK(p)' /\ OneRow(p) /\ slot'[p].turn = slot[p].turn
    BY <1>1, <1>5 DEF Becomes, RowOK
  <1>7. Quiet /\ FaultsKept
    BY <1>3, <1>4, QuietFacts
  <1>8. /\ ~Forgets(p)
        /\ AttemptSpent(p)' /\ ~Blind(p)' /\ ~Unacked(p)'
    BY <1>1, <1>5 DEF Forgets, Owns, AttemptSpent, Blind, Unacked, Becomes
  <1>9. Owned'
    BY <1>4, <1>6, <1>7, <1>8, OwnedShrink, RowOfInv DEF OneRow
  <1>10. Rows' /\ Types' /\ PassKept /\ TurnsHeldNotAhead' /\ CopiesBounded'
    BY <1>4, <1>6, <1>7, <1>8, QuietFrame
  <1>11. NothingHidden'
    <2>1. \A k \in Tasks : Waits(k)' <=> Waits(k)
      BY <1>3 DEF Waits, Current
    <2>2. ASSUME NEW k \in Tasks, Announced(k)
          PROVE  Announced(k)' \/ Moves(TenantOf[k])
      <3>1. CASE TenantOf[k] = t
        BY <1>4, <3>1 DEF Announced
      <3>2. CASE TenantOf[k] # t
        BY <1>2, <1>3, <1>4, <1>6, <2>2, <3>2 DEF Announced, Current, OneRow, LostKept
      <3>3. QED BY <3>1, <3>2
    <2>3. \A q \in Procs : Blind(q)' =>
            /\ Blind(q) /\ slot'[q].turn = slot[q].turn /\ slot'[q].tenant = slot[q].tenant
      BY <1>6, <1>8 DEF Blind, OneRow
    <2>4. pub'.pc = "published" => status'[pub'.msg[1]] # "dispatched"
      BY <1>3 DEF SchedulerInv, NothingHidden
    <2>5. GenerationsGrow /\ generation' \in [Tenants -> Nat] /\ slot' \in [Procs -> SlotRow]
      BY <1>4, <1>6, ScriptFacts, RowOfInv DEF OneRow
    <2>6. QED
      BY <1>4, <2>1, <2>2, <2>3, <2>4, <2>5, HiddenStep, NoneIsNothing DEF SchedulerInv
  <1>12. QED BY <1>4, <1>9, <1>10, <1>11 DEF StepOK

\* The end of an attempt: a worker that has nothing else is idle, one that failed after
\* its claim still has the stable token to release.
LEMMA ReleaseProvisionalStep ==
    ASSUME SchedulerInv, NEW p \in Procs,
           ReleaseProvisional(p) \/ ReleaseProvisionalFailed(p)
    PROVE  StepOK
  <1>1. /\ slot[p].pc = "release" /\ RowOK(p) /\ slot \in [Procs -> SlotRow]
        /\ "finished" \in SlotPCs /\ ProvisionalSettled(p)
    BY RowOfInv DEF ReleaseProvisional, ReleaseProvisionalFailed, SlotPCs
  <1>2. slot[p].attempt # None /\ slot[p].tenant \in Tenants /\ slot[p].turn = None
    BY <1>1 DEF RowOK
  <1>3. /\ UNCHANGED <<status, claims, ready, pub, recon>>
        /\ \/ Release(slot[p].tenant, slot[p].attempt) /\ UNCHANGED <<gate, faults, lost>>
           \/ ReleaseFails(p, slot[p].attempt)
    BY DEF ReleaseProvisional, ReleaseProvisionalFailed
  <1>4. CASE slot[p].msg = None
    <2>1. Becomes(p, "idle", None, None, None, None)
      BY <1>1, <1>4, IdleFacts DEF ProvisionalSettled
    <2>2. RowOK(p)'
      BY <2>1 DEF Becomes, RowOK
    <2>3. QED BY <1>1, <1>2, <1>3, <1>4, <2>1, <2>2, ReleasedStep DEF Becomes
  <1>5. CASE slot[p].msg # None
    <2>1. Becomes(p, "finished", slot[p].tenant, slot[p].turn, slot[p].attempt, slot[p].msg)
      BY <1>1, <1>5, GotoFacts DEF ProvisionalSettled
    <2>2. RowOK(p)'
      BY <1>1, <1>5, <2>1 DEF Becomes, RowOK
    <2>3. \A token : slot[p].msg = token => Owns(p, token)'
      BY <2>1 DEF Becomes, Owns
    <2>4. QED BY <1>1, <1>2, <1>3, <2>1, <2>2, <2>3, ReleasedStep DEF Becomes
  <1>6. QED BY <1>4, <1>5

\* The script that binds an attempt to its delivery: the process owns either name as
\* long as it keeps both.
LEMMA BoundStep ==
    ASSUME SchedulerInv, Quiet, FaultsKept, NEW p \in Procs, slot[p].pc = "bind",
           BindReservation(slot[p].tenant, slot[p].attempt, slot[p].msg),
           NEW c \in {"bound", "release"}, Goto(p, c)
    PROVE  StepOK
  <1>1. /\ RowOK(p) /\ slot \in [Procs -> SlotRow] /\ c \in SlotPCs
        /\ slot[p].msg \in Message /\ slot[p].tenant \in Tenants /\ slot[p].turn = None
        /\ slot[p].attempt \in Attempts
    BY WorkerRow, RowOfInv DEF SlotPCs
  <1>2. PICK t \in Tenants, a \in Attempts, s \in Message :
          t = slot[p].tenant /\ a = slot[p].attempt /\ s = slot[p].msg
    BY <1>1
  <1>3. BindReservation(t, a, s) /\ a # s
    BY <1>2, NoneIsNothing
  <1>4. /\ Writes(t, s) /\ \A r \in reservations' : r.token # a
        /\ active' = active
    BY <1>3, BindFacts, RowOfInv DEF Swaps
  <1>5. Becomes(p, c, slot[p].tenant, slot[p].turn, slot[p].attempt, slot[p].msg)
    BY <1>1, GotoFacts
  <1>6. RowOK(p)' /\ OneRow(p) /\ slot'[p].turn = slot[p].turn
    BY <1>1, <1>5 DEF Becomes, RowOK
  <1>7. Script
    BY <1>3 DEF Script
  <1>8. Owned'
    <2>1. \A q \in Procs \ {p} : slot[q].attempt # s
      BY RowOfInv, NoneIsNothing
    <2>2. Owns(p, s)' /\ AttemptSpent(p)'
      BY <1>2, <1>4, <1>5 DEF Owns, AttemptSpent, Becomes
    <2>3. ~Forgets(p)
      BY <1>5 DEF Forgets, Owns, Becomes
    <2>4. QED BY <1>4, <1>6, <2>1, <2>2, <2>3, OwnedWrite, RowOfInv DEF OneRow
  <1>9. ~Blind(p)' /\ (Unacked(p)' => Unacked(p) /\ slot'[p].msg = slot[p].msg)
    BY <1>5 DEF Blind, Becomes, Unacked
  <1>10. QED BY <1>4, <1>6, <1>7, <1>8, <1>9, QuietStep DEF ScriptStep

\* A worker goes on without a new answer of Redis.
LEMMA WorkerLocalStep ==
    ASSUME SchedulerInv, Quiet, FaultsKept, UNCHANGED coordVars, NEW p \in Procs,
           slot[p].pc = "bind", NEW c \in {"bound", "release"}, Goto(p, c),
           c = "bound" => \A r \in reservations : r.token # slot[p].attempt
    PROVE  StepOK
  <1>1. /\ RowOK(p) /\ slot \in [Procs -> SlotRow] /\ c \in SlotPCs
    BY WorkerRow, RowOfInv DEF SlotPCs
  <1>2. Becomes(p, c, slot[p].tenant, slot[p].turn, slot[p].attempt, slot[p].msg)
    BY <1>1, GotoFacts
  <1>3. RowOK(p)' /\ OneRow(p) /\ slot'[p].turn = slot[p].turn
    BY <1>1, <1>2 DEF Becomes, RowOK
  <1>4. ~Blind(p)' /\ (Unacked(p)' => Unacked(p) /\ slot'[p].msg = slot[p].msg)
    BY <1>2 DEF Blind, Becomes, Unacked
  <1>5. ~Forgets(p)
    BY <1>2 DEF Forgets, Owns, Becomes
  <1>6. AttemptSpent(p)'
    <2>1. reservations' = reservations
      BY DEF coordVars
    <2>2. QED BY <1>2, <2>1 DEF AttemptSpent, Becomes
  <1>7. QED BY <1>3, <1>4, <1>5, <1>6, LocalStep

\* The worker binds: done, done already, or refused.
LEMMA WorkerBindStep ==
    ASSUME SchedulerInv, NEW p \in Procs, WorkerBind(p)
    PROVE  StepOK
  <1>1. slot[p].pc = "bind" /\ Quiet /\ FaultsKept
    BY QuietFacts DEF WorkerBind
  <1>2. CASE /\ BindReservation(slot[p].tenant, slot[p].attempt, slot[p].msg)
             /\ Goto(p, "bound")
    BY <1>1, <1>2, BoundStep
  <1>3. CASE /\ BindReplayed(slot[p].tenant, slot[p].attempt, slot[p].msg)
             /\ Goto(p, "bound") /\ UNCHANGED coordVars
    <2>1. \A r \in reservations : r.token # slot[p].attempt
      BY <1>3 DEF BindReplayed
    <2>2. QED BY <1>1, <1>3, <2>1, WorkerLocalStep
  <1>4. CASE Goto(p, "release") /\ UNCHANGED coordVars
    BY <1>1, <1>4, WorkerLocalStep
  <1>5. QED BY <1>2, <1>3, <1>4 DEF WorkerBind

\* The answer to the bind is lost.
LEMMA WorkerBindLostStep ==
    ASSUME SchedulerInv, NEW p \in Procs, WorkerBindLost(p)
    PROVE  StepOK
  <1>1. slot[p].pc = "bind" /\ Goto(p, "release") /\ Quiet /\ FaultsKept
    BY QuietFacts DEF WorkerBindLost
  <1>2. CASE BindReservation(slot[p].tenant, slot[p].attempt, slot[p].msg)
    BY <1>1, <1>2, BoundStep
  <1>3. CASE UNCHANGED coordVars
    BY <1>1, <1>3, WorkerLocalStep
  <1>4. QED BY <1>2, <1>3 DEF WorkerBindLost

\* The deadline of the preparation passes.
LEMMA WorkerAbandonStep ==
    ASSUME SchedulerInv, NEW p \in Procs, WorkerAbandon(p)
    PROVE  StepOK
  <1>1. /\ slot[p].pc \in {"bind", "bound"} /\ RowOK(p) /\ slot \in [Procs -> SlotRow]
        /\ "release" \in SlotPCs /\ slot[p].msg \in Message \cup {None}
    BY RowOfInv DEF WorkerAbandon, SlotPCs
  <1>2. PICK m \in Message \cup {None} : m = IF slot[p].pc = "bind" THEN None ELSE slot[p].msg
    BY <1>1
  <1>3. slot' = [slot EXCEPT ![p].pc = "release", ![p].msg = m]
    <2>1. slot' = [slot EXCEPT ![p].pc = "release",
                           ![p].msg = IF slot[p].pc = "bind" THEN None ELSE @]
      BY DEF WorkerAbandon
    <2>2. [slot EXCEPT ![p].pc = "release"][p].msg = slot[p].msg
      BY <1>1 DEF SlotRow
    <2>3. QED BY <1>1, <1>2, <2>1, <2>2
  <1>4. Becomes(p, "release", slot[p].tenant, slot[p].turn, slot[p].attempt, m)
    BY <1>1, <1>3, MessageFacts
  <1>5. RowOK(p)' /\ OneRow(p) /\ slot'[p].turn = slot[p].turn
    BY <1>1, <1>2, <1>4 DEF Becomes, RowOK
  <1>6. Quiet /\ FaultsKept /\ UNCHANGED coordVars
    BY QuietFacts DEF WorkerAbandon
  <1>7. /\ ~Forgets(p)
        /\ AttemptSpent(p)' /\ ~Blind(p)' /\ ~Unacked(p)'
    BY <1>1, <1>2, <1>4 DEF Forgets, Owns, AttemptSpent, Blind, Unacked, Becomes
  <1>8. QED BY <1>1, <1>5, <1>6, <1>7, LocalStep

\* The delivery is acknowledged and the run begins.
LEMMA WorkerAckStep ==
    ASSUME SchedulerInv, NEW p \in Procs, WorkerAck(p)
    PROVE  StepOK
  <1>1. /\ slot[p].pc = "bound" /\ RowOK(p) /\ slot \in [Procs -> SlotRow]
        /\ "running" \in SlotPCs /\ AttemptSpent(p)
    BY RowOfInv DEF WorkerAck, SlotPCs
  <1>2. Becomes(p, "running", slot[p].tenant, slot[p].turn, None, slot[p].msg)
    BY <1>1, AttemptFacts DEF WorkerAck
  <1>3. RowOK(p)' /\ OneRow(p) /\ slot'[p].turn = slot[p].turn
    BY <1>1, <1>2 DEF Becomes, RowOK
  <1>4. Quiet /\ FaultsKept /\ UNCHANGED coordVars
    BY QuietFacts DEF WorkerAck
  <1>5. /\ ~Forgets(p)
        /\ AttemptSpent(p)' /\ ~Blind(p)' /\ ~Unacked(p)'
    <2>1. reservations' = reservations /\ lost.releases \subseteq lost'.releases
      BY <1>4 DEF coordVars, FaultsKept
    <2>2. ~Forgets(p)
      BY <1>1, <1>2, <2>1 DEF Forgets, Owns, AttemptSpent, Becomes
    <2>3. QED BY <1>2, <2>2 DEF AttemptSpent, Blind, Unacked, Becomes
  <1>6. QED BY <1>1, <1>3, <1>4, <1>5, LocalStep

\* A run ends or fails: its row is settled and its reservation is left to release.
LEMMA RunEndsStep ==
    ASSUME SchedulerInv, NEW p \in Procs, slot[p].pc = "running", Goto(p, "finished"),
           Deferral \/ UNCHANGED faults, NEW s \in {"pending", "done", "failed"},
           status' = [status EXCEPT ![slot[p].msg[1]] = s],
           UNCHANGED <<coordVars, claims, ready, gate, pub, recon, lost>>
    PROVE  StepOK
  <1>1. /\ RowOK(p) /\ slot \in [Procs -> SlotRow] /\ Types
        /\ "finished" \in SlotPCs /\ slot[p].msg[1] \in Tasks
    BY RowOfInv, WorkerRow
  <1>2. Becomes(p, "finished", slot[p].tenant, slot[p].turn, slot[p].attempt, slot[p].msg)
    BY <1>1, GotoFacts
  <1>3. RowOK(p)' /\ OneRow(p) /\ slot'[p].turn = slot[p].turn
    BY <1>1, <1>2 DEF Becomes, RowOK
  <1>4. FaultsSame /\ gate' \in [Procs -> BOOLEAN]
    BY <1>1, DeferralFacts, GateFacts
  <1>5. /\ ~Forgets(p)
        /\ ~Blind(p)' /\ ~Unacked(p)'
    BY <1>1, <1>2 DEF Forgets, Owns, Blind, Unacked, Becomes
  <1>6. AttemptSpent(p)'
    <2>1. reservations' = reservations
      BY DEF coordVars
    <2>2. slot'[p].attempt = None
      BY <1>1, <1>2 DEF RowOK, Becomes
    <2>3. QED BY <2>1, <2>2, RowOfInv DEF AttemptSpent
  <1>7. PICK k \in Tasks : k = slot[p].msg[1]
    BY <1>1
  <1>8. status' = [status EXCEPT ![k] = s]
    BY <1>7
  <1>9. QED BY <1>3, <1>4, <1>5, <1>6, <1>8, StatusStep

\* The run is done.
LEMMA WorkerFinishStep ==
    ASSUME SchedulerInv, NEW p \in Procs, WorkerFinish(p)
    PROVE  StepOK
  BY RunEndsStep DEF WorkerFinish

\* The run has failed.
LEMMA WorkerRunFailedStep ==
    ASSUME SchedulerInv, NEW p \in Procs, WorkerRunFailed(p)
    PROVE  StepOK
  BY RunEndsStep DEF WorkerRunFailed

\* The stable reservation is given back, or left behind; the provisional one was before.
LEMMA ReleaseStableStep ==
    ASSUME SchedulerInv, NEW p \in Procs, ReleaseStable(p) \/ ReleaseStableFailed(p)
    PROVE  StepOK
  <1>1. /\ slot[p].pc = "finished" /\ Idle(p) /\ UNCHANGED <<status, claims, ready, pub, recon>>
        /\ \/ Release(slot[p].tenant, slot[p].msg) /\ UNCHANGED <<gate, faults, lost>>
           \/ ReleaseFails(p, slot[p].msg)
    BY DEF ReleaseStable, ReleaseStableFailed
  <1>2. /\ RowOK(p) /\ slot \in [Procs -> SlotRow]
        /\ AttemptSpent(p) /\ slot[p].msg \in Message /\ slot[p].tenant \in Tenants
    BY <1>1, RowOfInv, WorkerRow
  <1>3. PICK s \in Message : s = slot[p].msg
    BY <1>2
  <1>4. /\ Quiet /\ FaultsKept /\ ScriptStep /\ ReservationsShrink /\ active' = active
        /\ \A r \in reservations' : r.token # slot[p].msg \/ r.token \in lost'.releases
    BY <1>1, <1>2, <1>3, ReleaseTried
  <1>5. Becomes(p, "idle", None, None, None, None)
    BY <1>1, <1>2, IdleFacts
  <1>6. RowOK(p)' /\ OneRow(p) /\ slot'[p].turn = None
    BY <1>5 DEF Becomes, RowOK
  <1>7. Owned'
    <2>1. ~Forgets(p)
      BY <1>1, <1>2, <1>4 DEF Forgets, Owns, AttemptSpent, ReservationsShrink, FaultsKept
    <2>2. AttemptSpent(p)'
      BY <1>5 DEF AttemptSpent, Becomes
    <2>3. QED BY <1>4, <1>6, <2>1, <2>2, OwnedShrink, RowOfInv DEF OneRow
  <1>8. ~Blind(p)' /\ ~Unacked(p)'
    BY <1>5 DEF Blind, Unacked, Becomes
  <1>9. QED BY <1>1, <1>4, <1>6, <1>7, <1>8, QuietStep

(***************************************************************************)
(* The steps in which every attempt stays where it is.                      *)
(***************************************************************************)

\* What such a step has to show.
LEMMA RestStep ==
    ASSUME SchedulerInv, UNCHANGED <<status, claims, ready, pub, slot>>, Types', PassKept,
           FaultsKept, LostKept, ScriptStep, active \subseteq active', Owned'
    PROVE  StepOK
  <1>1. slot \in [Procs -> SlotRow] /\ Rows'
    BY RowOfInv DEF SchedulerInv, Rows, RowOK
  <1>2. GenerationsGrow /\ generation' \in [Tenants -> Nat]
    BY ScriptFacts DEF SchedulerInv
  <1>3. TurnsHeldNotAhead'
    BY <1>2, TurnsKept DEF SchedulerInv
  <1>4. CopiesBounded'
    <2>1. NoneTaken
      BY DEF NoneTaken, Unacked
    <2>2. QED BY <2>1, CopiesKept DEF SchedulerInv
  <1>5. NothingHidden'
    <2>1. \A k \in Tasks : Waits(k)' <=> Waits(k)
      BY DEF Waits, Current
    <2>2. \A k \in Tasks : Announced(k) => Announced(k)' \/ Moves(TenantOf[k])
      BY DEF Announced, Current, LostKept
    <2>3. \A q \in Procs : Blind(q)' =>
            /\ Blind(q) /\ slot'[q].turn = slot[q].turn /\ slot'[q].tenant = slot[q].tenant
      BY DEF Blind
    <2>4. pub'.pc = "published" => status'[pub'.msg[1]] # "dispatched"
      BY DEF SchedulerInv, NothingHidden
    <2>5. slot' \in [Procs -> SlotRow]
      BY <1>1 DEF Rows
    <2>6. QED
      BY <1>2, <2>1, <2>2, <2>3, <2>4, <2>5, HiddenStep, NoneIsNothing DEF SchedulerInv
  <1>6. QED BY <1>1, <1>3, <1>4, <1>5 DEF StepOK

\* The same when the reconciler does not move either.
LEMMA QuietRest ==
    ASSUME SchedulerInv, UNCHANGED <<status, claims, ready, pub, slot, recon, lost>>,
           gate' \in [Procs -> BOOLEAN], Deferral \/ UNCHANGED faults,
           ScriptStep, active \subseteq active',
           \/ ReservationsShrink
           \/ \E t, token : /\ Writes(t, token) /\ \A q \in Procs : slot[q].attempt # token
                            /\ \E r \in Live : r.token = token
    PROVE  StepOK
  <1>1. FaultsSame
    BY DeferralFacts DEF SchedulerInv
  <1>2. Quiet /\ FaultsKept
    BY <1>1, LostFacts DEF Quiet, FaultsSame, FaultsKept, SchedulerInv
  <1>3. Types' /\ PassKept
    BY <1>2, QuietTypes DEF SchedulerInv
  <1>4. Owned'
    BY <1>2, OwnedRest DEF SchedulerInv
  <1>5. QED BY <1>2, <1>3, <1>4, RestStep DEF Quiet

\* No process has the name of a delivery for its attempt.
LEMMA AttemptIsNoMessage ==
    ASSUME SchedulerInv, NEW m \in Message
    PROVE  \A q \in Procs : slot[q].attempt # m
  BY RowOfInv, NoneIsNothing

\* The heartbeat of a running task.
LEMMA WorkerRenewStep ==
    ASSUME SchedulerInv, NEW p \in Procs, WorkerRenew(p)
    PROVE  StepOK
  <1>1. /\ slot[p].pc = "running" /\ slot[p].msg \in Message /\ slot[p].tenant \in Tenants
        /\ gate' \in [Procs -> BOOLEAN]
        /\ UNCHANGED <<status, claims, ready, pub, slot, recon, faults, lost>>
    BY WorkerRow, GateFacts DEF WorkerRenew, SchedulerInv
  <1>2. PICK t \in Tenants, s \in Message : t = slot[p].tenant /\ s = slot[p].msg
    BY <1>1
  <1>3. CASE RenewStable(t, s)
    <2>1. Writes(t, s) /\ (\E r \in Live : r.token = s) /\ active' = active
      BY <1>3, RenewFacts, RowOfInv DEF Swaps
    <2>2. ScriptStep
      BY <1>3 DEF Script, ScriptStep
    <2>3. QED BY <1>1, <2>1, <2>2, AttemptIsNoMessage, QuietRest
  <1>4. CASE UNCHANGED coordVars
    <2>1. ReservationsShrink /\ active' = active /\ ScriptStep
      BY <1>4, RingScript DEF ScriptStep, coordVars, SchedulerInv
    <2>2. QED BY <1>1, <2>1, QuietRest
  <1>5. QED BY <1>2, <1>3, <1>4 DEF WorkerRenew

\* The turn that a lost answer had given.
LEMMA SchedulerNextTurnLostStep ==
    ASSUME SchedulerInv, NEW p \in Procs, SchedulerNextTurnLost(p)
    PROVE  StepOK
  <1>1. /\ FreshTurnToken \in TurnTokens /\ NextTurn(FreshTurnToken) /\ Deferral
        /\ gate' \in [Procs -> BOOLEAN]
        /\ UNCHANGED <<status, claims, ready, pub, slot, recon, lost>>
    BY FreshFacts, GateFacts DEF SchedulerNextTurnLost, SchedulerInv
  <1>2. ReservationsShrink /\ active' = active /\ Script
    BY <1>1, RingScript DEF Script, NextTurn, SchedulerInv
  <1>3. QED BY <1>1, <1>2, QuietRest DEF ScriptStep

\* The gate is opened again.
LEMMA OpenResourceStep ==
    ASSUME SchedulerInv, NEW p \in Procs, OpenResource(p)
    PROVE  StepOK
  <1>1. /\ gate' \in [Procs -> BOOLEAN] /\ UNCHANGED coordVars
        /\ UNCHANGED <<status, claims, ready, pub, slot, recon, faults, lost>>
    BY DEF OpenResource, SchedulerInv, Types
  <1>2. ReservationsShrink /\ active' = active /\ ScriptStep
    BY <1>1, RingScript DEF ScriptStep, coordVars, SchedulerInv
  <1>3. QED BY <1>1, <1>2, QuietRest

\* Time passes and what has expired is reaped.
LEMMA ExpiryStep ==
    ASSUME SchedulerInv, TimePasses \/ ReconcileReap
    PROVE  StepOK
  <1>1. /\ Tick \/ ReapExpiredTurnsAndProvisionals
        /\ UNCHANGED <<status, claims, ready, gate, pub, slot, recon, faults, lost>>
    BY DEF TimePasses, ReconcileReap, ownVars
  <1>2. ReservationsShrink /\ active' = active /\ ScriptStep
    BY <1>1, EndFacts DEF Script, ScriptStep, SchedulerInv
  <1>3. gate' \in [Procs -> BOOLEAN]
    BY <1>1 DEF SchedulerInv, Types
  <1>4. QED BY <1>1, <1>2, <1>3, QuietRest

\* The lease of an abandoned claim expires.
LEMMA RearmExpiredStep ==
    ASSUME SchedulerInv, NEW k \in Tasks, RearmExpired(k)
    PROVE  StepOK
  <1>1. /\ status' = [status EXCEPT ![k] = "pending"]
        /\ UNCHANGED <<coordVars, claims, ready, gate, pub, slot, recon, faults, lost>>
    BY DEF RearmExpired
  <1>2. FaultsSame /\ gate' \in [Procs -> BOOLEAN]
    BY <1>1, DeferralFacts DEF SchedulerInv, Types
  <1>3. /\ Types' /\ PassKept /\ FaultsKept
        /\ pub'.pc = "published" => status'[pub'.msg[1]] # "dispatched"
        /\ \A j \in Tasks : Waits(j)' => Waits(j)
    BY <1>1, <1>2, StatusFrame
  <1>4. ReservationsShrink /\ active' = active /\ ScriptStep
    BY <1>1, RingScript DEF ScriptStep, coordVars, SchedulerInv
  <1>5. slot \in [Procs -> SlotRow] /\ Rows'
    BY <1>1, RowOfInv DEF SchedulerInv, Rows, RowOK
  <1>6. GenerationsGrow /\ generation' \in [Tenants -> Nat]
    BY <1>4, ScriptFacts DEF SchedulerInv
  <1>7. TurnsHeldNotAhead'
    BY <1>1, <1>6, TurnsKept DEF SchedulerInv
  <1>8. CopiesBounded'
    <2>1. NoneTaken
      BY <1>1 DEF NoneTaken, Unacked
    <2>2. QED BY <1>1, <2>1, CopiesKept DEF SchedulerInv
  <1>9. NothingHidden'
    <2>1. \A j \in Tasks : Announced(j) => Announced(j)'
      BY <1>1 DEF Announced, Current
    <2>2. \A q \in Procs : Blind(q)' =>
            /\ Blind(q) /\ slot'[q].turn = slot[q].turn /\ slot'[q].tenant = slot[q].tenant
      BY <1>1 DEF Blind
    <2>3. slot' \in [Procs -> SlotRow]
      BY <1>1, <1>5
    <2>4. QED
      BY <1>3, <1>4, <1>6, <2>1, <2>2, <2>3, HiddenStep, NoneIsNothing DEF SchedulerInv
  <1>10. Owned'
    BY <1>1, <1>3, <1>4, OwnedRest DEF SchedulerInv
  <1>11. QED BY <1>3, <1>4, <1>5, <1>7, <1>8, <1>9, <1>10 DEF StepOK

(***************************************************************************)
(* The reconciler.                                                          *)
(***************************************************************************)

\* A row of the reconciler.
ReconRow == [pc : {"idle", "activate", "running", "stable"}, tenant : Tenants \cup {None},
             canonical : SUBSET Message, redis : SUBSET Message]

\* The reconciler is idle again, or begins.
LEMMA ReconRows ==
    /\ ReconIdle \in ReconRow /\ ReconIdle.pc = "idle"
    /\ \A t \in Tenants :
         /\ [ReconIdle EXCEPT !.pc = "activate", !.tenant = t] \in ReconRow
         /\ [ReconIdle EXCEPT !.pc = "activate", !.tenant = t].pc = "activate"
         /\ [ReconIdle EXCEPT !.pc = "activate", !.tenant = t].tenant = t
    /\ \A S \in SUBSET Message :
         /\ [ReconIdle EXCEPT !.pc = "running", !.canonical = S] \in ReconRow
         /\ [ReconIdle EXCEPT !.pc = "running", !.canonical = S].pc = "running"
  BY DEF ReconIdle, ReconRow

\* The types after a step of the reconciler.
LEMMA ReconTypes ==
    ASSUME Types, UNCHANGED <<status, claims, ready, gate, pub>>, FaultCounters', LostKept,
           recon' \in ReconRow, recon'.pc = "activate" => recon'.tenant \in Tenants
    PROVE  Types'
  BY DEF Types, ReconRow, LostKept

\* The reconciler finds a tenant to activate.
LEMMA ReconcileReadyDepthStep ==
    ASSUME SchedulerInv, NEW t \in Tenants, ReconcileReadyDepth(t)
    PROVE  StepOK
  <1>1. /\ UNCHANGED <<coordVars, status, claims, ready, gate, pub, slot, lost>>
        /\ recon' = [ReconIdle EXCEPT !.pc = "activate", !.tenant = t]
        /\ t \in active => faults.redundant < faults.bound.redundant
        /\ faults' = [faults EXCEPT !.redundant = IF t \in active THEN @ + 1 ELSE @]
    BY DEF ReconcileReadyDepth
  <1>2. FaultCounters
    BY DEF SchedulerInv, Types
  <1>3. PICK n \in Nat : /\ n = IF t \in active THEN faults.redundant + 1 ELSE faults.redundant
                         /\ n <= faults.bound.redundant
    <2>1. faults.redundant \in Nat /\ faults.bound.redundant \in Nat
      BY <1>2, SchedulerAssumption DEF FaultCounters
    <2>2. CASE t \in active
      <3>1. faults.redundant + 1 \in Nat /\ faults.redundant + 1 <= faults.bound.redundant
        BY <1>1, <2>1, <2>2
      <3>2. QED BY <2>2, <3>1
    <2>3. CASE t \notin active
      BY <1>2, <2>1, <2>3 DEF FaultCounters
    <2>4. QED BY <2>2, <2>3
  <1>4. faults' = [faults EXCEPT !.redundant = n]
    BY <1>1, <1>2, <1>3 DEF FaultCounters
  <1>5. FaultCounters' /\ FaultsKept /\ LostKept /\ faults'.passes = faults.passes
    BY <1>1, <1>2, <1>3, <1>4, LostFacts DEF FaultCounters, FaultsKept, SchedulerInv
  <1>6. recon' \in ReconRow /\ recon'.pc = "activate" /\ recon'.tenant = t
    BY <1>1, ReconRows
  <1>7. Types'
    BY <1>1, <1>5, <1>6, ReconTypes DEF SchedulerInv
  <1>8. PassKept
    BY <1>5, <1>6 DEF PassKept
  <1>9. ReservationsShrink /\ active' = active /\ ScriptStep
    BY <1>1, RingScript DEF ScriptStep, coordVars, SchedulerInv
  <1>10. Owned'
    BY <1>1, <1>5, <1>9, OwnedRest DEF SchedulerInv
  <1>11. QED BY <1>1, <1>5, <1>7, <1>8, <1>9, <1>10, RestStep

\* A step of the reconciler that leaves the counters as they are.
LEMMA ReconStep ==
    ASSUME SchedulerInv, UNCHANGED <<status, claims, ready, gate, pub, slot, faults>>,
           recon' \in ReconRow, recon'.pc = "activate" => recon'.tenant \in Tenants,
           recon'.pc \in {"idle", "activate"} \/ recon.pc \in {"running", "stable"},
           ScriptStep, active \subseteq active', UNCHANGED lost \/ LostKept,
           \/ ReservationsShrink
           \/ \E t, token : /\ Writes(t, token) /\ \A q \in Procs : slot[q].attempt # token
                            /\ recon.pc = "stable"
    PROVE  StepOK
  <1>1. FaultCounters' /\ FaultsKept /\ LostKept
    BY LostFacts DEF SchedulerInv, Types, FaultCounters, FaultsKept, LostKept
  <1>2. Types'
    BY <1>1, ReconTypes DEF SchedulerInv
  <1>3. recon.pc \in {"running", "stable"} => faults.passes # 0
    BY DEF SchedulerInv, Decided
  <1>4. PassKept
    BY <1>3 DEF PassKept
  <1>5. Owned'
    BY <1>1, <1>3, OwnedRest DEF SchedulerInv
  <1>6. QED BY <1>1, <1>2, <1>4, <1>5, RestStep

\* The tenant is activated, whether it needs it or not.
LEMMA ReconcileEnsureActiveStep ==
    ASSUME SchedulerInv, ReconcileEnsureActive
    PROVE  StepOK
  <1>1. PICK t \in Tenants : t = recon.tenant
    BY DEF ReconcileEnsureActive, SchedulerInv, Types
  <1>2. Activate(t) /\ Activated(t) /\ recon' = ReconIdle
        /\ UNCHANGED <<status, claims, ready, gate, pub, slot, faults>>
    BY <1>1 DEF ReconcileEnsureActive
  <1>3. active \subseteq active' /\ ReservationsShrink /\ Script /\ LostKept
    BY <1>2, ActivateMoves, LostFacts DEF SchedulerInv
  <1>4. recon' \in ReconRow /\ recon'.pc = "idle"
    BY <1>2, ReconRows
  <1>5. QED BY <1>2, <1>3, <1>4, ReconStep DEF ScriptStep

\* The claims that run have the names of deliveries.
LEMMA RunningAreMessages == Types => Running \subseteq Message
  <1>1. SUFFICES ASSUME Types, NEW k \in Tasks, status[k] = "claimed"
                 PROVE  <<k, claims[k]>> \in Message
    BY DEF Running
  <1>2. claims[k] \in 1..MaxClaims + 1
    BY <1>1, NoneIsNothing DEF Types
  <1>3. QED BY <1>2 DEF Message

\* A pass over the stable reservations begins.
LEMMA ReconcileListRunningStep ==
    ASSUME SchedulerInv, ReconcileListRunning
    PROVE  StepOK
  <1>1. /\ UNCHANGED <<coordVars, status, claims, ready, gate, pub, slot, lost>>
        /\ recon' = [ReconIdle EXCEPT !.pc = "running", !.canonical = Running]
        /\ faults.bound.passes > 0
        /\ faults' = [faults EXCEPT !.passes = Smaller(@ + 1, faults.bound.passes)]
    BY DEF ReconcileListRunning
  <1>2. FaultCounters
    BY DEF SchedulerInv, Types
  <1>3. PICK n \in Nat : /\ n = Smaller(faults.passes + 1, faults.bound.passes)
                         /\ n <= faults.bound.passes /\ n # 0
    <2>1. faults.passes \in Nat /\ faults.bound.passes \in Nat
      BY <1>2, SchedulerAssumption DEF FaultCounters
    <2>2. QED BY <1>1, <2>1 DEF Smaller
  <1>4. faults' = [faults EXCEPT !.passes = n]
    BY <1>1, <1>2, <1>3 DEF FaultCounters
  <1>5. FaultCounters' /\ FaultsKept /\ LostKept /\ faults'.passes # 0
    BY <1>1, <1>2, <1>3, <1>4, LostFacts DEF FaultCounters, FaultsKept, SchedulerInv
  <1>6. recon' \in ReconRow /\ recon'.pc = "running"
    <2>1. Running \in SUBSET Message
      BY RunningAreMessages DEF SchedulerInv
    <2>2. QED BY <1>1, <2>1, ReconRows
  <1>7. Types'
    BY <1>1, <1>5, <1>6, ReconTypes DEF SchedulerInv
  <1>8. PassKept
    BY <1>5 DEF PassKept
  <1>9. ReservationsShrink /\ active' = active /\ ScriptStep
    BY <1>1, RingScript DEF ScriptStep, coordVars, SchedulerInv
  <1>10. Owned'
    BY <1>1, <1>5, <1>9, OwnedRest DEF SchedulerInv
  <1>11. QED BY <1>1, <1>5, <1>7, <1>8, <1>9, <1>10, RestStep

\* The stable tokens are read; they have the names of deliveries.
LEMMA ReconcileListStableStep ==
    ASSUME SchedulerInv, ReconcileListStable
    PROVE  StepOK
  <1>1. /\ UNCHANGED <<coordVars, status, claims, ready, gate, pub, slot, faults, lost>>
        /\ recon.pc = "running"
    BY DEF ReconcileListStable
  <1>2. StableTokens \subseteq Message
    BY DEF StableTokens, Provisional, SchedulerInv, ReservationsNamed
  <1>3. recon \in ReconRow
    BY DEF SchedulerInv, Types, ReconRow
  <1>4. recon' \in ReconRow /\ recon'.pc # "activate"
    <2>1. /\ [recon EXCEPT !.pc = "stable", !.redis = StableTokens] \in ReconRow
          /\ [recon EXCEPT !.pc = "stable", !.redis = StableTokens].pc = "stable"
      BY <1>2, <1>3 DEF ReconRow
    <2>2. QED BY <2>1, ReconRows DEF ReconcileListStable
  <1>5. ReservationsShrink /\ active' = active /\ ScriptStep
    BY <1>1, RingScript DEF ScriptStep, coordVars, SchedulerInv
  <1>6. QED BY <1>1, <1>4, <1>5, ReconStep

\* A token without a claim is released.
LEMMA ReconcileReleaseStep ==
    ASSUME SchedulerInv, ReconcileRelease
    PROVE  StepOK
  <1>1. /\ UNCHANGED <<status, claims, ready, gate, pub, slot, faults, lost>>
        /\ recon.pc = "stable"
    BY DEF ReconcileRelease
  <1>2. recon \in ReconRow
    BY DEF SchedulerInv, Types, ReconRow
  <1>3. PICK m \in Orphans : /\ Release(TenantOf[m[1]], m)
                             /\ recon' = [recon EXCEPT !.redis = @ \ {m}]
    BY DEF ReconcileRelease
  <1>4. m \in Message
    BY <1>2 DEF Orphans, ReconRow
  <1>5. PICK t \in Tenants : t = TenantOf[m[1]]
    BY <1>4, NoneIsNothing
  <1>6. Release(t, m)
    BY <1>3, <1>5
  <1>7. ReservationsShrink /\ active' = active
    BY <1>6, ReleaseFacts DEF SchedulerInv
  <1>8. ScriptStep
    BY <1>4, <1>6 DEF Script, ScriptStep
  <1>9. recon' \in ReconRow /\ recon'.pc = "stable"
    BY <1>1, <1>2, <1>3 DEF ReconRow
  <1>10. QED BY <1>1, <1>7, <1>8, <1>9, ReconStep

\* The token of a claim is written, and at the end the reconciler is idle.
LEMMA ReconcileEnsureStableStep ==
    ASSUME SchedulerInv, ReconcileEnsureStable
    PROVE  StepOK
  <1>1. /\ UNCHANGED <<status, claims, ready, gate, pub, slot, faults, lost>>
        /\ recon.pc = "stable"
    BY DEF ReconcileEnsureStable
  <1>2. recon \in ReconRow
    BY DEF SchedulerInv, Types, ReconRow
  <1>3. ASSUME NEW m \in recon.canonical, EnsureReadyStableInflight(TenantOf[m[1]], m),
               recon' = [recon EXCEPT !.redis = @ \ {m}, !.canonical = @ \ {m}]
        PROVE  StepOK
    <2>1. m \in Message
      BY <1>2 DEF ReconRow
    <2>2. PICK t \in Tenants : t = TenantOf[m[1]]
      BY <2>1, NoneIsNothing
    <2>3. EnsureReadyStableInflight(t, m)
      BY <1>3, <2>2
    <2>4. Writes(t, m) /\ active' = active
      BY <2>3, EnsureFacts DEF SchedulerInv
    <2>5. ScriptStep
      BY <1>1, <2>1, <2>3 DEF Script, ScriptStep
    <2>6. recon' \in ReconRow /\ recon'.pc = "stable"
      <3> DEFINE first == [recon EXCEPT !.redis = @ \ {m}]
      <3>1. first \in ReconRow /\ first.pc = "stable"
        BY <1>1, <1>2 DEF ReconRow
      <3>2. recon' = [first EXCEPT !.canonical = @ \ {m}]
        BY <1>3
      <3> HIDE DEF first
      <3>3. QED BY <3>1, <3>2 DEF ReconRow
    <2>7. QED BY <1>1, <2>1, <2>4, <2>5, <2>6, AttemptIsNoMessage, ReconStep
  <1>4. CASE recon' = ReconIdle /\ UNCHANGED coordVars
    <2>1. ReservationsShrink /\ active' = active /\ ScriptStep
      BY <1>4, RingScript DEF ScriptStep, coordVars, SchedulerInv
    <2>2. recon' \in ReconRow /\ recon'.pc = "idle"
      BY <1>4, ReconRows
    <2>3. QED BY <1>1, <2>1, <2>2, ReconStep
  <1>5. QED BY <1>3, <1>4 DEF ReconcileEnsureStable

(***************************************************************************)
(* The dispatcher.                                                          *)
(***************************************************************************)

\* A step of the dispatcher leaves the attempts and the reservations as they are.
LEMMA DispatchStep ==
    ASSUME SchedulerInv, slot' = slot, ScriptStep, reservations' = reservations,
           ReservationsShrink, active \subseteq active', recon' = recon,
           FaultsSame, lost.releases \subseteq lost'.releases, Types', CopiesBounded',
           pub'.pc = "published" => status'[pub'.msg[1]] # "dispatched",
           \A j \in Tasks : Waits(j)' => Waits(j) \/ Announced(j)',
           \A j \in Tasks : Waits(j)' /\ Announced(j) => Announced(j)' \/ Moves(TenantOf[j])
    PROVE  StepOK
  <1>1. slot \in [Procs -> SlotRow] /\ Rows'
    BY RowOfInv DEF SchedulerInv, Rows, RowOK
  <1>2. GenerationsGrow /\ generation' \in [Tenants -> Nat]
    BY ScriptFacts DEF SchedulerInv
  <1>3. TurnsHeldNotAhead'
    BY <1>2, TurnsKept DEF SchedulerInv
  <1>4. FaultsKept /\ PassKept
    BY DEF FaultsSame, FaultsKept, PassKept, SchedulerInv, Decided
  <1>5. NothingHidden'
    <2>1. \A q \in Procs : Blind(q)' =>
            /\ Blind(q) /\ slot'[q].turn = slot[q].turn /\ slot'[q].tenant = slot[q].tenant
      BY DEF Blind
    <2>2. slot' \in [Procs -> SlotRow]
      BY <1>1 DEF Rows
    <2>3. QED BY <1>2, <2>1, <2>2, HiddenStep, NoneIsNothing DEF SchedulerInv
  <1>6. Owned'
    BY <1>4, OwnedRest DEF SchedulerInv
  <1>7. QED BY <1>1, <1>3, <1>4, <1>5, <1>6 DEF StepOK

\* The same when Redis is not asked.
LEMMA PublishStep ==
    ASSUME SchedulerInv, UNCHANGED <<coordVars, claims, gate, slot, recon>>,
           FaultsSame, lost.releases \subseteq lost'.releases, Types', CopiesBounded',
           pub'.pc = "published" => status'[pub'.msg[1]] # "dispatched",
           \A j \in Tasks : Waits(j)' => Waits(j) \/ Announced(j)',
           \A j \in Tasks : Waits(j)' /\ Announced(j) => Announced(j)'
    PROVE  StepOK
  <1>1. /\ ReservationsShrink /\ reservations' = reservations /\ active' = active /\ ScriptStep
    BY RingScript DEF ScriptStep, coordVars, SchedulerInv
  <1>2. QED BY <1>1, DispatchStep

\* With the queues as they were, so are the copies.
LEMMA CopiesRest ==
    ASSUME SchedulerInv, slot' = slot, ready' = ready
    PROVE  CopiesBounded'
  <1>1. NoneTaken
    BY DEF NoneTaken, Unacked
  <1>2. QED BY <1>1, CopiesKept DEF SchedulerInv

\* A publish that the broker confirms: the row is still pending, so nothing waits for it.
LEMMA PublishMandatoryConfirmedStep ==
    ASSUME SchedulerInv, NEW k \in Tasks, PublishMandatoryConfirmed(k)
    PROVE  StepOK
  <1>1. /\ Types /\ Current(k) \in Message /\ Current(k)[1] = k
    BY CurrentFacts DEF SchedulerInv
  <1>2. PICK m \in Message : m = Current(k)
    BY <1>1
  <1>3. /\ pub = PubIdle /\ status[k] = "pending" /\ Copies(m) < MaxCopies
        /\ ready' = [ready EXCEPT ![m] = @ + 1]
        /\ pub' = [pc |-> "published", msg |-> m]
        /\ UNCHANGED <<coordVars, status, claims, gate, slot, recon, faults, lost>>
    BY <1>2 DEF PublishMandatoryConfirmed
  <1>4. CopiesBounded' /\ ready' \in [Message -> Nat]
    BY <1>1, <1>3, CopiesPublished DEF SchedulerInv
  <1>5. FaultsSame
    BY <1>1, <1>3, DeferralFacts
  <1>6. Types'
    BY <1>1, <1>3, <1>4, <1>5, NoneIsNothing DEF Types, FaultsSame, PubRow
  <1>7. status'[pub'.msg[1]] # "dispatched"
    BY <1>1, <1>2, <1>3
  <1>8. ASSUME NEW j \in Tasks, Waits(j)' PROVE Waits(j)
    <2>1. status[j] = "dispatched" /\ Current(j)' = Current(j) /\ j # k
      BY <1>3, <1>8 DEF Waits, Current
    <2>2. Current(j) # m /\ Current(j) \in Message
      BY <1>1, <1>2, <2>1, CurrentFacts
    <2>3. ready'[Current(j)] = ready[Current(j)]
      BY <1>1, <1>3, <2>2 DEF Types
    <2>4. QED BY <1>8, <2>1, <2>3 DEF Waits
  <1>9. \A j \in Tasks : Announced(j) => Announced(j)'
    BY <1>3 DEF Announced, PubIdle, Current
  <1>10. QED BY <1>3, <1>4, <1>5, <1>6, <1>7, <1>8, <1>9, PublishStep

\* The dispatcher between its confirm and its mark.
LEMMA PublishedRow ==
    ASSUME SchedulerInv, pub.pc \in {"published", "marked"}
    PROVE  /\ pub.msg \in Message /\ pub.msg # None /\ pub.msg[1] \in Tasks
           /\ TenantOf[pub.msg[1]] \in Tenants
           /\ LET row == [pub EXCEPT !.pc = "marked"] IN
              /\ row.pc = "marked" /\ row.msg = pub.msg
              /\ row \in PubRow
  <1>1. pub \in PubRow /\ pub.msg # None
    BY DEF SchedulerInv, Types
  <1>2. pub.msg \in Message
    BY <1>1 DEF PubRow
  <1>3. QED BY <1>1, <1>2, NoneIsNothing DEF PubRow

\* The mark: what begins to wait is announced by the dispatcher itself.
LEMMA MarkDispatchedStep ==
    ASSUME SchedulerInv, MarkDispatched
    PROVE  StepOK
  <1>1. /\ pub.pc = "published" /\ pub' = [pub EXCEPT !.pc = "marked"]
        /\ UNCHANGED <<coordVars, claims, ready, gate, slot, recon, faults, lost>>
    BY DEF MarkDispatched
  <1>2. /\ pub.msg[1] \in Tasks /\ pub.msg # None /\ pub'.pc = "marked" /\ pub'.msg = pub.msg
        /\ pub' \in PubRow
    BY <1>1, PublishedRow
  <1>3. PICK k \in Tasks : k = pub.msg[1]
    BY <1>2
  <1>4. status' = [status EXCEPT ![k] = IF Claimable(pub.msg) THEN "dispatched" ELSE @]
    BY <1>3 DEF MarkDispatched
  <1>5. Types
    BY DEF SchedulerInv
  <1>6. /\ status' \in [Tasks -> Statuses]
        /\ \A j \in Tasks : \/ status'[j] = status[j]
                            \/ status'[j] = "dispatched" /\ pub.msg = Current(j)
    BY <1>3, <1>4, <1>5 DEF Types, Statuses, Claimable
  <1>7. FaultsSame
    BY <1>1, <1>5, DeferralFacts
  <1>8. Types'
    BY <1>1, <1>2, <1>5, <1>6, <1>7 DEF Types, FaultsSame
  <1>9. \A j \in Tasks : Waits(j)' => Waits(j) \/ Announced(j)'
    BY <1>1, <1>2, <1>6 DEF Waits, Announced, Current
  <1>10. \A j \in Tasks : Announced(j) => Announced(j)'
    BY <1>1 DEF Announced, Current
  <1>11. CopiesBounded'
    BY <1>1, CopiesRest
  <1>12. QED BY <1>1, <1>2, <1>7, <1>8, <1>9, <1>10, <1>11, PublishStep

\* The mark fails.
LEMMA MarkFailedStep ==
    ASSUME SchedulerInv, MarkFailed
    PROVE  StepOK
  <1>1. /\ pub.pc = "published" /\ pub' = [pub EXCEPT !.pc = "marked"] /\ Deferral
        /\ UNCHANGED <<coordVars, status, claims, ready, gate, slot, recon, lost>>
    BY DEF MarkFailed
  <1>2. /\ pub.msg # None /\ pub'.pc = "marked" /\ pub'.msg = pub.msg
        /\ pub' \in PubRow
    BY <1>1, PublishedRow
  <1>3. Types /\ FaultsSame
    BY <1>1, DeferralFacts DEF SchedulerInv
  <1>4. Types'
    BY <1>1, <1>2, <1>3 DEF Types, FaultsSame
  <1>5. \A j \in Tasks : Waits(j)' => Waits(j)
    BY <1>1 DEF Waits, Current
  <1>6. \A j \in Tasks : Announced(j) => Announced(j)'
    BY <1>1 DEF Announced, Current
  <1>7. CopiesBounded'
    BY <1>1, CopiesRest
  <1>8. QED BY <1>1, <1>2, <1>3, <1>4, <1>5, <1>6, <1>7, PublishStep

\* The deadline of the publish passes before the mark.
LEMMA PublishAttemptExpiredStep ==
    ASSUME SchedulerInv, PublishAttemptExpired
    PROVE  StepOK
  <1>1. /\ pub.pc = "published" /\ pub' = PubIdle /\ Deferral
        /\ UNCHANGED <<coordVars, status, claims, ready, gate, slot, recon, lost>>
    BY DEF PublishAttemptExpired, PublishesAgain
  <1>2. Types /\ FaultsSame
    BY <1>1, DeferralFacts DEF SchedulerInv
  <1>3. Types'
    BY <1>1, <1>2 DEF Types, FaultsSame, PubIdle, PubRow
  <1>4. \A j \in Tasks : Waits(j)' => Waits(j)
    BY <1>1 DEF Waits, Current
  <1>5. \A j \in Tasks : Announced(j) => Announced(j)'
    BY <1>1 DEF Announced, Current
  <1>6. CopiesBounded'
    BY <1>1, CopiesRest
  <1>7. QED BY <1>1, <1>2, <1>3, <1>4, <1>5, <1>6, PublishStep DEF PubIdle

\* The activation that the dispatcher owed moves the generation of its tenant, or is
\* lost.
LEMMA ActivateAfterPublishStep ==
    ASSUME SchedulerInv, ActivateAfterPublish \/ ActivateAfterPublishFailed
    PROVE  StepOK
  <1>1. /\ pub.pc = "marked" /\ pub' \in {PubIdle, PubClosed}
        /\ Deferral \/ UNCHANGED faults
        /\ UNCHANGED <<status, claims, ready, gate, slot, recon>>
    BY DEF ActivateAfterPublish, ActivateAfterPublishFailed
  <1>2. PICK t \in Tenants : t = TenantOf[pub.msg[1]]
    BY <1>1, PublishedRow
  <1>3. \/ Activate(t) /\ Activated(t)
        \/ ActivationLost(t) /\ UNCHANGED coordVars
    BY <1>2 DEF ActivateAfterPublish, ActivateAfterPublishFailed
  <1>4. /\ Moves(t) \/ t \in lost'.activations
        /\ active \subseteq active' /\ ReservationsShrink
        /\ reservations' = reservations /\ ScriptStep /\ LostKept
    <2>1. CASE Activate(t) /\ Activated(t)
      BY <2>1, ActivateMoves, LostFacts DEF ScriptStep, SchedulerInv
    <2>2. CASE ActivationLost(t) /\ UNCHANGED coordVars
      <3>1. t \in lost'.activations /\ LostKept
        BY <2>2, LostFacts DEF SchedulerInv
      <3>2. QED BY <2>2, <3>1, RingScript DEF ScriptStep, coordVars, SchedulerInv
    <2>3. QED BY <1>3, <2>1, <2>2
  <1>5. Types /\ FaultsSame
    BY <1>1, DeferralFacts DEF SchedulerInv
  <1>6. Types' /\ pub'.pc # "published"
    BY <1>1, <1>4, <1>5 DEF Types, FaultsSame, LostKept, PubIdle, PubClosed, PubRow
  <1>7. \A j \in Tasks : Waits(j)' => Waits(j)
    BY <1>1 DEF Waits, Current
  <1>8. ASSUME NEW j \in Tasks, Announced(j)
        PROVE  Announced(j)' \/ Moves(TenantOf[j])
    <2>1. CASE TenantOf[j] = t
      BY <1>4, <2>1 DEF Announced
    <2>2. CASE TenantOf[j] # t
      <3>1. pub.msg # Current(j)
        BY <1>2, <1>5, <2>2, CurrentFacts
      <3>2. QED BY <1>1, <1>4, <1>8, <3>1 DEF Announced, LostKept
    <2>3. QED BY <2>1, <2>2
  <1>9. CopiesBounded'
    BY <1>1, CopiesRest
  <1>10. QED
    BY <1>1, <1>4, <1>5, <1>6, <1>7, <1>8, <1>9, DispatchStep DEF LostKept

\* The publisher gate is opened again.
LEMMA OpenPublisherGateStep ==
    ASSUME SchedulerInv, OpenPublisherGate
    PROVE  StepOK
  <1>1. /\ pub = PubClosed /\ pub' = PubIdle
        /\ UNCHANGED <<coordVars, status, claims, ready, gate, slot, recon, faults, lost>>
    BY DEF OpenPublisherGate
  <1>2. Types /\ FaultsSame
    BY <1>1, DeferralFacts DEF SchedulerInv
  <1>3. Types'
    BY <1>1, <1>2 DEF Types, FaultsSame, PubIdle, PubRow
  <1>4. \A j \in Tasks : Waits(j)' => Waits(j)
    BY <1>1 DEF Waits, Current
  <1>5. \A j \in Tasks : Announced(j) => Announced(j)'
    BY <1>1 DEF Announced, Current, PubClosed
  <1>6. CopiesBounded'
    BY <1>1, CopiesRest
  <1>7. QED BY <1>1, <1>2, <1>3, <1>4, <1>5, <1>6, PublishStep DEF PubIdle

(***************************************************************************)
(* Crashes.                                                                 *)
(***************************************************************************)

\* The dispatcher dies: what it had marked is left without its activation.
LEMMA DispatcherCrashStep ==
    ASSUME SchedulerInv, DispatcherCrash
    PROVE  StepOK
  <1>1. /\ faults.crashes < faults.bound.crashes
        /\ faults' = [faults EXCEPT !.crashes = @ + 1] /\ pub' = PubIdle
        /\ pub.pc \in {"published", "marked"}
        /\ UNCHANGED <<coordVars, status, claims, ready, gate, slot, recon>>
    BY DEF DispatcherCrash, PublishesAgain
  <1>2. PICK t \in Tenants : t = TenantOf[pub.msg[1]]
    BY <1>1, PublishedRow
  <1>3. IF pub.pc = "marked" THEN ActivationLost(t) ELSE UNCHANGED lost
    BY <1>2 DEF DispatcherCrash
  <1>4. /\ lost' \in LostRow /\ lost.releases \subseteq lost'.releases
        /\ lost.activations \subseteq lost'.activations
        /\ pub.pc = "marked" => t \in lost'.activations
    BY <1>3, LostFacts DEF LostKept, SchedulerInv
  <1>5. FaultsSame /\ Types
    BY <1>1, CrashFacts DEF SchedulerInv
  <1>6. Types'
    BY <1>1, <1>4, <1>5 DEF Types, FaultsSame, PubIdle, PubRow
  <1>7. \A j \in Tasks : Waits(j)' => Waits(j)
    BY <1>1 DEF Waits, Current
  <1>8. ASSUME NEW j \in Tasks, Announced(j)
        PROVE  Announced(j)'
    <2>1. CASE pub.pc = "marked" /\ pub.msg = Current(j)
      <3>1. TenantOf[j] = t
        BY <1>2, <1>5, <2>1, CurrentFacts
      <3>2. QED BY <1>4, <2>1, <3>1 DEF Announced
    <2>2. CASE ~(pub.pc = "marked" /\ pub.msg = Current(j))
      BY <1>1, <1>4, <1>8, <2>2 DEF Announced
    <2>3. QED BY <2>1, <2>2
  <1>9. CopiesBounded'
    BY <1>1, CopiesRest
  <1>10. QED BY <1>1, <1>4, <1>5, <1>6, <1>7, <1>8, <1>9, PublishStep DEF PubIdle

\* What is left behind by a process that dies.
LEMMA CrashLoses ==
    ASSUME SchedulerInv, NEW p \in Procs, Crash(p)
    PROVE  /\ lost' \in LostRow /\ lost.releases \subseteq lost'.releases
           /\ lost.activations \subseteq lost'.activations
           /\ Unacked(p) \/ slot[p].pc = "nacked" => slot[p].tenant \in lost'.activations
           /\ \A r \in reservations : r.token \in {slot[p].attempt, slot[p].msg} =>
                r.token \in lost'.releases
  <1> DEFINE A == IF Unacked(p) \/ slot[p].pc = "nacked" THEN {slot[p].tenant} ELSE {}
             R == LeftBehind({slot[p].attempt, slot[p].msg})
  <1>1. lost' = [activations |-> lost.activations \cup A, releases |-> lost.releases \cup R]
    BY DEF Crash
  <1>2. A \subseteq Tenants
    <2>1. Unacked(p) \/ slot[p].pc = "nacked" => slot[p].tenant \in Tenants
      BY RowOfInv DEF RowOK, Unacked
    <2>2. QED BY <2>1
  <1>3. /\ R \subseteq Attempts \cup Message
        /\ \A r \in reservations : r.token \in {slot[p].attempt, slot[p].msg} => r.token \in R
    BY RowOfInv DEF LeftBehind
  <1>4. lost \in LostRow
    BY RowOfInv DEF Types
  <1>5. Unacked(p) \/ slot[p].pc = "nacked" => slot[p].tenant \in A
    OBVIOUS
  <1> HIDE DEF A, R
  <1>6. QED BY <1>1, <1>2, <1>3, <1>4, <1>5 DEF LostRow

\* A process dies: the broker has its delivery again, Redis keeps what it held.
LEMMA CrashStep ==
    ASSUME SchedulerInv, NEW p \in Procs, Crash(p)
    PROVE  StepOK
  <1>1. /\ faults.crashes < faults.bound.crashes
        /\ faults' = [faults EXCEPT !.crashes = @ + 1] /\ Idle(p)
        /\ ready' = IF Unacked(p) THEN [ready EXCEPT ![slot[p].msg] = @ + 1] ELSE ready
        /\ UNCHANGED <<coordVars, status, claims, pub, recon>>
        /\ gate' \in [Procs -> BOOLEAN]
    BY GateFacts DEF Crash, SchedulerInv
  <1>2. FaultsSame /\ Types
    BY <1>1, CrashFacts DEF SchedulerInv
  <1>3. Becomes(p, "idle", None, None, None, None) /\ slot[p].msg \in Message \cup {None}
    BY <1>1, IdleFacts, RowOfInv
  <1>4. /\ OneRow(p) /\ RowOK(p)' /\ slot'[p].turn = None /\ slot'[p].msg = None
        /\ ~Unacked(p)' /\ ~Blind(p)' /\ AttemptSpent(p)'
    BY <1>3 DEF Becomes, RowOK, Unacked, Blind, AttemptSpent
  <1>5. CopiesBounded' /\ ready' \in [Message -> Nat]
    <2>1. CASE Unacked(p)
      <3>1. slot[p].msg \in Message
        BY <1>3, <2>1 DEF Unacked
      <3>2. \A q \in Procs \ {p} : slot'[q] = slot[q]
        BY <1>4 DEF OneRow
      <3>3. ready' = [ready EXCEPT ![slot[p].msg] = @ + 1]
        BY <1>1, <2>1
      <3>4. QED BY <1>2, <1>4, <2>1, <3>1, <3>2, <3>3, CopiesReturned DEF SchedulerInv
    <2>2. CASE ~Unacked(p)
      <3>1. NoneTaken
        BY <1>4 DEF NoneTaken, OneRow, Unacked
      <3>2. ready' = ready
        BY <1>1, <2>2
      <3>3. QED BY <1>2, <3>1, <3>2, CopiesKept DEF SchedulerInv, Types
    <2>3. QED BY <2>1, <2>2
  <1>6. Types'
    BY <1>1, <1>2, <1>5, CrashLoses DEF Types, FaultsSame
  <1>7. PassKept /\ FaultsKept
    BY <1>1, <1>2, CrashLoses DEF FaultsSame, PassKept, FaultsKept, SchedulerInv, Decided
  <1>8. NothingHidden'
    <2>1. ASSUME NEW j \in Tasks, Waits(j)' PROVE Waits(j) \/ Announced(j)'
      <3>1. CASE Unacked(p) /\ Current(j) = slot[p].msg
        <4>1. TenantOf[j] = slot[p].tenant
          BY <1>2, <3>1, CurrentFacts, RowOfInv DEF RowOK, Unacked
        <4>2. QED BY <3>1, <4>1, CrashLoses DEF Announced
      <3>2. CASE ~(Unacked(p) /\ Current(j) = slot[p].msg)
        <4>1. ready'[Current(j)] = ready[Current(j)]
          BY <1>1, <1>2, <3>2, CurrentFacts DEF Types
        <4>2. QED BY <1>1, <2>1, <4>1 DEF Waits, Current
      <3>3. QED BY <3>1, <3>2
    <2>2. ASSUME NEW j \in Tasks, Announced(j) PROVE Announced(j)'
      <3>1. CASE slot[p].pc = "nacked" /\ slot[p].tenant = TenantOf[j]
        BY <3>1, CrashLoses DEF Announced
      <3>2. CASE ~(slot[p].pc = "nacked" /\ slot[p].tenant = TenantOf[j])
        BY <1>1, <1>4, <2>2, <3>2, CrashLoses DEF Announced, Current, OneRow
      <3>3. QED BY <3>1, <3>2
    <2>3. pub'.pc = "published" => status'[pub'.msg[1]] # "dispatched"
      BY <1>1 DEF SchedulerInv, NothingHidden
    <2>4. QED BY <1>1, <1>4, <2>1, <2>2, <2>3, MessagesSeen
  <1>9. ~Forgets(p)
    <2>1. reservations' = reservations
      BY <1>1 DEF coordVars
    <2>2. QED BY <2>1, CrashLoses DEF Forgets, Owns
  <1>10. QED BY <1>1, <1>4, <1>5, <1>6, <1>7, <1>8, <1>9, MessageStep

(***************************************************************************)
(* The invariant holds.                                                     *)
(***************************************************************************)

\* At the start nothing is held, ready or announced.
LEMMA SchedulerInit == Init => SchedulerInv
  <1>1. SUFFICES ASSUME Init PROVE SchedulerInv
    OBVIOUS
  <1>2. CoordinatorInv
    BY <1>1, InitInv DEF Init
  <1>3. SlotIdle \in SlotRow /\ slot = [p \in Procs |-> SlotIdle]
    BY <1>1 DEF Init, SlotIdle, SlotRow, SlotPCs
  <1>4. Rows
    BY <1>3 DEF Rows, RowOK, SlotIdle
  <1>5. /\ FaultCounters /\ faults.passes = 0
        /\ status \in [Tasks -> {"pending", "done"}]
    <2>1. PICK b \in Bounds :
            /\ faults = [crashes |-> 0, deferrals |-> 0, redundant |-> 0, passes |-> 0, bound |-> b]
            /\ status = [k \in Tasks |-> IF k \in b.tasks THEN "pending" ELSE "done"]
      BY <1>1 DEF Init
    <2>2. /\ b.crashes \in Nat /\ b.deferrals \in Nat /\ b.redundant \in Nat
          /\ b.passes \in Nat
      BY SchedulerAssumption
    <2>3. QED BY <2>1, <2>2 DEF FaultCounters
  <1>6. Types
    <2>1. /\ claims = [k \in Tasks |-> 0] /\ ready = [m \in Message |-> 0]
          /\ gate = [p \in Procs |-> TRUE] /\ pub = PubIdle /\ recon = ReconIdle
          /\ lost = [activations |-> {}, releases |-> {}]
      BY <1>1 DEF Init
    <2>2. recon \in ReconRow /\ recon.pc = "idle"
      BY <2>1, ReconRows
    <2>3. claims \in [Tasks -> 0..MaxClaims]
      BY <2>1, NoneIsNothing
    <2>4. status \in [Tasks -> Statuses] /\ \A k \in Tasks : status[k] # "claimed"
      BY <1>5 DEF Statuses
    <2>5. QED BY <1>5, <2>1, <2>2, <2>3, <2>4 DEF Types, PubIdle, PubRow, LostRow, ReconRow
  <1>7. reservations = {} /\ ReservationsNamed
    BY <1>1, FS_EmptySet DEF Init, CoordinatorInit, ReservationsNamed
  <1>8. CopiesBounded
    <2>1. SUFFICES ASSUME NEW m \in Message PROVE Copies(m) <= MaxCopies
      BY DEF CopiesBounded
    <2>2. HoldersOf(m) = {} /\ ready[m] = 0
      BY <1>1, <1>3 DEF HoldersOf, Unacked, SlotIdle, Init
    <2>3. QED BY <2>2, HoldersFinite, NoneIsNothing, FS_EmptySet
  <1>9. TurnsHeldNotAhead
    BY <1>3 DEF TurnsHeldNotAhead, SlotIdle
  <1>10. NothingHidden
    <2>1. pub.pc = "idle" /\ \A k \in Tasks : ~Waits(k)
      BY <1>1, <1>5 DEF Init, PubIdle, Waits
    <2>2. \A p \in Procs : ~Deactivates(p)
      BY <1>3 DEF Deactivates, Blind, SlotIdle
    <2>3. QED BY <2>1, <2>2 DEF NothingHidden
  <1>11. Decided
    <2>1. Live = {} /\ \A t \in Tenants : LiveOf(t) = {}
      BY <1>7 DEF Live, LiveOf
    <2>2. WithinLimits
      BY <2>1, FS_EmptySet, CapacityAssumption DEF WithinLimits
    <2>3. QED BY <1>1, <2>2 DEF Decided, Init, ReconIdle
  <1>12. Owned
    BY <1>7 DEF Owned, AttemptSpent, Live
  <1>13. QED
    BY <1>2, <1>4, <1>6, <1>7, <1>8, <1>9, <1>10, <1>11, <1>12 DEF SchedulerInv

\* A step that changes nothing.
LEMMA StutterStep ==
    ASSUME SchedulerInv, UNCHANGED vars
    PROVE  StepOK
  <1>1. /\ UNCHANGED coordVars
        /\ UNCHANGED <<status, claims, ready, gate, pub, slot, recon, faults, lost>>
    BY DEF vars, ownVars
  <1>2. ReservationsShrink /\ active' = active /\ ScriptStep
    BY <1>1, RingScript DEF ScriptStep, coordVars, SchedulerInv
  <1>3. gate' \in [Procs -> BOOLEAN]
    BY <1>1 DEF SchedulerInv, Types
  <1>4. QED BY <1>1, <1>2, <1>3, QuietRest

\* The steps of an attempt.
LEMMA AttemptStep ==
    ASSUME SchedulerInv, NEW p \in Procs, Attempt(p)
    PROVE  StepOK
  BY SchedulerAcquireStep, SchedulerGetOneStep, SchedulerReleaseEmptyStep,
     SchedulerReadyDepthStep, SchedulerRotateStep, PrepareClaimedStep, PrepareTerminalStep,
     PrepareDuplicateStaleStep, EnsureActiveAfterNackStep, ReleaseProvisionalStep,
     WorkerBindStep, WorkerAckStep, WorkerFinishStep, ReleaseStableStep
     DEF Attempt

\* Every step of the loops.
LEMMA LoopStep ==
    ASSUME SchedulerInv, [Next]_vars
    PROVE  StepOK
  <1>1. CASE \E k \in Tasks : PublishMandatoryConfirmed(k)
    BY <1>1, PublishMandatoryConfirmedStep
  <1>2. CASE \/ MarkDispatched \/ MarkFailed
             \/ ActivateAfterPublish \/ ActivateAfterPublishFailed
             \/ PublishAttemptExpired \/ OpenPublisherGate \/ DispatcherCrash
    BY <1>2, MarkDispatchedStep, MarkFailedStep, ActivateAfterPublishStep,
       PublishAttemptExpiredStep, OpenPublisherGateStep, DispatcherCrashStep
  <1>3. ASSUME NEW p \in Procs,
               \/ SchedulerNextTurn(p) \/ Attempt(p)
               \/ SchedulerNextTurnLost(p) \/ SchedulerAcquireLost(p)
               \/ SchedulerGetFailed(p) \/ SchedulerDepthFailed(p) \/ WorkerRunFailed(p)
               \/ SchedulerReleaseEmptyFailed(p) \/ SchedulerRotateLost(p)
               \/ PrepareNackRequeue(p) \/ EnsureActiveFailed(p)
               \/ WorkerBindLost(p) \/ WorkerAbandon(p)
               \/ ReleaseProvisionalFailed(p) \/ ReleaseStableFailed(p)
               \/ WorkerRenew(p) \/ OpenResource(p) \/ Crash(p)
        PROVE  StepOK
    BY <1>3, SchedulerNextTurnStep, AttemptStep, SchedulerNextTurnLostStep,
       SchedulerAcquireLostStep, SchedulerGetFailedStep, SchedulerDepthFailedStep,
       SchedulerReleaseEmptyStep, SchedulerRotateStep, EnsureActiveAfterNackStep,
       ReleaseProvisionalStep, ReleaseStableStep,
       WorkerRunFailedStep, PrepareNackRequeueStep, WorkerBindLostStep, WorkerAbandonStep,
       WorkerRenewStep, OpenResourceStep, CrashStep
  <1>4. CASE \E t \in Tenants : ReconcileReadyDepth(t)
    BY <1>4, ReconcileReadyDepthStep
  <1>5. CASE ReconcileEnsureActive \/ ReconcileListRunning \/ ReconcileStablePass
    BY <1>5, ReconcileEnsureActiveStep, ReconcileListRunningStep, ReconcileListStableStep,
       ReconcileReleaseStep, ReconcileEnsureStableStep DEF ReconcileStablePass
  <1>6. CASE ReconcileReap \/ TimePasses
    BY <1>6, ExpiryStep
  <1>7. CASE \E k \in Tasks : RearmExpired(k)
    BY <1>7, RearmExpiredStep
  <1>8. CASE UNCHANGED vars
    BY <1>8, StutterStep
  <1>9. QED
    BY <1>1, <1>2, <1>3, <1>4, <1>5, <1>6, <1>7, <1>8 DEF Next

\* The inductive invariant of the loops and of the scripts they share: what every
\* process, the dispatcher and the reconciler hold at each of their places, and what
\* they have still to do for it (scheduler.go, runtime.go, dispatcher.go, recovery.go).
THEOREM SchedulerInvariant == Spec => []SchedulerInv
  <1>1. SchedulerInv /\ [Next]_vars => SchedulerInv'
    BY LoopStep, StepKeepsInv
  <1>2. QED BY SchedulerInit, <1>1, PTL DEF Spec

\* The types: the attempts, the rows, at most MaxCopies copies of a message, and every
\* counter below its bound.
THEOREM SchedulerTypes == Spec => []SchedulerTypeOK
  <1>1. SchedulerInv => SchedulerTypeOK
    <2>1. SUFFICES ASSUME SchedulerInv PROVE SchedulerTypeOK
      OBVIOUS
    <2>2. Types /\ CopiesBounded /\ Rows /\ FaultCounters
      BY <2>1 DEF SchedulerInv, Types
    <2>3. ready \in [Message -> 0..MaxCopies]
      <3>1. ASSUME NEW m \in Message PROVE ready[m] \in 0..MaxCopies
        <4>1. ready[m] \in Nat /\ Copies(m) <= MaxCopies /\ MaxCopies \in Nat
          BY <2>2, NoneIsNothing DEF Types, CopiesBounded
        <4>2. QED BY <4>1, HoldersFinite
      <3>2. QED BY <2>2, <3>1 DEF Types
    <2>4. \A p \in Procs :
            /\ slot[p].pc \in SlotPCs /\ slot[p].tenant \in Tenants \cup {None}
            /\ slot[p].turn \in Turn \cup {None} /\ slot[p].attempt \in Attempts \cup {None}
            /\ slot[p].msg \in Message \cup {None} /\ slot[p].hasReady \in BOOLEAN
      BY <2>2, RowFields DEF Rows
    <2>5. faults.bound \in Bounds
          /\ \A c \in {"crashes", "deferrals", "redundant", "passes"} :
               faults[c] \in 0..faults.bound[c]
      BY <2>2, SchedulerAssumption DEF FaultCounters
    <2>6. QED BY <2>2, <2>3, <2>4, <2>5 DEF SchedulerTypeOK, Types, PubRow, LostRow
  <1>2. QED BY <1>1, SchedulerInvariant, PTL

\* No ready message of a dispatched task is hidden, but by an activation that failed or
\* died with its process: a scheduler that found the queue empty deactivates the tenant
\* only if no activation has moved its generation, and whoever published or put back a
\* message activates after it (scheduler.go 371-400, dispatcher.go 580-588, runtime.go
\* 892-918).
THEOREM NoMessageIsHidden == Spec => []NoHiddenMessage
  <1>1. SchedulerInv => NoHiddenMessage
    <2>1. SUFFICES ASSUME SchedulerInv, NEW k \in Tasks,
                          ready[Current(k)] > 0, status[k] = "dispatched"
                   PROVE  \/ TenantOf[k] \in active \/ ActivationUnderway(TenantOf[k])
                          \/ TenantOf[k] \in lost.activations
      BY DEF NoHiddenMessage
    <2>2. TenantOf[k] \in active \/ Announced(k)
      BY <2>1 DEF SchedulerInv, NothingHidden, Waits
    <2>3. Announced(k) =>
            ActivationUnderway(TenantOf[k]) \/ TenantOf[k] \in lost.activations
      <3>1. Current(k)[1] = k
        BY <2>1, CurrentFacts DEF SchedulerInv
      <3>2. QED BY <3>1 DEF Announced, ActivationUnderway
    <2>4. QED BY <2>2, <2>3
  <1>2. QED BY <1>1, SchedulerInvariant, PTL

\* Until the reconciler has rewritten a reservation the limits hold, for any number of
\* processes, tenants and limits (policy.go 22-51).
THEOREM LimitsAreKept == Spec => []CapacityRespected
  <1>1. SchedulerInv => CapacityRespected
    BY DEF SchedulerInv, Decided, WithinLimits, CapacityRespected
  <1>2. QED BY <1>1, SchedulerInvariant, PTL

\* Until the reconciler has rewritten a reservation, every counted one belongs to an
\* attempt in progress, but for those whose release failed or died with its process
\* (scheduler.go 318-378, runtime.go 755-856, 930-953, 1044-1053).
THEOREM NoReservationIsLeft == Spec => []NoReservationLeak
  <1>1. SchedulerInv => NoReservationLeak
    BY DEF SchedulerInv, Owned, Owns, NoReservationLeak
  <1>2. QED BY <1>1, SchedulerInvariant, PTL

\* The loops change the coordination state only as the scripts do: what is proved of
\* every sequence of scripts holds of the whole.
THEOREM LoopsOnlyCallScripts == Spec => CoordinatorSpec
  <1>1. Init => CoordinatorInit
    BY DEF Init
  <1>2. SchedulerInv /\ [Next]_vars => [CoordinatorNext]_coordVars
    BY LoopStep, ScriptIsNext DEF StepOK
  <1>3. QED BY <1>1, <1>2, SchedulerInvariant, PTL DEF Spec, CoordinatorSpec

\* So no script ever answers the loops that the coordination is corrupt, the tenants
\* are served round robin, and the loops see the turns of the abstract queue.
THEOREM LoopsShareFairQueue ==
    Spec => []NoSpuriousCorruption /\ RoundRobin /\ ImplementsTenantQueue
  BY LoopsOnlyCallScripts, CorruptionIsForeign, TurnsAreRoundRobin, ScriptsImplementQueue, PTL
=============================================================================
