---------------------------- MODULE FairTaskProofs ----------------------------
(***************************************************************************)
(* Safety of FairTask for any number of tasks, documents, users and slots,   *)
(* any limits and any bounds on generations and copies.  Whatever a step     *)
(* does, its effect on the three tables is one of the kinds of TableStep;    *)
(* the invariant of the tables follows from the kind, and from it what a     *)
(* step does to one row (RowStep), which is all that the invariants of the   *)
(* lock, the fences, the deliveries and the limits need to know of rows.     *)
(***************************************************************************)
EXTENDS FairTask, FiniteSetTheorems, SequenceTheorems, TLAPS

(***************************************************************************)
(* The inductive invariant.                                                 *)
(***************************************************************************)
TasksOf(d) == {k \in Tasks : DocOf[k] = d}
Unclaimed(k) == row[k].dispatch > row[k].claim

Doc == [version : Nat, active : Nat, status : {"PENDING", "PROCESSING", "DONE", "FAILED"}]

TablesTyped ==
    /\ row \in [Tasks -> Row]
    /\ doc \in [Docs -> Doc]
    /\ versions \in [Docs -> Seq(VersionStatus)]

\* A row by itself.  Only a claim gives a lease, and its generation is the one
\* the row was dispatched under; a delay is given together with a generation.
RowOK(k) ==
    /\ row[k].status = "NONE" => row[k] = NoRow
    /\ row[k].status # "NONE" =>
         row[k].version \in 1..Len(versions[DocOf[k]]) /\ row[k].dispatch > 0
    /\ row[k].claim <= row[k].dispatch
    /\ row[k].status = "PENDING" \/ Unclaimed(k) => ~row[k].live
    /\ row[k].status = "RUNNING" /\ ~Unclaimed(k) => row[k].due

\* What TargetsAgree says of one task.
TargetOK(k) ==
    LET d == DocOf[k]  v == row[k].version IN
    Runnable(k) =>
        /\ doc[d].version = v /\ v = Len(versions[d])
        /\ row[k].status = "RUNNING" =>
             versions[d][v] = "RUNNING" /\ doc[d].status = "PROCESSING" /\ row[k].claim > 0
        /\ row[k].status = "PENDING" =>
             /\ versions[d][v] = IF row[k].claim = 0 /\ row[k].retry = 0
                                   THEN "PENDING" ELSE "FAILED"
             /\ doc[d].status = "PENDING"

\* What VersionsAccounted says of one document; and its tasks have versions of
\* their own, so that only one of them is runnable.
DocOK(d) ==
    /\ \A k \in TasksOf(d) : RowOK(k) /\ TargetOK(k)
    /\ \A j, k \in TasksOf(d) :
         row[j].status # "NONE" /\ row[k].status # "NONE" /\ row[j].version = row[k].version
           => j = k
    /\ doc[d].active <= Len(versions[d])
    /\ \A v \in 1..Len(versions[d]) :
         /\ versions[d][v] \in {"PENDING", "RUNNING"} =>
              \E k \in TasksOf(d) : Runnable(k) /\ row[k].version = v
         /\ versions[d][v] = "DONE" <=> v = doc[d].active
    /\ \A k \in TasksOf(d) : row[k].status = "DONE" =>
         versions[d][row[k].version] \in {"DONE", "RETIRED"}

TablesInv == TablesTyped /\ \A d \in Docs : DocOK(d)

Slot == [pc : {"idle", "held", "claiming", "running", "beating"},
         msg : Message \cup {None}, fence : Fence \cup {None}]
Fenced(w) == slot[w].pc \in {"running", "beating"}
Locking(w) == slot[w].pc \in {"claiming", "beating"}

SlotsTyped ==
    /\ slot \in [Slots -> Slot]
    /\ \A w \in Slots :
         /\ slot[w].pc \in {"held", "claiming"} => slot[w].msg \in Message
         /\ slot[w].pc \in {"idle", "running", "beating"} => slot[w].msg = None
         /\ Fenced(w) => slot[w].fence \in Fence
    /\ capLock \in Slots \cup {None}
    /\ enabled \in SUBSET Users
    /\ faults \in [faults : Nat, reenables : Nat, bound : Bounds]
    /\ faults.faults <= faults.bound.faults /\ faults.reenables <= faults.bound.reenables

\* The lock is held during a claim or a heartbeat, and what was read under it
\* still holds at the commit.
LockInv ==
    /\ \A w \in Slots : Locking(w) <=> capLock = w
    /\ \A w \in Slots : slot[w].pc = "claiming" =>
         Matches(slot[w].msg) /\ ~Exhausted(slot[w].msg[1])
    /\ \A w \in Slots : slot[w].pc = "beating" =>
         LET k == slot[w].fence.task IN row[k].status = "RUNNING" /\ ~Unclaimed(k)

\* A fence is of a generation that its row has reached, and nobody else has it.
FencesInv ==
    /\ \A w \in Slots : Fenced(w) => slot[w].fence.claim <= row[slot[w].fence.task].claim
    /\ \A v, w \in Slots :
         Fenced(v) /\ Fenced(w) /\ slot[v].fence.task = slot[w].fence.task
           /\ slot[v].fence.claim = slot[w].fence.claim => v = w

\* A row that counts on a delivery: it is marked, or about to be.
Candidate(k) == pub.pc # "idle" /\ pub.task = k /\ pub.row.dispatch = row[k].dispatch
Awaited(k) == row[k].dispatched \/ (pub.pc = "published" /\ Candidate(k))

DeliveriesInv ==
    /\ queue \in [Message -> Nat]
    /\ \A m \in Message : Copies(m) <= MaxCopies
    /\ pub \in [pc : {"idle", "listed", "published"}, task : Tasks \cup {None}, row : Row]
    /\ pub.pc # "idle" =>
         /\ pub.task \in Tasks /\ row[pub.task].status # "NONE"
         /\ pub.row.dispatch > 0 /\ pub.row.dispatch <= row[pub.task].dispatch
    /\ \A k \in Tasks : Runnable(k) /\ Unclaimed(k) =>
         /\ Candidate(k) => Due(k)
         /\ Awaited(k) => Due(k) /\ Copies(<<k, row[k].dispatch>>) > 0

\* The row whose claim or renewal was decided and is not committed.
Pending == {k \in Tasks : \E w \in Slots :
              \/ slot[w].pc = "claiming" /\ slot[w].msg[1] = k
              \/ slot[w].pc = "beating" /\ slot[w].fence.task = k}
Occupied == ValidRunning \cup Pending
OccupiedBy(u) == {k \in Occupied : UserOf[DocOf[k]] = u}

\* The limits with the pending row counted.
CapacityInv ==
    faults.reenables = 0 =>
        /\ Cardinality(Occupied) <= GlobalConcurrency
        /\ \A u \in Users : Cardinality(OccupiedBy(u)) <= PerUserBurstConcurrency

IInv == TablesInv /\ SlotsTyped /\ LockInv /\ FencesInv /\ DeliveriesInv /\ CapacityInv

(***************************************************************************)
(* What a step does to a row.                                               *)
(***************************************************************************)
Ended == {"DONE", "FAILED", "SUPERSEDED"}

\* The same work under the same generation: a mark, a lease that ends, a delay
\* that runs out, a tombstone that is closed, or nothing.
KeepsRow(k) ==
    /\ row'[k].status = row[k].status /\ row'[k].version = row[k].version
    /\ row'[k].dispatch = row[k].dispatch /\ row'[k].claim = row[k].claim
    /\ row'[k].retry = row[k].retry
    /\ row[k].status = "NONE" => row'[k] = row[k]
    /\ row'[k].owner # None => row[k].owner # None
    /\ row'[k].live => row[k].live
    /\ row[k].due => row'[k].due
    /\ row'[k].dispatched => Awaited(k)

CreatesRow(k) ==
    row[k].status = "NONE" /\ row'[k] = NewRow(NextVersion(DocOf[k]))

EndsRow(k) ==
    /\ Runnable(k) /\ row'[k].status \in Ended
    /\ row'[k].version = row[k].version
    /\ row'[k].dispatch = row[k].dispatch /\ row'[k].claim = row[k].claim
    /\ row'[k].live => row[k].live

\* A new generation, to be published: of the same work, or of a retry.
RearmsRow(k) ==
    /\ Runnable(k)
    /\ row'[k].status \in {"PENDING", row[k].status}
    /\ row'[k].version = row[k].version /\ row'[k].claim = row[k].claim
    /\ row'[k].dispatch = row[k].dispatch + 1
    /\ ~row'[k].dispatched /\ ~row'[k].live

\* The two commits of the holder of the capacity lock.
ClaimsRow(w, k) ==
    /\ slot[w].pc = "claiming" /\ slot[w].msg[1] = k
    /\ Matches(slot[w].msg)
    /\ row'[k].status = "RUNNING" /\ row'[k].due
    /\ row'[k].dispatch = row[k].dispatch /\ row'[k].claim = row[k].dispatch

RenewsRow(w, k) ==
    /\ slot[w].pc = "beating" /\ slot[w].fence.task = k
    /\ row'[k] = [row[k] EXCEPT !.live = TRUE]

\* While a claim or a heartbeat is open, only its holder changes the runnable rows
\* of its document.
RowStep(k) ==
    \/ KeepsRow(k)
    \/ ~LockedDoc(DocOf[k]) /\ (CreatesRow(k) \/ EndsRow(k) \/ RearmsRow(k))
    \/ \E w \in Slots : capLock' = None /\ (ClaimsRow(w, k) \/ RenewsRow(w, k))

(***************************************************************************)
(* What a step does to the tables.                                          *)
(***************************************************************************)
SameRow(k) == row'[k] = row[k]

\* Only the document d and its tasks change, and its rows are not locked.
OnlyDoc(d) ==
    /\ \A c \in Docs \ {d} : doc'[c] = doc[c] /\ versions'[c] = versions[c]
    /\ \A k \in Tasks : DocOf[k] # d => SameRow(k)

DocIs(d, v, a, s) ==
    doc'[d].version = v /\ doc'[d].active = a /\ doc'[d].status = s

OnlyTask(k) == \A j \in Tasks \ {k} : SameRow(j)

\* No version changes, no document and no status.
TouchesRows ==
    /\ doc' = doc /\ versions' = versions
    /\ \A k \in Tasks :
         /\ row'[k].status = row[k].status /\ row'[k].retry = row[k].retry
         /\ \/ KeepsRow(k)
            \/ ~LockedDoc(DocOf[k]) /\ RearmsRow(k)
            \/ \E w \in Slots : capLock' = None /\ RenewsRow(w, k)

Unbuilt(s) == IF s \in {"PENDING", "RUNNING"} THEN "SUPERSEDED" ELSE s

Supersedes(d, k) ==
    \A j \in TasksOf(d) \ {k} :
        IF Runnable(j) THEN EndsRow(j) /\ row'[j].status # "DONE" ELSE SameRow(j)

\* A new task k for a new version replaces whatever was being built.
OpensVersion(d, k) ==
    /\ k \in TasksOf(d) /\ CreatesRow(k) /\ Supersedes(d, k)
    /\ Len(versions'[d]) = NextVersion(d)
    /\ \A v \in 1..Len(versions[d]) : versions'[d][v] = Unbuilt(versions[d][v])
    /\ versions'[d][NextVersion(d)] = "PENDING"
    /\ DocIs(d, NextVersion(d), doc[d].active, "PENDING")

\* Whatever was being built is given up.
DropsVersion(d) ==
    /\ Supersedes(d, None)
    /\ Len(versions'[d]) = Len(versions[d])
    /\ \A v \in 1..Len(versions[d]) : versions'[d][v] = Unbuilt(versions[d][v])
    /\ DocIs(d, doc[d].version, doc[d].active, doc[d].status)

\* The RUNNING task k fails, or waits for a retry.
FailsVersion(d, k) ==
    /\ k \in TasksOf(d) /\ OnlyTask(k)
    /\ row[k].status = "RUNNING"
    /\ \/ /\ EndsRow(k) /\ row'[k].status = "FAILED"
          /\ DocIs(d, doc[d].version, doc[d].active, "FAILED")
       \/ /\ RearmsRow(k) /\ row'[k].status = "PENDING" /\ row'[k].retry = row[k].retry + 1
          /\ DocIs(d, doc[d].version, doc[d].active, "PENDING")
    /\ Len(versions'[d]) = Len(versions[d])
    /\ \A v \in 1..Len(versions[d]) :
         versions'[d][v] = IF v = row[k].version THEN "FAILED" ELSE versions[d][v]

\* The version of the RUNNING task k replaces the active one.
ActivatesVersion(d, k) ==
    /\ k \in TasksOf(d) /\ OnlyTask(k)
    /\ row[k].status = "RUNNING" /\ EndsRow(k) /\ row'[k].status = "DONE"
    /\ DocIs(d, doc[d].version, row[k].version, "DONE")
    /\ Len(versions'[d]) = Len(versions[d])
    /\ \A v \in 1..Len(versions[d]) :
         versions'[d][v] = CASE v = row[k].version -> "DONE"
                             [] v = doc[d].active -> "RETIRED"
                             [] OTHER -> versions[d][v]

\* The claim of k builds the version of its row, or a fresh one.
BuildsVersion(d, k) ==
    /\ k \in TasksOf(d) /\ OnlyTask(k)
    /\ \E w \in Slots : capLock' = None /\ ClaimsRow(w, k)
    /\ row'[k].version = Len(versions'[d]) /\ versions'[d][Len(versions'[d])] = "RUNNING"
    /\ DocIs(d, row'[k].version, doc[d].active, "PROCESSING")
    /\ Len(versions'[d]) \in {Len(versions[d]), NextVersion(d)}
    /\ \A v \in 1..Len(versions[d]) :
         v # Len(versions'[d]) =>
           versions'[d][v] = IF v # row[k].version THEN versions[d][v]
                               ELSE IF row[k].status = "RUNNING" THEN "SUPERSEDED" ELSE "FAILED"

TableStep ==
    \/ TouchesRows
    \/ \E d \in Docs :
         /\ OnlyDoc(d)
         /\ \/ ~LockedDoc(d) /\ \/ DropsVersion(d)
                                \/ \E k \in Tasks : \/ OpensVersion(d, k) \/ FailsVersion(d, k)
                                                    \/ ActivatesVersion(d, k)
            \/ \E k \in Tasks : BuildsVersion(d, k)

(***************************************************************************)
(* Sequences of version statuses.                                           *)
(***************************************************************************)
LEMMA ElementOfVersions ==
  ASSUME NEW s \in Seq(VersionStatus)
  PROVE  Len(s) \in Nat /\ DOMAIN s = 1..Len(s) /\ \A v \in 1..Len(s) : s[v] \in VersionStatus
<1>1. \A v \in 1..Len(s) : s[v] \in VersionStatus
  BY ElementOfSeq
<1> QED
  BY <1>1, LenProperties

\* A function on 1..n is a sequence of length n.
LEMMA VersionsFunction ==
  ASSUME NEW n \in Nat, NEW f \in [1..n -> VersionStatus]
  PROVE  f \in Seq(VersionStatus) /\ Len(f) = n
<1>1. f \in Seq(VersionStatus)
  BY SeqDef, Zenon
<1>2. Len(f) \in Nat /\ DOMAIN f = 1..Len(f)
  BY <1>1, LenProperties
<1>3. 1..Len(f) = 1..n
  BY <1>2
<1>4. Len(f) = n
  BY <1>2, <1>3, SMT
<1> QED
  BY <1>1, <1>4

\* Appending leaves the earlier versions alone.
LEMMA AppendVersion ==
  ASSUME NEW s \in Seq(VersionStatus), NEW e \in VersionStatus
  PROVE  /\ Append(s, e) \in Seq(VersionStatus)
         /\ Len(Append(s, e)) = Len(s) + 1
         /\ \A v \in 1..Len(s) : Append(s, e)[v] = s[v]
         /\ Append(s, e)[Len(s) + 1] = e
  BY AppendProperties, ElementOfVersions

\* Replacing the status of one version leaves the others alone.
LEMMA ExceptVersion ==
  ASSUME NEW s \in Seq(VersionStatus), NEW i \in 1..Len(s), NEW e \in VersionStatus
  PROVE  /\ [s EXCEPT ![i] = e] \in Seq(VersionStatus)
         /\ Len([s EXCEPT ![i] = e]) = Len(s)
         /\ \A v \in 1..Len(s) : [s EXCEPT ![i] = e][v] = IF v = i THEN e ELSE s[v]
  BY ExceptSeq

(***************************************************************************)
(* Every step is a TableStep: first the steps that change one row.          *)
(***************************************************************************)
LEMMA FreeLock ==
  ASSUME SlotsTyped, LockInv, capLock = None
  PROVE  /\ \A w \in Slots : ~Locking(w)
         /\ \A d \in Docs : ~LockedDoc(d)
<1>1. \A w \in Slots : capLock # w
  BY TaskAssumption
<1>2. \A w \in Slots : ~Locking(w)
  BY <1>1 DEF LockInv
<1> QED
  BY <1>2 DEF Locking, LockedDoc

\* A row that does not change is kept.
LEMMA SameIsKept ==
  ASSUME NEW k \in Tasks, SameRow(k)
  PROVE  KeepsRow(k)
  BY DEF SameRow, KeepsRow, Awaited

\* A step that leaves the tables alone is a TableStep.
LEMMA SameTables ==
  ASSUME TablesTyped, UNCHANGED <<row, doc, versions>>
  PROVE  TablesTyped' /\ TableStep
<1>1. TablesTyped'
  BY DEF TablesTyped
<1>2. \A k \in Tasks : KeepsRow(k)
  BY SameIsKept DEF SameRow
<1>3. TouchesRows
  BY <1>2 DEF TouchesRows
<1> QED
  BY <1>1, <1>3 DEF TableStep

\* So is one that changes one row within its version.
LEMMA TouchedRow ==
  ASSUME TablesTyped, NEW k \in Tasks, NEW r \in Row,
         row' = [row EXCEPT ![k] = r], UNCHANGED <<doc, versions>>,
         r.status = row[k].status, r.retry = row[k].retry,
         \/ KeepsRow(k)
         \/ ~LockedDoc(DocOf[k]) /\ RearmsRow(k)
         \/ \E w \in Slots : capLock' = None /\ RenewsRow(w, k)
  PROVE  TablesTyped' /\ TableStep
<1>1. row' \in [Tasks -> Row] /\ row'[k] = r /\ \A j \in Tasks \ {k} : row'[j] = row[j]
  BY DEF TablesTyped
<1>2. TablesTyped'
  BY <1>1 DEF TablesTyped
<1>3. \A j \in Tasks \ {k} : KeepsRow(j) /\ row'[j].status = row[j].status
                                         /\ row'[j].retry = row[j].retry
  BY <1>1, SameIsKept DEF SameRow
<1>4. TouchesRows
  BY <1>1, <1>3 DEF TouchesRows
<1> QED
  BY <1>2, <1>4 DEF TableStep

\* A row that a sweeper arms again.
LEMMA RearmedTyped ==
  ASSUME NEW r \in Row, r.dispatch < MaxGeneration
  PROVE  /\ Rearmed(r) \in Row
         /\ Rearmed(r).status = r.status /\ Rearmed(r).version = r.version
         /\ Rearmed(r).claim = r.claim /\ Rearmed(r).retry = r.retry
         /\ Rearmed(r).live = r.live /\ Rearmed(r).due = r.due
         /\ Rearmed(r).dispatch = r.dispatch + 1 /\ ~Rearmed(r).dispatched
<1> DEFINE q == [r EXCEPT !.dispatch = r.dispatch + 1]
<1>1. MaxGeneration \in Nat
  BY TaskAssumption
<1>2. /\ q \in Row
      /\ q.status = r.status /\ q.version = r.version /\ q.claim = r.claim
      /\ q.retry = r.retry /\ q.live = r.live /\ q.due = r.due
      /\ q.dispatch = r.dispatch + 1
  BY <1>1 DEF Row
<1>3. Rearmed(r) = [q EXCEPT !.dispatched = FALSE]
  BY DEF Rearmed
<1> HIDE DEF q
<1> QED
  BY <1>2, <1>3 DEF Row

\* What is due and unclaimed or expired is not live.
LEMMA DueNotLive ==
  ASSUME TablesInv, NEW k \in Tasks, Due(k)
  PROVE  Runnable(k) /\ ~row[k].live /\ row[k].due
<1>1. RowOK(k)
  BY TaskAssumption DEF TablesInv, DocOK, TasksOf
<1> QED
  BY <1>1 DEF Due, Runnable, RowOK

\* The sweepers, and maintenance, arm a due row again.
LEMMA ArmedRow ==
  ASSUME TablesInv, NEW k \in Tasks, NEW r \in Row, Due(k), ~LockedDoc(DocOf[k]),
         row[k].dispatch < MaxGeneration,
         r = Rearmed(row[k]) \/ r = [Rearmed(row[k]) EXCEPT !.due = FALSE],
         row' = [row EXCEPT ![k] = r], UNCHANGED <<doc, versions>>
  PROVE  TablesTyped' /\ TableStep
<1>1. row[k] \in Row /\ TablesTyped
  BY DEF TablesInv, TablesTyped
<1>2. /\ r.status = row[k].status /\ r.version = row[k].version /\ r.claim = row[k].claim
      /\ r.retry = row[k].retry /\ r.live = row[k].live /\ r.dispatch = row[k].dispatch + 1
      /\ ~r.dispatched
  <2> DEFINE q == Rearmed(row[k])
  <2>1. /\ q \in Row /\ q.status = row[k].status /\ q.version = row[k].version
        /\ q.claim = row[k].claim /\ q.retry = row[k].retry /\ q.live = row[k].live
        /\ q.dispatch = row[k].dispatch + 1 /\ ~q.dispatched
    BY <1>1, RearmedTyped
  <2>2. r = q \/ r = [q EXCEPT !.due = FALSE]
    OBVIOUS
  <2> HIDE DEF q
  <2> QED
    BY <2>1, <2>2 DEF Row
<1>3. row'[k] = r
  BY <1>1 DEF TablesTyped
<1>4. RearmsRow(k)
  BY <1>2, <1>3, DueNotLive DEF RearmsRow
<1> QED
  BY <1>1, <1>2, <1>4, TouchedRow

\* MarkRAGIndexTaskDispatched: the row is the published candidate.
LEMMA MarkTables ==
  ASSUME TablesInv, DeliveriesInv, Mark
  PROVE  TablesTyped' /\ TableStep
<1> DEFINE k == pub.task
           r == [row[k] EXCEPT !.dispatched = TRUE]
<1>1. TablesTyped /\ k \in Tasks /\ pub.pc = "published"
  BY DEF TablesInv, DeliveriesInv, Mark
<1>2. CASE row[k] = pub.row /\ Dispatchable(k)
  <2>1. row[k] \in Row
    BY <1>1 DEF TablesTyped
  <2>2. row' = [row EXCEPT ![k] = r] /\ UNCHANGED <<doc, versions>>
    BY <1>2 DEF Mark
  <2>3. r \in Row /\ r.status = row[k].status /\ r.retry = row[k].retry
        /\ r.version = row[k].version /\ r.dispatch = row[k].dispatch
        /\ r.claim = row[k].claim /\ r.owner = row[k].owner
        /\ r.live = row[k].live /\ r.due = row[k].due
    BY <2>1 DEF Row
  <2>4. row'[k] = r
    BY <1>1, <2>2 DEF TablesTyped
  <2>5. Awaited(k) /\ row[k].status # "NONE"
    BY <1>1, <1>2 DEF Awaited, Candidate, Dispatchable, Due, Runnable
  <2>6. KeepsRow(k)
    <3> HIDE DEF r, k
    <3> QED
      BY <2>3, <2>4, <2>5 DEF KeepsRow
  <2> HIDE DEF r, k
  <2> QED
    BY <1>1, <2>2, <2>3, <2>6, TouchedRow
<1>3. CASE ~(row[k] = pub.row /\ Dispatchable(k))
  BY <1>1, <1>3, SameTables DEF Mark
<1> QED
  BY <1>2, <1>3

\* The lease sweeper arms an expired claim again.
LEMMA ArmExpiredTables ==
  ASSUME TablesInv, NEW k \in Tasks, ArmExpired(k)
  PROVE  TablesTyped' /\ TableStep
<1>1. row' = [row EXCEPT ![k] = Rearmed(row[k])] /\ UNCHANGED <<doc, versions>>
  BY DEF ArmExpired
<1>2. Rearmed(row[k]) \in Row
  BY RearmedTyped DEF TablesInv, TablesTyped, ArmExpired
<1> QED
  BY <1>1, <1>2, ArmedRow DEF ArmExpired

\* Poison and broker-loss repair arm an unclaimed row again.
LEMMA RearmUnclaimedTables ==
  ASSUME TablesInv, NEW k \in Tasks, RearmUnclaimed(k)
  PROVE  TablesTyped' /\ TableStep
<1>1. row' = [row EXCEPT ![k] = Rearmed(row[k])] /\ UNCHANGED <<doc, versions>>
  BY DEF RearmUnclaimed
<1>2. Rearmed(row[k]) \in Row
  BY RearmedTyped DEF TablesInv, TablesTyped, RearmUnclaimed
<1> QED
  BY <1>1, <1>2, ArmedRow DEF RearmUnclaimed

\* A slot that decides about its delivery: the lock is free, the delivery typed.
LEMMA ClaimingSlot ==
  ASSUME SlotsTyped, LockInv, NEW w \in Slots, Claiming(w)
  PROVE  /\ slot[w].msg \in Message /\ slot[w].msg[1] \in Tasks
         /\ slot[w].msg[2] \in 1..MaxGeneration
         /\ \A d \in Docs : ~LockedDoc(d)
         /\ \A v \in Slots : ~Locking(v)
         /\ DocOf[slot[w].msg[1]] \in Docs
<1>1. slot[w].msg \in Message /\ capLock = None
  BY DEF SlotsTyped, Claiming
<1>2. slot[w].msg[1] \in Tasks /\ slot[w].msg[2] \in 1..MaxGeneration
  BY <1>1 DEF Message
<1> QED
  BY <1>1, <1>2, FreeLock, TaskAssumption

\* A claim deferred for document maintenance arms its row again, later.
LEMMA ClaimMaintenanceTables ==
  ASSUME TablesInv, SlotsTyped, LockInv, NEW w \in Slots, ClaimMaintenance(w)
  PROVE  TablesTyped' /\ TableStep
<1> DEFINE k == slot[w].msg[1]
           r == [Rearmed(row[k]) EXCEPT !.due = FALSE]
<1>1. k \in Tasks /\ ~LockedDoc(DocOf[k])
  BY ClaimingSlot DEF ClaimMaintenance
<1>2. row' = [row EXCEPT ![k] = r] /\ UNCHANGED <<doc, versions>> /\ Due(k)
      /\ row[k].dispatch < MaxGeneration
  BY DEF ClaimMaintenance, Matches
<1>3. r \in Row
  <2>1. row[k] \in Row
    BY <1>1 DEF TablesInv, TablesTyped
  <2>2. Rearmed(row[k]) \in Row
    BY <1>2, <2>1, RearmedTyped
  <2> QED
    BY <2>2 DEF Row
<1>4. r = [Rearmed(row[k]) EXCEPT !.due = FALSE]
  OBVIOUS
<1> HIDE DEF r, k
<1> QED
  BY <1>1, <1>2, <1>3, <1>4, ArmedRow

\* heartbeatRAGIndexTaskFair renews the row it has locked.
LEMMA HeartbeatCommitTables ==
  ASSUME TablesInv, SlotsTyped, NEW w \in Slots, HeartbeatCommit(w)
  PROVE  TablesTyped' /\ TableStep
<1> DEFINE k == slot[w].fence.task
           r == [row[k] EXCEPT !.live = TRUE]
<1>1. slot[w].fence \in Fence /\ TablesTyped
  BY DEF SlotsTyped, HeartbeatCommit, Fenced, TablesInv
<1>2. k \in Tasks
  BY <1>1 DEF Fence
<1>3. row' = [row EXCEPT ![k] = r] /\ UNCHANGED <<doc, versions>> /\ capLock' = None
      /\ slot[w].pc = "beating"
  BY DEF HeartbeatCommit
<1>4. row[k] \in Row
  BY <1>1, <1>2 DEF TablesTyped
<1>5. r \in Row /\ r.status = row[k].status /\ r.retry = row[k].retry
  BY <1>4 DEF Row
<1>6. row'[k] = r
  BY <1>1, <1>2, <1>3 DEF TablesTyped
<1>7. RenewsRow(w, k)
  BY <1>3, <1>6 DEF RenewsRow
<1> HIDE DEF r, k
<1> QED
  BY <1>1, <1>2, <1>3, <1>5, <1>7, TouchedRow

\* A worker that lost its fence closes the tombstone of its claim, at most.
LEMMA QuiesceTables ==
  ASSUME TablesInv, SlotsTyped, NEW w \in Slots, Quiesce(w)
  PROVE  TablesTyped' /\ TableStep
<1> DEFINE k == slot[w].fence.task
           r == Closed(row[k])
<1>1. slot[w].fence \in Fence /\ TablesTyped
  BY DEF SlotsTyped, Quiesce, Fenced, TablesInv
<1>2. k \in Tasks
  BY <1>1 DEF Fence
<1>3. CASE row' = row
  BY <1>1, <1>3, SameTables DEF Quiesce
<1>4. CASE row' # row
  <2>1. row' = [row EXCEPT ![k] = r] /\ UNCHANGED <<doc, versions>>
        /\ row[k].status = "SUPERSEDED"
    BY <1>4 DEF Quiesce
  <2>2. row[k] \in Row
    BY <1>1, <1>2 DEF TablesTyped
  <2>3. r \in Row /\ r.status = row[k].status /\ r.retry = row[k].retry
        /\ r.version = row[k].version /\ r.dispatch = row[k].dispatch
        /\ r.claim = row[k].claim /\ r.owner = None /\ ~r.live
        /\ r.due = row[k].due /\ r.dispatched = row[k].dispatched
    <3> DEFINE q == [row[k] EXCEPT !.owner = None]
    <3>1. q \in Row /\ q.status = row[k].status /\ q.retry = row[k].retry
        /\ q.version = row[k].version /\ q.dispatch = row[k].dispatch
        /\ q.claim = row[k].claim /\ q.owner = None
        /\ q.due = row[k].due /\ q.dispatched = row[k].dispatched
      BY <2>2 DEF Row
    <3>2. r = [q EXCEPT !.live = FALSE]
      BY DEF Closed
    <3> HIDE DEF q, r
    <3> QED
      BY <3>1, <3>2 DEF Row
  <2>4. row'[k] = r
    BY <1>1, <1>2, <2>1 DEF TablesTyped
  <2> HIDE DEF r, k
  <2>5. KeepsRow(k)
    BY <2>1, <2>3, <2>4 DEF KeepsRow, Awaited
  <2> QED
    BY <1>1, <1>2, <2>1, <2>3, <2>5, TouchedRow
<1> QED
  BY <1>3, <1>4

\* A lease runs out.
LEMMA LeaseExpiresTables ==
  ASSUME TablesInv, NEW k \in Tasks, LeaseExpires(k)
  PROVE  TablesTyped' /\ TableStep
<1> DEFINE r == [row[k] EXCEPT !.live = FALSE]
<1>1. row' = [row EXCEPT ![k] = r] /\ UNCHANGED <<doc, versions>> /\ row[k].live
  BY DEF LeaseExpires
<1>2. TablesTyped /\ row[k] \in Row /\ RowOK(k)
  BY TaskAssumption DEF TablesInv, TablesTyped, DocOK, TasksOf
<1>3. row[k].status # "NONE"
  BY <1>1, <1>2 DEF RowOK, NoRow
<1>4. r \in Row /\ r.status = row[k].status /\ r.retry = row[k].retry
      /\ r.version = row[k].version /\ r.dispatch = row[k].dispatch
      /\ r.claim = row[k].claim /\ r.owner = row[k].owner /\ ~r.live
      /\ r.due = row[k].due /\ r.dispatched = row[k].dispatched
  BY <1>2 DEF Row
<1>5. row'[k] = r
  BY <1>1, <1>2 DEF TablesTyped
<1> HIDE DEF r
<1>6. KeepsRow(k)
  BY <1>3, <1>4, <1>5 DEF KeepsRow, Awaited
<1> QED
  BY <1>1, <1>2, <1>4, <1>6, TouchedRow

\* A retry delay runs out.
LEMMA NextRunDueTables ==
  ASSUME TablesInv, NEW k \in Tasks, NextRunDue(k)
  PROVE  TablesTyped' /\ TableStep
<1> DEFINE r == [row[k] EXCEPT !.due = TRUE]
<1>1. row' = [row EXCEPT ![k] = r] /\ UNCHANGED <<doc, versions>> /\ ~row[k].due
  BY DEF NextRunDue
<1>2. TablesTyped /\ row[k] \in Row /\ RowOK(k)
  BY TaskAssumption DEF TablesInv, TablesTyped, DocOK, TasksOf
<1>3. row[k].status # "NONE"
  BY <1>1, <1>2 DEF RowOK, NoRow
<1>4. r \in Row /\ r.status = row[k].status /\ r.retry = row[k].retry
      /\ r.version = row[k].version /\ r.dispatch = row[k].dispatch
      /\ r.claim = row[k].claim /\ r.owner = row[k].owner /\ r.live = row[k].live
      /\ r.due /\ r.dispatched = row[k].dispatched
  BY <1>2 DEF Row
<1>5. row'[k] = r
  BY <1>1, <1>2 DEF TablesTyped
<1> HIDE DEF r
<1>6. KeepsRow(k)
  BY <1>3, <1>4, <1>5 DEF KeepsRow, Awaited
<1> QED
  BY <1>1, <1>2, <1>4, <1>6, TouchedRow

(***************************************************************************)
(* The steps that change a document with its versions and tasks.            *)
(***************************************************************************)
WithStatus(f, d, s) == [f EXCEPT ![d].status = s]

\* The fields of a document whose status is set.
LEMMA DocStatus ==
  ASSUME NEW f \in [Docs -> Doc], NEW d \in Docs,
         NEW s \in {"PENDING", "PROCESSING", "DONE", "FAILED"}
  PROVE  LET h == WithStatus(f, d, s) IN
         /\ h \in [Docs -> Doc]
         /\ h[d].version = f[d].version /\ h[d].active = f[d].active /\ h[d].status = s
         /\ \A c \in Docs \ {d} : h[c] = f[c]
  BY DEF Doc, WithStatus

AtVersion(f, d, v, s) == [f EXCEPT ![d].version = v, ![d].status = s]

\* The fields of a document that is moved to a version.
LEMMA DocVersionStatus ==
  ASSUME NEW f \in [Docs -> Doc], NEW d \in Docs, NEW v \in Nat,
         NEW s \in {"PENDING", "PROCESSING", "DONE", "FAILED"}
  PROVE  LET h == AtVersion(f, d, v, s) IN
         /\ h \in [Docs -> Doc]
         /\ h[d].version = v /\ h[d].active = f[d].active /\ h[d].status = s
         /\ \A c \in Docs \ {d} : h[c] = f[c]
<1> DEFINE g == [f EXCEPT ![d].version = v]
           h == AtVersion(f, d, v, s)
<1>1. g \in [Docs -> Doc] /\ g[d].version = v /\ g[d].active = f[d].active
      /\ \A c \in Docs \ {d} : g[c] = f[c]
  BY DEF Doc
<1>2. h = [g EXCEPT ![d].status = s]
  BY DEF AtVersion
<1> HIDE DEF g, h
<1>3. /\ h \in [Docs -> Doc]
      /\ h[d].version = v /\ h[d].active = f[d].active /\ h[d].status = s
      /\ \A c \in Docs \ {d} : h[c] = f[c]
  BY <1>1, <1>2 DEF Doc
<1> QED
  BY <1>3 DEF h

WithActive(f, d, a, s) == [f EXCEPT ![d].active = a, ![d].status = s]

\* The fields of a document whose active version is replaced.
LEMMA DocActiveStatus ==
  ASSUME NEW f \in [Docs -> Doc], NEW d \in Docs, NEW a \in Nat,
         NEW s \in {"PENDING", "PROCESSING", "DONE", "FAILED"}
  PROVE  LET h == WithActive(f, d, a, s) IN
         /\ h \in [Docs -> Doc]
         /\ h[d].version = f[d].version /\ h[d].active = a /\ h[d].status = s
         /\ \A c \in Docs \ {d} : h[c] = f[c]
<1> DEFINE g == [f EXCEPT ![d].active = a]
           h == WithActive(f, d, a, s)
<1>1. g \in [Docs -> Doc] /\ g[d].active = a /\ g[d].version = f[d].version
      /\ \A c \in Docs \ {d} : g[c] = f[c]
  BY DEF Doc
<1>2. h = [g EXCEPT ![d].status = s]
  BY DEF WithActive
<1> HIDE DEF g, h
<1>3. /\ h \in [Docs -> Doc]
      /\ h[d].version = f[d].version /\ h[d].active = a /\ h[d].status = s
      /\ \A c \in Docs \ {d} : h[c] = f[c]
  BY <1>1, <1>2 DEF Doc
<1> QED
  BY <1>3 DEF h

\* What a document's invariant says of one of its tasks.
LEMMA TaskFacts ==
  ASSUME TablesInv, NEW k \in Tasks
  PROVE  /\ DocOf[k] \in Docs /\ k \in TasksOf(DocOf[k]) /\ DocOK(DocOf[k])
         /\ RowOK(k) /\ TargetOK(k) /\ row[k] \in Row
         /\ doc[DocOf[k]] \in Doc /\ versions[DocOf[k]] \in Seq(VersionStatus)
<1>1. DocOf[k] \in Docs
  BY TaskAssumption
<1>2. k \in TasksOf(DocOf[k])
  BY DEF TasksOf
<1> QED
  BY <1>1, <1>2 DEF TablesInv, TablesTyped, DocOK

\* A document has one runnable task.
LEMMA OneRunnable ==
  ASSUME TablesInv, NEW j \in Tasks, NEW k \in Tasks, DocOf[j] = DocOf[k],
         Runnable(j), Runnable(k)
  PROVE  j = k
<1>1. row[j].version = row[k].version /\ row[j].status # "NONE" /\ row[k].status # "NONE"
  BY TaskFacts DEF TargetOK, Runnable
<1>2. j \in TasksOf(DocOf[k]) /\ k \in TasksOf(DocOf[k]) /\ DocOK(DocOf[k])
  BY TaskFacts DEF TasksOf
<1> QED
  BY <1>1, <1>2 DEF DocOK

\* supersedeRunnableRAGTasksInTx: the runnable rows of the document, and no other.
LEMMA SupersededRows ==
  ASSUME TablesTyped, NEW d \in Docs
  PROVE  /\ Superseded(d) \in [Tasks -> Row]
         /\ \A k \in Tasks :
              IF DocOf[k] = d /\ Runnable(k)
                THEN /\ Superseded(d)[k].status = "SUPERSEDED"
                     /\ Superseded(d)[k].version = row[k].version
                     /\ Superseded(d)[k].dispatch = row[k].dispatch
                     /\ Superseded(d)[k].claim = row[k].claim
                     /\ Superseded(d)[k].live = row[k].live
                ELSE Superseded(d)[k] = row[k]
<1> DEFINE Q(k) == [row[k] EXCEPT !.status = "SUPERSEDED"]
           R(k) == [row[k] EXCEPT !.status = "SUPERSEDED", !.due = TRUE]
<1>1. ASSUME NEW k \in Tasks
      PROVE  /\ Q(k) \in Row /\ Q(k).status = "SUPERSEDED" /\ Q(k).version = row[k].version
             /\ Q(k).dispatch = row[k].dispatch /\ Q(k).claim = row[k].claim
             /\ Q(k).live = row[k].live
  BY DEF Row, TablesTyped
<1>2. \A k \in Tasks : R(k) = [Q(k) EXCEPT !.due = TRUE]
  OBVIOUS
<1>3. Superseded(d) = [k \in Tasks |-> IF DocOf[k] = d /\ Runnable(k) THEN R(k) ELSE row[k]]
  BY DEF Superseded
<1> HIDE DEF Q, R
<1>4. ASSUME NEW k \in Tasks
      PROVE  /\ R(k) \in Row /\ R(k).status = "SUPERSEDED" /\ R(k).version = row[k].version
             /\ R(k).dispatch = row[k].dispatch /\ R(k).claim = row[k].claim
             /\ R(k).live = row[k].live
  BY <1>1, <1>2 DEF Row
<1> QED
  BY <1>3, <1>4 DEF TablesTyped

\* The versions those rows were building are superseded with them.
LEMMA SupersededVersionsOK ==
  ASSUME TablesInv, NEW d \in Docs
  PROVE  /\ SupersededVersions(d) \in Seq(VersionStatus)
         /\ Len(SupersededVersions(d)) = Len(versions[d])
         /\ \A v \in 1..Len(versions[d]) : SupersededVersions(d)[v] = Unbuilt(versions[d][v])
<1>1. versions[d] \in Seq(VersionStatus) /\ DocOK(d)
  BY DEF TablesInv, TablesTyped
<1>2. Len(versions[d]) \in Nat /\ \A v \in 1..Len(versions[d]) : versions[d][v] \in VersionStatus
  BY <1>1, ElementOfVersions
<1>3. \A v \in 1..Len(versions[d]) : SupersededVersions(d)[v] = Unbuilt(versions[d][v])
  BY <1>1 DEF SupersededVersions, Unbuilt, DocOK, TasksOf
<1>4. \A v \in 1..Len(versions[d]) : SupersededVersions(d)[v] \in VersionStatus
  BY <1>2, <1>3 DEF Unbuilt, VersionStatus
<1>5. SupersededVersions(d) \in [1..Len(versions[d]) -> VersionStatus]
  BY <1>4 DEF SupersededVersions
<1> QED
  BY <1>2, <1>3, <1>5, VersionsFunction

\* The fields of the row createRAGIndexTaskForVersion inserts.
LEMMA NewRowOK ==
  ASSUME NEW v \in Nat
  PROVE  /\ NewRow(v) \in Row
         /\ NewRow(v).status = "PENDING" /\ NewRow(v).version = v /\ NewRow(v).dispatch = 1
         /\ NewRow(v).claim = 0 /\ ~NewRow(v).dispatched /\ NewRow(v).owner = None
         /\ ~NewRow(v).live /\ NewRow(v).due /\ NewRow(v).retry = 0
<1> DEFINE q == [NoRow EXCEPT !.status = "PENDING"]
           r == [NoRow EXCEPT !.status = "PENDING", !.version = v]
<1>1. 1 \in 0..MaxGeneration /\ 0 \in 0..MaxGeneration /\ 0 \in 0..MaxRetry
  BY TaskAssumption
<1>2. /\ q \in Row /\ q.status = "PENDING" /\ q.claim = 0 /\ ~q.dispatched /\ q.owner = None
      /\ ~q.live /\ q.due /\ q.retry = 0
  BY <1>1 DEF NoRow, Row
<1>3. r = [q EXCEPT !.version = v]
  OBVIOUS
<1>4. NewRow(v) = [r EXCEPT !.dispatch = 1]
  BY DEF NewRow
<1> HIDE DEF q, r
<1>5. /\ r \in Row /\ r.status = "PENDING" /\ r.version = v /\ r.claim = 0
      /\ ~r.dispatched /\ r.owner = None /\ ~r.live /\ r.due /\ r.retry = 0
  BY <1>2, <1>3 DEF Row
<1> QED
  BY <1>1, <1>4, <1>5 DEF Row

\* The versions of one document are replaced.
LEMMA VersionsSet ==
  ASSUME TablesTyped, NEW d \in Docs, NEW s \in Seq(VersionStatus),
         versions' = [versions EXCEPT ![d] = s]
  PROVE  /\ versions' \in [Docs -> Seq(VersionStatus)] /\ versions'[d] = s
         /\ \A c \in Docs \ {d} : versions'[c] = versions[c]
  BY DEF TablesTyped

\* A new version and its task replace whatever was being built.
LEMMA AdvanceTables ==
  ASSUME TablesInv, NEW k \in Tasks, AdvanceDocumentVersionAndCreateTask(k)
  PROVE  TablesTyped' /\ TableStep
<1> DEFINE d == DocOf[k]
           n == NextVersion(d)
<1>1. TablesTyped /\ d \in Docs /\ k \in TasksOf(d) /\ versions[d] \in Seq(VersionStatus)
  BY TaskFacts DEF TablesInv
<1>2. Len(versions[d]) \in Nat /\ n \in Nat /\ n = Len(versions[d]) + 1
  BY <1>1, ElementOfVersions DEF NextVersion
<1>3. row[k].status = "NONE" /\ ~LockedDoc(d) /\ row' = [Superseded(d) EXCEPT ![k] = NewRow(n)]
  BY DEF AdvanceDocumentVersionAndCreateTask
<1>4. versions' = [versions EXCEPT ![d] = Append(SupersededVersions(d), "PENDING")]
      /\ doc' = [doc EXCEPT ![d].version = n, ![d].status = "PENDING"]
  BY DEF AdvanceDocumentVersionAndCreateTask
<1> HIDE DEF d, n
<1>5. /\ doc' \in [Docs -> Doc] /\ DocIs(d, n, doc[d].active, "PENDING")
      /\ \A c \in Docs \ {d} : doc'[c] = doc[c]
  <2>1. doc' = AtVersion(doc, d, n, "PENDING")
    BY <1>4 DEF AtVersion
  <2> QED
    BY <1>1, <1>2, <2>1, DocVersionStatus DEF DocIs, TablesTyped
<1>6. /\ SupersededVersions(d) \in Seq(VersionStatus)
      /\ Len(SupersededVersions(d)) = Len(versions[d])
      /\ \A v \in 1..Len(versions[d]) : SupersededVersions(d)[v] = Unbuilt(versions[d][v])
  BY <1>1, SupersededVersionsOK
<1>7. "PENDING" \in VersionStatus
  BY DEF VersionStatus
<1>8. /\ versions' \in [Docs -> Seq(VersionStatus)]
      /\ versions'[d] = Append(SupersededVersions(d), "PENDING")
      /\ \A c \in Docs \ {d} : versions'[c] = versions[c]
  BY <1>1, <1>4, <1>6, <1>7, AppendVersion, VersionsSet
<1>9. /\ Len(versions'[d]) = n /\ versions'[d][n] = "PENDING"
      /\ \A v \in 1..Len(versions[d]) : versions'[d][v] = Unbuilt(versions[d][v])
  BY <1>2, <1>6, <1>7, <1>8, AppendVersion
<1>10. row' \in [Tasks -> Row] /\ row'[k] = NewRow(n)
       /\ \A j \in Tasks \ {k} : row'[j] = Superseded(d)[j]
  BY <1>1, <1>2, <1>3, SupersededRows, NewRowOK
<1>11. TablesTyped'
  BY <1>5, <1>8, <1>10 DEF TablesTyped
<1>12. Supersedes(d, k)
  <2>1. SUFFICES ASSUME NEW j \in Tasks, DocOf[j] = d, j # k
                 PROVE  IF Runnable(j) THEN EndsRow(j) /\ row'[j].status # "DONE" ELSE SameRow(j)
    BY DEF Supersedes, TasksOf
  <2>2. row'[j] = Superseded(d)[j]
    BY <1>10, <2>1
  <2> QED
    BY <1>1, <2>1, <2>2, SupersededRows DEF EndsRow, SameRow, Ended
<1>13. OnlyDoc(d)
  <2>1. \A j \in Tasks : DocOf[j] # d => SameRow(j)
    BY <1>1, <1>10, SupersededRows DEF SameRow, TasksOf
  <2> QED
    BY <2>1, <1>5, <1>8 DEF OnlyDoc
<1>14. OpensVersion(d, k)
  BY <1>1, <1>3, <1>5, <1>9, <1>10, <1>12 DEF OpensVersion, CreatesRow, n, d
<1> QED
  BY <1>1, <1>3, <1>11, <1>13, <1>14 DEF TableStep

\* A claim for a disabled owner supersedes the tasks of the document.
LEMMA ClaimInactiveOwnerTables ==
  ASSUME TablesInv, SlotsTyped, LockInv, NEW w \in Slots, ClaimInactiveOwner(w)
  PROVE  TablesTyped' /\ TableStep
<1> DEFINE d == DocOf[slot[w].msg[1]]
<1>1. TablesTyped /\ d \in Docs /\ ~LockedDoc(d)
  BY ClaimingSlot DEF ClaimInactiveOwner, TablesInv
<1>2. row' = Superseded(d) /\ versions' = [versions EXCEPT ![d] = SupersededVersions(d)]
      /\ doc' = doc
  BY DEF ClaimInactiveOwner
<1> HIDE DEF d
<1>3. /\ SupersededVersions(d) \in Seq(VersionStatus)
      /\ Len(SupersededVersions(d)) = Len(versions[d])
      /\ \A v \in 1..Len(versions[d]) : SupersededVersions(d)[v] = Unbuilt(versions[d][v])
  BY <1>1, SupersededVersionsOK
<1>4. /\ versions' \in [Docs -> Seq(VersionStatus)] /\ versions'[d] = SupersededVersions(d)
      /\ \A c \in Docs \ {d} : versions'[c] = versions[c]
  BY <1>1, <1>2, <1>3, VersionsSet
<1>5. TablesTyped'
  BY <1>1, <1>2, <1>4, SupersededRows DEF TablesTyped
<1>6. OnlyDoc(d)
  BY <1>1, <1>2, <1>4, SupersededRows DEF OnlyDoc, SameRow
<1>7. Supersedes(d, None)
  BY <1>1, <1>2, SupersededRows DEF Supersedes, EndsRow, SameRow, Ended, TasksOf
<1>8. DropsVersion(d)
  BY <1>2, <1>3, <1>4, <1>7 DEF DropsVersion, DocIs
<1> QED
  BY <1>1, <1>5, <1>6, <1>8 DEF TableStep

\* The fence of a slot, and what lockRAGIndexFence found of it.
LEMMA FencedSlot ==
  ASSUME SlotsTyped, NEW w \in Slots, Fenced(w)
  PROVE  /\ slot[w].fence \in Fence /\ slot[w].fence.task \in Tasks
         /\ slot[w].fence.version \in Nat /\ slot[w].fence.claim \in 1..MaxGeneration
         /\ DocOf[slot[w].fence.task] \in Docs
<1>1. slot[w].fence \in Fence
  BY DEF SlotsTyped
<1>2. slot[w].fence.task \in Tasks
  BY <1>1 DEF Fence
<1> QED
  BY <1>1, <1>2, TaskAssumption DEF Fence

\* What the fenced transactions of a slot know of its task.
LEMMA FenceTxSlot ==
  ASSUME TablesInv, SlotsTyped, NEW w \in Slots, FenceTx(w)
  PROVE  LET k == slot[w].fence.task  d == DocOf[k] IN
         /\ k \in Tasks /\ k \in TasksOf(d) /\ d \in Docs /\ ~LockedDoc(d)
         /\ row[k].status = "RUNNING" /\ Runnable(k) /\ row[k] \in Row
         /\ row[k].version = slot[w].fence.version
         /\ versions[d] \in Seq(VersionStatus) /\ row[k].version \in 1..Len(versions[d])
<1>1. slot[w].fence.task \in Tasks
  BY FencedSlot DEF FenceTx, Fenced
<1> QED
  BY <1>1, TaskFacts DEF FenceTx, LiveFence, Runnable, RowOK

\* The row a transaction closes.
LEMMA ClosedTyped ==
  ASSUME NEW r \in Row, NEW s \in {"DONE", "FAILED", "SUPERSEDED"}
  PROVE  LET c == [Closed(r) EXCEPT !.status = s] IN
         /\ Closed(r) \in Row /\ Closed(r).dispatch = r.dispatch /\ Closed(r).retry = r.retry
         /\ Closed(r).version = r.version /\ Closed(r).claim = r.claim
         /\ Closed(r).owner = None /\ ~Closed(r).live
         /\ c \in Row /\ c.status = s /\ c.version = r.version
         /\ c.dispatch = r.dispatch /\ c.claim = r.claim /\ ~c.live
<1> DEFINE q == [r EXCEPT !.owner = None]
           c == [Closed(r) EXCEPT !.status = s]
<1>1. /\ q \in Row /\ q.version = r.version /\ q.dispatch = r.dispatch /\ q.claim = r.claim
      /\ q.retry = r.retry /\ q.owner = None
  BY DEF Row
<1>2. Closed(r) = [q EXCEPT !.live = FALSE]
  BY DEF Closed
<1> HIDE DEF q
<1>3. /\ Closed(r) \in Row /\ Closed(r).dispatch = r.dispatch /\ Closed(r).retry = r.retry
      /\ Closed(r).version = r.version /\ Closed(r).claim = r.claim
      /\ Closed(r).owner = None /\ ~Closed(r).live
  BY <1>1, <1>2 DEF Row
<1>4. /\ c \in Row /\ c.status = s /\ c.version = r.version
      /\ c.dispatch = r.dispatch /\ c.claim = r.claim /\ ~c.live
  BY <1>3 DEF Row
<1> QED
  BY <1>3, <1>4

\* One row, one version and the document change together.
WritesOne(k, d, r, s) ==
    /\ row' = [row EXCEPT ![k] = r] /\ versions' = [versions EXCEPT ![d] = s]
    /\ doc' \in [Docs -> Doc] /\ \A c \in Docs \ {d} : doc'[c] = doc[c]

\* A transaction that writes one row, its document and its versions.
LEMMA OneVersion ==
  ASSUME TablesTyped, NEW k \in Tasks, NEW d \in Docs, DocOf[k] = d,
         NEW r \in Row, NEW s \in Seq(VersionStatus), WritesOne(k, d, r, s)
  PROVE  TablesTyped' /\ OnlyDoc(d) /\ OnlyTask(k) /\ row'[k] = r /\ versions'[d] = s
<1>1. row' \in [Tasks -> Row] /\ row'[k] = r /\ \A j \in Tasks \ {k} : row'[j] = row[j]
  BY DEF TablesTyped, WritesOne
<1>2. /\ versions' \in [Docs -> Seq(VersionStatus)] /\ versions'[d] = s
      /\ \A c \in Docs \ {d} : versions'[c] = versions[c]
  BY VersionsSet DEF WritesOne
<1> QED
  BY <1>1, <1>2 DEF TablesTyped, OnlyDoc, OnlyTask, SameRow, WritesOne

\* FailRAGIndexTask ends the task and fails its version.
LEMMA FailTables ==
  ASSUME TablesInv, SlotsTyped, NEW w \in Slots, Fail(w)
  PROVE  TablesTyped' /\ TableStep
<1> DEFINE k == slot[w].fence.task
           d == DocOf[k]
           r == [Closed(row[k]) EXCEPT !.status = "FAILED"]
           s == [versions[d] EXCEPT ![row[k].version] = "FAILED"]
<1>0. DocOf[k] = d
  OBVIOUS
<1>1. /\ k \in Tasks /\ k \in TasksOf(d) /\ d \in Docs /\ ~LockedDoc(d)
      /\ row[k].status = "RUNNING" /\ Runnable(k) /\ row[k] \in Row
      /\ row[k].version = slot[w].fence.version
      /\ versions[d] \in Seq(VersionStatus) /\ row[k].version \in 1..Len(versions[d])
  BY FenceTxSlot DEF Fail
<1>2. /\ row' = [row EXCEPT ![k] = r] /\ versions' = [versions EXCEPT ![d] = s]
      /\ doc' = WithStatus(doc, d, "FAILED")
  BY <1>1 DEF Fail, WithStatus
<1>3. /\ r \in Row /\ r.status = "FAILED" /\ r.version = row[k].version
      /\ r.dispatch = row[k].dispatch /\ r.claim = row[k].claim /\ ~r.live
  BY <1>1, ClosedTyped
<1>4. /\ s \in Seq(VersionStatus) /\ Len(s) = Len(versions[d])
      /\ \A v \in 1..Len(versions[d]) :
           s[v] = IF v = row[k].version THEN "FAILED" ELSE versions[d][v]
  BY <1>1, ExceptVersion DEF VersionStatus
<1> HIDE DEF r, s, d, k
<1>5. /\ doc' \in [Docs -> Doc] /\ DocIs(d, doc[d].version, doc[d].active, "FAILED")
      /\ \A c \in Docs \ {d} : doc'[c] = doc[c]
  <2>1. doc \in [Docs -> Doc]
    BY DEF TablesInv, TablesTyped
  <2> QED
    BY <1>1, <1>2, <2>1, DocStatus DEF DocIs
<1>6. TablesTyped' /\ OnlyDoc(d) /\ OnlyTask(k) /\ row'[k] = r /\ versions'[d] = s
  <2>1. WritesOne(k, d, r, s)
    BY <1>1, <1>2, <1>3, <1>4, <1>5 DEF WritesOne
  <2> QED
    BY <1>1, <1>2, <1>3, <1>4, <1>5, <1>0, <2>1, OneVersion DEF TablesInv
<1>7. EndsRow(k)
  BY <1>1, <1>3, <1>6 DEF EndsRow, Ended
<1>8. FailsVersion(d, k)
  BY <1>1, <1>3, <1>4, <1>5, <1>6, <1>7 DEF FailsVersion
<1> QED
  BY <1>1, <1>6, <1>8 DEF TableStep

\* failInvalidRAGTaskInTx ends a task without retries and fails its version.
LEMMA ClaimExhaustedTables ==
  ASSUME TablesInv, SlotsTyped, LockInv, NEW w \in Slots, ClaimExhausted(w)
  PROVE  TablesTyped' /\ TableStep /\ row'[slot[w].msg[1]].status = "FAILED"
<1> DEFINE k == slot[w].msg[1]
           d == DocOf[k]
           p == [row EXCEPT ![k].status = "FAILED"]
           q == [row EXCEPT ![k].status = "FAILED", ![k].owner = None]
           s == [versions[d] EXCEPT ![row[k].version] = "FAILED"]
<1>1. /\ k \in Tasks /\ d \in Docs /\ ~LockedDoc(d)
      /\ row[k].status = "RUNNING" /\ Due(k)
  BY ClaimingSlot, Zenon DEF ClaimExhausted, Eligible, Exhausted, Matches
<1>2. /\ k \in TasksOf(d) /\ row[k] \in Row /\ versions[d] \in Seq(VersionStatus)
      /\ row[k].version \in 1..Len(versions[d])
  BY <1>1, TaskFacts DEF RowOK
<1>3. /\ row' = [q EXCEPT ![k].live = FALSE] /\ versions' = [versions EXCEPT ![d] = s]
      /\ doc' = WithStatus(doc, d, "FAILED")
  <2>1. row' = [q EXCEPT ![k].live = FALSE]
    BY Zenon DEF ClaimExhausted
  <2>2. versions' = [versions EXCEPT ![d] = s]
    BY Zenon DEF ClaimExhausted
  <2>3. doc' = WithStatus(doc, d, "FAILED")
    BY Zenon DEF ClaimExhausted, WithStatus
  <2> HIDE DEF k, d, p, q, s
  <2> QED
    BY <2>1, <2>2, <2>3
<1>4. /\ p \in [Tasks -> Row] /\ p[k].status = "FAILED" /\ p[k].version = row[k].version
      /\ p[k].dispatch = row[k].dispatch /\ p[k].claim = row[k].claim
      /\ \A j \in Tasks \ {k} : p[j] = row[j]
  BY <1>1, <1>2 DEF Row, TablesInv, TablesTyped
<1>5. q = [p EXCEPT ![k].owner = None]
  OBVIOUS
<1>6. /\ s \in Seq(VersionStatus) /\ Len(s) = Len(versions[d])
      /\ \A v \in 1..Len(versions[d]) :
           s[v] = IF v = row[k].version THEN "FAILED" ELSE versions[d][v]
  <2>1. "FAILED" \in VersionStatus
    BY DEF VersionStatus
  <2> QED
    BY <1>2, <2>1, ExceptVersion
<1> HIDE DEF s, d, k, p, q
<1>7. /\ q \in [Tasks -> Row] /\ q[k].status = "FAILED" /\ q[k].version = row[k].version
      /\ q[k].dispatch = row[k].dispatch /\ q[k].claim = row[k].claim
      /\ \A j \in Tasks \ {k} : q[j] = row[j]
  BY <1>1, <1>4, <1>5 DEF Row
<1>8. /\ row' \in [Tasks -> Row] /\ row'[k].status = "FAILED"
      /\ row'[k].version = row[k].version /\ row'[k].dispatch = row[k].dispatch
      /\ row'[k].claim = row[k].claim /\ ~row'[k].live
      /\ \A j \in Tasks \ {k} : row'[j] = row[j]
  BY <1>1, <1>3, <1>7, Zenon DEF Row
<1>9. /\ doc' \in [Docs -> Doc] /\ DocIs(d, doc[d].version, doc[d].active, "FAILED")
      /\ \A c \in Docs \ {d} : doc'[c] = doc[c]
  <2>1. doc \in [Docs -> Doc]
    BY DEF TablesInv, TablesTyped
  <2> QED
    BY <1>1, <1>3, <2>1, DocStatus DEF DocIs
<1>10. /\ versions' \in [Docs -> Seq(VersionStatus)] /\ versions'[d] = s
       /\ \A c \in Docs \ {d} : versions'[c] = versions[c]
  BY <1>1, <1>3, <1>6, VersionsSet DEF TablesInv
<1>11. TablesTyped'
  BY <1>8, <1>9, <1>10 DEF TablesTyped
<1>12. OnlyDoc(d) /\ OnlyTask(k)
  BY <1>1, <1>8, <1>9, <1>10 DEF OnlyDoc, OnlyTask, SameRow, d
<1>13. EndsRow(k)
  BY <1>1, <1>8 DEF EndsRow, Ended, Runnable
<1>14. FailsVersion(d, k)
  BY <1>1, <1>2, <1>6, <1>8, <1>9, <1>10, <1>12, <1>13 DEF FailsVersion
<1>15. TableStep
  BY <1>1, <1>12, <1>14 DEF TableStep
<1> QED
  BY <1>8, <1>11, <1>15 DEF k

\* RetryRAGIndexTask fails the version and leaves the task PENDING.
LEMMA RetryTables ==
  ASSUME TablesInv, SlotsTyped, NEW w \in Slots, Retry(w)
  PROVE  TablesTyped' /\ TableStep
<1> DEFINE k == slot[w].fence.task
           d == DocOf[k]
           o == Closed(row[k])
           a == Rearmed(o)
           b == [a EXCEPT !.status = "PENDING"]
           c == [a EXCEPT !.status = "PENDING", !.due = FALSE]
           r == [a EXCEPT !.status = "PENDING", !.due = FALSE, !.retry = row[k].retry + 1]
           s == [versions[d] EXCEPT ![row[k].version] = "FAILED"]
<1>0. DocOf[k] = d
  OBVIOUS
<1>1. /\ k \in Tasks /\ k \in TasksOf(d) /\ d \in Docs /\ ~LockedDoc(d)
      /\ row[k].status = "RUNNING" /\ Runnable(k) /\ row[k] \in Row
      /\ row[k].version = slot[w].fence.version
      /\ versions[d] \in Seq(VersionStatus) /\ row[k].version \in 1..Len(versions[d])
  BY FenceTxSlot, Zenon DEF Retry
<1>2. /\ row' = [row EXCEPT ![k] = r] /\ versions' = [versions EXCEPT ![d] = s]
      /\ doc' = WithStatus(doc, d, "PENDING")
      /\ row[k].retry < MaxRetry /\ row[k].dispatch < MaxGeneration
  <2>1. row' = [row EXCEPT ![k] = r]
    BY DEF Retry
  <2>2. versions' = [versions EXCEPT ![d] = [versions[d] EXCEPT ![slot[w].fence.version] = "FAILED"]]
    BY DEF Retry
  <2>3. doc' = WithStatus(doc, d, "PENDING")
    BY DEF Retry, WithStatus
  <2>4. row[k].retry < MaxRetry /\ row[k].dispatch < MaxGeneration
    BY DEF Retry
  <2> HIDE DEF r, k, d
  <2> QED
    BY <1>1, <2>1, <2>2, <2>3, <2>4
<1>3. /\ o \in Row /\ o.version = row[k].version /\ o.claim = row[k].claim /\ ~o.live
      /\ o.dispatch = row[k].dispatch /\ o.retry = row[k].retry
  BY <1>1, ClosedTyped
<1>4. b = [a EXCEPT !.status = "PENDING"] /\ c = [b EXCEPT !.due = FALSE]
      /\ r = [c EXCEPT !.retry = row[k].retry + 1]
  OBVIOUS
<1>5. row[k].retry + 1 \in 0..MaxRetry
  <2>1. row[k].retry \in 0..MaxRetry
    BY <1>1 DEF Row
  <2>2. MaxRetry \in Nat
    BY TaskAssumption
  <2> HIDE DEF o, a, b, c, r, s, d, k
  <2> QED
    BY <1>2, <2>1, <2>2
<1>6. /\ s \in Seq(VersionStatus) /\ Len(s) = Len(versions[d])
      /\ \A v \in 1..Len(versions[d]) :
           s[v] = IF v = row[k].version THEN "FAILED" ELSE versions[d][v]
  BY <1>1, ExceptVersion DEF VersionStatus
<1> HIDE DEF o, b, c, r, s
<1>7. /\ a \in Row /\ a.version = row[k].version /\ a.claim = row[k].claim
      /\ ~a.live /\ a.dispatch = row[k].dispatch + 1 /\ ~a.dispatched
  BY <1>2, <1>3, RearmedTyped
<1> HIDE DEF a
<1>8. /\ b \in Row /\ b.version = row[k].version /\ b.claim = row[k].claim
      /\ ~b.live /\ b.dispatch = row[k].dispatch + 1 /\ ~b.dispatched /\ b.status = "PENDING"
  BY <1>4, <1>7 DEF Row
<1>9. /\ c \in Row /\ c.version = row[k].version /\ c.claim = row[k].claim
      /\ ~c.live /\ c.dispatch = row[k].dispatch + 1 /\ ~c.dispatched /\ c.status = "PENDING"
  BY <1>4, <1>8 DEF Row
<1>10. /\ r \in Row /\ r.version = row[k].version /\ r.claim = row[k].claim
       /\ ~r.live /\ r.dispatch = row[k].dispatch + 1 /\ ~r.dispatched /\ r.status = "PENDING"
       /\ r.retry = row[k].retry + 1
  BY <1>4, <1>5, <1>9 DEF Row
<1> HIDE DEF d, k
<1>11. /\ doc' \in [Docs -> Doc] /\ DocIs(d, doc[d].version, doc[d].active, "PENDING")
       /\ \A x \in Docs \ {d} : doc'[x] = doc[x]
  <2>1. doc \in [Docs -> Doc]
    BY DEF TablesInv, TablesTyped
  <2> QED
    BY <1>1, <1>2, <2>1, DocStatus DEF DocIs
<1>12. TablesTyped' /\ OnlyDoc(d) /\ OnlyTask(k) /\ row'[k] = r /\ versions'[d] = s
  <2>1. WritesOne(k, d, r, s)
    BY <1>1, <1>2, <1>6, <1>10, <1>11 DEF WritesOne
  <2> QED
    BY <1>1, <1>2, <1>6, <1>10, <1>11, <1>0, <2>1, OneVersion DEF TablesInv
<1>13. RearmsRow(k)
  BY <1>1, <1>10, <1>12 DEF RearmsRow
<1>14. FailsVersion(d, k)
  BY <1>1, <1>6, <1>10, <1>11, <1>12, <1>13 DEF FailsVersion
<1> QED
  BY <1>1, <1>12, <1>14 DEF TableStep

\* Activation replaces the active version and ends the task.
LEMMA ActivateTables ==
  ASSUME TablesInv, SlotsTyped, NEW w \in Slots, ActivateAndFinish(w)
  PROVE  TablesTyped' /\ TableStep
<1> DEFINE k == slot[w].fence.task
           d == DocOf[k]
           r == [Closed(row[k]) EXCEPT !.status = "DONE"]
           s == [v \in DOMAIN versions[d] |-> CASE v = row[k].version -> "DONE"
                                                [] v = doc[d].active -> "RETIRED"
                                                [] OTHER -> versions[d][v]]
<1>0. DocOf[k] = d
  OBVIOUS
<1>1. /\ k \in Tasks /\ k \in TasksOf(d) /\ d \in Docs /\ ~LockedDoc(d)
      /\ row[k].status = "RUNNING" /\ Runnable(k) /\ row[k] \in Row
      /\ row[k].version = slot[w].fence.version
      /\ versions[d] \in Seq(VersionStatus) /\ row[k].version \in 1..Len(versions[d])
  BY FenceTxSlot, Zenon DEF ActivateAndFinish
<1>2. /\ row' = [row EXCEPT ![k] = r] /\ versions' = [versions EXCEPT ![d] = s]
      /\ doc' = WithActive(doc, d, row[k].version, "DONE")
  <2>1. row' = [row EXCEPT ![k] = r]
    BY Zenon DEF ActivateAndFinish
  <2>2. versions' = [versions EXCEPT ![d] =
                      [v \in DOMAIN versions[d] |->
                         CASE v = slot[w].fence.version -> "DONE"
                           [] v = doc[d].active -> "RETIRED"
                           [] OTHER -> versions[d][v]]]
    BY Zenon DEF ActivateAndFinish
  <2>3. doc' = WithActive(doc, d, slot[w].fence.version, "DONE")
    BY Zenon DEF ActivateAndFinish, WithActive
  <2>4. s = [v \in DOMAIN versions[d] |->
               CASE v = slot[w].fence.version -> "DONE"
                 [] v = doc[d].active -> "RETIRED"
                 [] OTHER -> versions[d][v]]
    BY <1>1
  <2> HIDE DEF r, s, d, k
  <2> QED
    BY <1>1, <2>1, <2>2, <2>3, <2>4
<1>3. /\ r \in Row /\ r.status = "DONE" /\ r.version = row[k].version
      /\ r.dispatch = row[k].dispatch /\ r.claim = row[k].claim /\ ~r.live
  BY <1>1, ClosedTyped
<1>4. /\ s \in Seq(VersionStatus) /\ Len(s) = Len(versions[d])
      /\ \A v \in 1..Len(versions[d]) :
           s[v] = CASE v = row[k].version -> "DONE"
                    [] v = doc[d].active -> "RETIRED"
                    [] OTHER -> versions[d][v]
  <2>1. Len(versions[d]) \in Nat /\ DOMAIN versions[d] = 1..Len(versions[d])
        /\ \A v \in 1..Len(versions[d]) : versions[d][v] \in VersionStatus
    BY <1>1, ElementOfVersions
  <2>2. s \in [1..Len(versions[d]) -> VersionStatus]
    BY <2>1 DEF VersionStatus
  <2> QED
    BY <2>1, <2>2, VersionsFunction, Zenon
<1> HIDE DEF r, s, d, k
<1>5. /\ doc' \in [Docs -> Doc] /\ DocIs(d, doc[d].version, row[k].version, "DONE")
      /\ \A c \in Docs \ {d} : doc'[c] = doc[c]
  <2>1. doc \in [Docs -> Doc]
    BY DEF TablesInv, TablesTyped
  <2>2. d \in Docs /\ row[k].version \in Nat
    BY <1>1
  <2>3. doc' = WithActive(doc, d, row[k].version, "DONE")
    BY <1>2
  <2> QED
    BY <2>1, <2>2, <2>3, DocActiveStatus DEF DocIs
<1>6. TablesTyped' /\ OnlyDoc(d) /\ OnlyTask(k) /\ row'[k] = r /\ versions'[d] = s
  <2>1. WritesOne(k, d, r, s)
    BY <1>1, <1>2, <1>3, <1>4, <1>5 DEF WritesOne
  <2> QED
    BY <1>1, <1>2, <1>3, <1>4, <1>5, <1>0, <2>1, OneVersion DEF TablesInv
<1>7. EndsRow(k)
  BY <1>1, <1>3, <1>6 DEF EndsRow, Ended
<1>8. ActivatesVersion(d, k)
  BY <1>1, <1>3, <1>4, <1>5, <1>6, <1>7 DEF ActivatesVersion
<1> QED
  BY <1>1, <1>6, <1>8 DEF TableStep

\* Only the version of the runnable task is PENDING or RUNNING.
LEMMA BuildingVersion ==
  ASSUME TablesInv, NEW k \in Tasks, Runnable(k), NEW v \in 1..Len(versions[DocOf[k]]),
         versions[DocOf[k]][v] \in {"PENDING", "RUNNING"}
  PROVE  v = row[k].version
<1>1. PICK j \in TasksOf(DocOf[k]) : Runnable(j) /\ row[j].version = v
  BY TaskFacts DEF DocOK
<1>2. j \in Tasks /\ DocOf[j] = DocOf[k]
  BY <1>1 DEF TasksOf
<1> QED
  BY <1>1, <1>2, OneRunnable

\* SupersedeRAGIndexTaskAndCreateVersion ends a running task for a new one.
LEMMA SupersedeTables ==
  ASSUME TablesInv, SlotsTyped, NEW w \in Slots, NEW j \in Tasks,
         SupersedeRAGIndexTaskAndCreateVersion(w, j)
  PROVE  TablesTyped' /\ TableStep
<1> DEFINE k == slot[w].fence.task
           d == DocOf[k]
           n == NextVersion(d)
           r == [Closed(row[k]) EXCEPT !.status = "SUPERSEDED"]
           p == [row EXCEPT ![k] = r]
           s == [versions[d] EXCEPT ![row[k].version] = "SUPERSEDED"]
<1>1. /\ k \in Tasks /\ k \in TasksOf(d) /\ d \in Docs /\ ~LockedDoc(d)
      /\ row[k].status = "RUNNING" /\ Runnable(k) /\ row[k] \in Row
      /\ row[k].version = slot[w].fence.version
      /\ versions[d] \in Seq(VersionStatus) /\ row[k].version \in 1..Len(versions[d])
  BY FenceTxSlot, Zenon DEF SupersedeRAGIndexTaskAndCreateVersion
<1>2. /\ DocOf[j] = d /\ row[j].status = "NONE" /\ row' = [p EXCEPT ![j] = NewRow(n)]
      /\ doc' = AtVersion(doc, d, n, "PENDING")
  BY Zenon DEF SupersedeRAGIndexTaskAndCreateVersion, AtVersion
<1>3. versions' = [versions EXCEPT ![d] = Append(s, "PENDING")]
  <2>1. versions' = [versions EXCEPT ![d] =
                      Append([versions[d] EXCEPT ![slot[w].fence.version] = "SUPERSEDED"], "PENDING")]
    BY Zenon DEF SupersedeRAGIndexTaskAndCreateVersion
  <2> HIDE DEF k, d
  <2> QED
    BY <1>1, <2>1
<1>4. Len(versions[d]) \in Nat /\ n \in Nat /\ n = Len(versions[d]) + 1
  BY <1>1, ElementOfVersions DEF NextVersion
<1>5. /\ r \in Row /\ r.status = "SUPERSEDED" /\ r.version = row[k].version
      /\ r.dispatch = row[k].dispatch /\ r.claim = row[k].claim /\ ~r.live
  BY <1>1, ClosedTyped
<1>6. /\ s \in Seq(VersionStatus) /\ Len(s) = Len(versions[d])
      /\ \A v \in 1..Len(versions[d]) :
           s[v] = IF v = row[k].version THEN "SUPERSEDED" ELSE versions[d][v]
  BY <1>1, ExceptVersion DEF VersionStatus
<1>7. versions[d][row[k].version] = "RUNNING"
  BY <1>1, TaskFacts DEF TargetOK
<1>8. \A v \in 1..Len(versions[d]) : s[v] = Unbuilt(versions[d][v])
  BY <1>1, <1>6, <1>7, BuildingVersion DEF Unbuilt
<1>9. /\ p \in [Tasks -> Row] /\ p[k] = r /\ \A i \in Tasks \ {k} : p[i] = row[i]
  BY <1>1, <1>5 DEF TablesInv, TablesTyped
<1>10. \A i \in Tasks : DocOf[i] = d /\ Runnable(i) => i = k
  BY <1>1, OneRunnable
<1>11. j # k /\ j \in TasksOf(d)
  BY <1>1, <1>2 DEF TasksOf
<1>12. k \notin {i \in Tasks : DocOf[i] # d}
  OBVIOUS
<1> HIDE DEF p, r, s, n, d, k
<1>13. "PENDING" \in VersionStatus
  BY DEF VersionStatus
<1>14. /\ doc' \in [Docs -> Doc] /\ DocIs(d, n, doc[d].active, "PENDING")
       /\ \A c \in Docs \ {d} : doc'[c] = doc[c]
  <2>1. doc \in [Docs -> Doc]
    BY DEF TablesInv, TablesTyped
  <2> QED
    BY <1>1, <1>2, <1>4, <2>1, DocVersionStatus DEF DocIs
<1>15. /\ versions' \in [Docs -> Seq(VersionStatus)]
       /\ versions'[d] = Append(s, "PENDING")
       /\ \A c \in Docs \ {d} : versions'[c] = versions[c]
  BY <1>1, <1>3, <1>6, <1>13, AppendVersion, VersionsSet DEF TablesInv
<1>16. /\ Len(versions'[d]) = n /\ versions'[d][n] = "PENDING"
       /\ \A v \in 1..Len(versions[d]) : versions'[d][v] = Unbuilt(versions[d][v])
  BY <1>4, <1>6, <1>8, <1>13, <1>15, AppendVersion
<1>17. /\ row' \in [Tasks -> Row] /\ row'[j] = NewRow(n) /\ row'[k] = r
       /\ \A i \in Tasks \ {j, k} : row'[i] = row[i]
  BY <1>1, <1>2, <1>4, <1>9, <1>11, NewRowOK
<1>18. TablesTyped'
  BY <1>14, <1>15, <1>17 DEF TablesTyped
<1>19. EndsRow(k) /\ row'[k].status = "SUPERSEDED"
  BY <1>1, <1>5, <1>17 DEF EndsRow, Ended
<1>20. Supersedes(d, j)
  BY <1>1, <1>10, <1>17, <1>19 DEF Supersedes, TasksOf, SameRow
<1>21. OnlyDoc(d)
  <2>1. \A i \in Tasks : DocOf[i] # d => SameRow(i)
    BY <1>2, <1>12, <1>17 DEF SameRow
  <2> QED
    BY <2>1, <1>14, <1>15 DEF OnlyDoc
<1>22. OpensVersion(d, j)
  BY <1>2, <1>11, <1>14, <1>16, <1>17, <1>20 DEF OpensVersion, CreatesRow, n
<1> QED
  BY <1>1, <1>18, <1>21, <1>22 DEF TableStep

\* The row a claim writes.
ClaimedRow(r, v, c, o, q) ==
    [r EXCEPT !.status = "RUNNING", !.version = v, !.claim = c, !.dispatched = TRUE,
              !.owner = o, !.live = TRUE, !.retry = q]

Owners == {ProcOf[w] : w \in Slots}

\* The fields of the row a claim writes.
LEMMA ClaimedRowOK ==
  ASSUME NEW r \in Row, NEW v \in Nat, NEW c \in 0..MaxGeneration,
         NEW o \in Owners, NEW q \in 0..MaxRetry
  PROVE  LET z == ClaimedRow(r, v, c, o, q) IN
         /\ z \in Row /\ z.status = "RUNNING" /\ z.version = v /\ z.claim = c
         /\ z.dispatch = r.dispatch /\ z.due = r.due
<1> DEFINE r1 == [r EXCEPT !.status = "RUNNING"]
           r2 == [r1 EXCEPT !.version = v]
           r3 == [r2 EXCEPT !.claim = c]
           r4 == [r3 EXCEPT !.dispatched = TRUE]
           r5 == [r4 EXCEPT !.owner = o]
           r6 == [r5 EXCEPT !.live = TRUE]
           z == ClaimedRow(r, v, c, o, q)
<1>1. z = [r6 EXCEPT !.retry = q]
  BY DEF ClaimedRow
<1>2. r1 \in Row /\ r1.status = "RUNNING" /\ r1.dispatch = r.dispatch /\ r1.due = r.due
  BY DEF Row
<1> HIDE DEF r1
<1>3. r2 \in Row /\ r2.status = "RUNNING" /\ r2.dispatch = r.dispatch /\ r2.due = r.due
      /\ r2.version = v
  BY <1>2 DEF Row
<1> HIDE DEF r2
<1>4. r3 \in Row /\ r3.status = "RUNNING" /\ r3.dispatch = r.dispatch /\ r3.due = r.due
      /\ r3.version = v /\ r3.claim = c
  BY <1>3 DEF Row
<1> HIDE DEF r3
<1>5. r4 \in Row /\ r4.status = "RUNNING" /\ r4.dispatch = r.dispatch /\ r4.due = r.due
      /\ r4.version = v /\ r4.claim = c
  BY <1>4 DEF Row
<1> HIDE DEF r4
<1>6. r5 \in Row /\ r5.status = "RUNNING" /\ r5.dispatch = r.dispatch /\ r5.due = r.due
      /\ r5.version = v /\ r5.claim = c
  BY <1>5 DEF Row, Owners
<1> HIDE DEF r5
<1>7. r6 \in Row /\ r6.status = "RUNNING" /\ r6.dispatch = r.dispatch /\ r6.due = r.due
      /\ r6.version = v /\ r6.claim = c
  BY <1>6 DEF Row
<1> HIDE DEF r6, z
<1>8. z \in Row /\ z.status = "RUNNING" /\ z.dispatch = r.dispatch /\ z.due = r.due
      /\ z.version = v /\ z.claim = c
  BY <1>1, <1>7 DEF Row
<1> QED
  BY <1>8 DEF z

\* The commit of a claim.
LEMMA ClaimWriteTables ==
  ASSUME TablesInv, SlotsTyped, LockInv, NEW w \in Slots, slot[w].pc = "claiming",
         ClaimWrite(w), capLock' = None
  PROVE  TablesTyped' /\ TableStep /\ row'[slot[w].msg[1]].claim = slot[w].msg[2]
<1> DEFINE k == slot[w].msg[1]
           c == slot[w].msg[2]
           d == DocOf[k]
           u == row[k].version
           v == ClaimedVersion(k)
           q == row[k].retry + (IF row[k].status = "RUNNING" THEN 1 ELSE 0)
           r == ClaimedRow(row[k], v, c, ProcOf[w], q)
           t == IF row[k].status = "RUNNING" THEN "SUPERSEDED" ELSE "FAILED"
           p == [versions[d] EXCEPT ![u] = t]
           s == IF Fresh(k) THEN Append(p, "RUNNING") ELSE [versions[d] EXCEPT ![u] = "RUNNING"]
<1>1. slot[w].msg \in Message /\ Matches(slot[w].msg) /\ ~Exhausted(k)
  BY DEF SlotsTyped, LockInv
<1>2. k \in Tasks /\ c \in 1..MaxGeneration
  BY <1>1 DEF Message
<1>3. Due(k) /\ Runnable(k) /\ row[k].dispatch = c /\ row[k].claim < c /\ row[k].due
  BY <1>1 DEF Matches, Due
<1>4. /\ d \in Docs /\ k \in TasksOf(d) /\ row[k] \in Row /\ versions[d] \in Seq(VersionStatus)
      /\ u \in 1..Len(versions[d]) /\ u = Len(versions[d]) /\ Len(versions[d]) \in Nat
  BY <1>2, <1>3, TaskFacts, ElementOfVersions DEF RowOK, TargetOK, Runnable
<1>5. row' = [row EXCEPT ![k] = r]
  BY Zenon DEF ClaimWrite, ClaimedRow
<1>6. versions' = [versions EXCEPT ![d] = s]
  BY Zenon DEF ClaimWrite
<1>7. doc' = AtVersion(doc, d, v, "PROCESSING")
  BY Zenon DEF ClaimWrite, AtVersion
<1>8. v = IF Fresh(k) THEN Len(versions[d]) + 1 ELSE u
  BY DEF ClaimedVersion, NextVersion
<1>9. q \in 0..MaxRetry
  <2>1. row[k].retry \in 0..MaxRetry /\ MaxRetry \in Nat
    BY <1>4, TaskAssumption DEF Row
  <2>2. row[k].status = "RUNNING" => row[k].retry < MaxRetry
    BY <1>1, <2>1 DEF Exhausted
  <2> QED
    BY <2>1, <2>2
<1>10. t \in VersionStatus /\ "RUNNING" \in VersionStatus
  BY DEF VersionStatus
<1>11. /\ p \in Seq(VersionStatus) /\ Len(p) = Len(versions[d])
       /\ \A i \in 1..Len(versions[d]) : p[i] = IF i = u THEN t ELSE versions[d][i]
  BY <1>4, <1>10, ExceptVersion
<1>12. /\ s \in Seq(VersionStatus) /\ Len(s) = v /\ s[v] = "RUNNING"
       /\ \A i \in 1..Len(versions[d]) :
            i # v => s[i] = IF i = u THEN t ELSE versions[d][i]
  <2>1. CASE Fresh(k)
    <3>1. s = Append(p, "RUNNING")
      BY <2>1
    <3> HIDE DEF s, p, t, k, d, u, v
    <3> QED
      BY <1>4, <1>8, <1>10, <1>11, <2>1, <3>1, AppendVersion
  <2>2. CASE ~Fresh(k)
    <3>1. s = [versions[d] EXCEPT ![u] = "RUNNING"]
      BY <2>2
    <3> HIDE DEF s, p, t, k, d, u, v
    <3> QED
      BY <1>4, <1>8, <1>10, <2>2, <3>1, ExceptVersion
  <2> QED
    BY <2>1, <2>2, Zenon
<1>13. v \in Nat
  BY <1>4, <1>8
<1>14. DocOf[k] = d /\ t = IF row[k].status = "RUNNING" THEN "SUPERSEDED" ELSE "FAILED"
  OBVIOUS
<1>15. slot[w].msg[1] = k /\ r = ClaimedRow(row[k], v, c, ProcOf[w], q)
  OBVIOUS
<1> HIDE DEF r, s, p, q, v, k, c, d, u, t
<1>16. /\ r \in Row /\ r.status = "RUNNING" /\ r.version = v /\ r.claim = c
       /\ r.dispatch = row[k].dispatch /\ r.due = row[k].due
  <2>1. c \in 0..MaxGeneration /\ ProcOf[w] \in Owners
    BY <1>2 DEF Owners
  <2> QED
    BY <1>4, <1>9, <1>13, <1>15, <2>1, ClaimedRowOK
<1>17. /\ doc' \in [Docs -> Doc] /\ DocIs(d, v, doc[d].active, "PROCESSING")
       /\ \A x \in Docs \ {d} : doc'[x] = doc[x]
  <2>1. doc \in [Docs -> Doc]
    BY DEF TablesInv, TablesTyped
  <2> QED
    BY <1>4, <1>7, <1>13, <2>1, DocVersionStatus DEF DocIs
<1>18. TablesTyped' /\ OnlyDoc(d) /\ OnlyTask(k) /\ row'[k] = r /\ versions'[d] = s
  <2>1. WritesOne(k, d, r, s)
    BY <1>5, <1>6, <1>17 DEF WritesOne
  <2> QED
    BY <1>2, <1>4, <1>12, <1>14, <1>16, <2>1, OneVersion DEF TablesInv
<1>19. ClaimsRow(w, k)
  BY <1>1, <1>3, <1>15, <1>16, <1>18 DEF ClaimsRow
<1>20. v \in {Len(versions[d]), NextVersion(d)}
  BY <1>4, <1>8 DEF NextVersion
<1>21. \A i \in 1..Len(versions[d]) :
         i # v => versions'[d][i] = IF i # row[k].version THEN versions[d][i]
                                     ELSE IF row[k].status = "RUNNING" THEN "SUPERSEDED" ELSE "FAILED"
  BY <1>12, <1>14, <1>18 DEF u
<1>22. BuildsVersion(d, k)
  BY <1>4, <1>12, <1>16, <1>17, <1>18, <1>19, <1>20, <1>21 DEF BuildsVersion
<1>23. row'[k].claim = c
  BY <1>16, <1>18
<1> QED
  BY <1>2, <1>4, <1>18, <1>22, <1>23 DEF TableStep, k, c

\* All the steps.
LEMMA StepTables ==
  ASSUME IInv, [Next]_vars
  PROVE  TablesTyped' /\ TableStep
<1>1. TablesInv /\ SlotsTyped /\ LockInv /\ DeliveriesInv /\ TablesTyped
  BY DEF IInv, TablesInv
<1>2. CASE UNCHANGED <<row, doc, versions>>
  BY <1>1, <1>2, SameTables
<1>3. ASSUME NEW k \in Tasks,
             \/ AdvanceDocumentVersionAndCreateTask(k) \/ ListDispatchable(k)
             \/ ArmExpired(k) \/ RearmUnclaimed(k) \/ LeaseExpires(k) \/ NextRunDue(k)
      PROVE  TablesTyped' /\ TableStep
  <2>1. CASE ListDispatchable(k)
    BY <1>2, <2>1 DEF ListDispatchable
  <2> QED
    BY <1>1, <1>3, <2>1, AdvanceTables, ArmExpiredTables, RearmUnclaimedTables,
       LeaseExpiresTables, NextRunDueTables
<1>4. ASSUME NEW u \in Users, DisableUser(u) \/ EnableUser(u)
      PROVE  TablesTyped' /\ TableStep
  BY <1>2, <1>4 DEF DisableUser, EnableUser
<1>5. CASE Publish \/ DispatcherStops
  BY <1>2, <1>5 DEF Publish, DispatcherStops
<1>6. CASE Mark
  BY <1>1, <1>6, MarkTables
<1>7. ASSUME NEW w \in Slots,
             \/ \E m \in Message : TakeDelivery(w, m)
             \/ ClaimDuplicateStale(w) \/ ClaimCapacityDeferred(w) \/ ClaimBegin(w)
             \/ ClaimDeferred(w) \/ HeartbeatBegin(w) \/ SlotStops(w)
      PROVE  TablesTyped' /\ TableStep
  BY <1>2, <1>7, Zenon DEF TakeDelivery, ClaimDuplicateStale, ClaimCapacityDeferred, ClaimBegin,
     ClaimDeferred, HeartbeatBegin, SlotStops
<1>8. ASSUME NEW w \in Slots,
             ClaimInactiveOwner(w) \/ ClaimExhausted(w) \/ ClaimMaintenance(w)
      PROVE  TablesTyped' /\ TableStep
  BY <1>1, <1>8, ClaimInactiveOwnerTables, ClaimExhaustedTables, ClaimMaintenanceTables
<1>9. ASSUME NEW w \in Slots, ClaimCommit(w) \/ ClaimCommitLost(w)
      PROVE  TablesTyped' /\ TableStep
  <2>1. slot[w].pc = "claiming" /\ capLock' = None
        /\ (ClaimWrite(w) \/ UNCHANGED <<row, doc, versions>>)
    BY <1>9 DEF ClaimCommit, ClaimCommitLost
  <2> QED
    BY <1>1, <1>2, <2>1, ClaimWriteTables
<1>10. ASSUME NEW w \in Slots, HeartbeatCommit(w) \/ Quiesce(w)
       PROVE  TablesTyped' /\ TableStep
  BY <1>1, <1>10, HeartbeatCommitTables, QuiesceTables
<1>11. ASSUME NEW w \in Slots, ActivateAndFinish(w) \/ Fail(w) \/ Retry(w)
       PROVE  TablesTyped' /\ TableStep
  BY <1>1, <1>11, ActivateTables, FailTables, RetryTables
<1>12. ASSUME NEW w \in Slots, NEW k \in Tasks, SupersedeRAGIndexTaskAndCreateVersion(w, k)
       PROVE  TablesTyped' /\ TableStep
  BY <1>1, <1>12, SupersedeTables
<1>13. CASE UNCHANGED vars
  BY <1>2, <1>13 DEF vars
<1> QED
  BY <1>3, <1>4, <1>5, <1>6, <1>7, <1>8, <1>9, <1>10, <1>11, <1>12, <1>13
     DEF Next, Claim, Finish

(***************************************************************************)
(* Every TableStep keeps the documents in order.                            *)
(***************************************************************************)
\* A document none of whose tasks or versions change.
LEMMA SameDoc ==
  ASSUME NEW d \in Docs, DocOK(d), doc'[d] = doc[d], versions'[d] = versions[d],
         \A k \in TasksOf(d) : SameRow(k)
  PROVE  DocOK(d)'
<1>1. \A k \in TasksOf(d) : RowOK(k)' /\ TargetOK(k)'
  BY DEF DocOK, SameRow, RowOK, TargetOK, TasksOf, Runnable, Unclaimed
<1> QED
  BY <1>1 DEF DocOK, SameRow, TasksOf, Runnable

\* The fields of a typed row.
LEMMA RowFields ==
  ASSUME NEW r \in Row
  PROVE  /\ r.version \in Nat /\ r.dispatch \in Nat /\ r.claim \in Nat /\ r.retry \in Nat
         /\ r.dispatch \in 0..MaxGeneration /\ r.claim \in 0..MaxGeneration
         /\ r.status \in {"NONE", "PENDING", "RUNNING"} \cup Ended
         /\ r.live \in BOOLEAN /\ r.due \in BOOLEAN /\ r.dispatched \in BOOLEAN
<1>1. MaxGeneration \in Nat /\ MaxRetry \in Nat
  BY TaskAssumption
<1> QED
  BY <1>1 DEF Row, Ended

\* A renewal changes nothing but the lease.
LEMMA RenewedRow ==
  ASSUME NEW w \in Slots, NEW k \in Tasks, row[k] \in Row, RenewsRow(w, k)
  PROVE  /\ row'[k].status = row[k].status /\ row'[k].version = row[k].version
         /\ row'[k].dispatch = row[k].dispatch /\ row'[k].claim = row[k].claim
         /\ row'[k].retry = row[k].retry /\ row'[k].due = row[k].due /\ row'[k].live
         /\ row'[k].dispatched = row[k].dispatched
  BY DEF RenewsRow, Row

\* What a change of the row alone does to its own invariant.
LEMMA RowOKKept ==
  ASSUME NEW k \in Tasks, row[k] \in Row, row'[k] \in Row, RowOK(k),
         versions[DocOf[k]] \in Seq(VersionStatus),
         Len(versions'[DocOf[k]]) \in Nat, Len(versions[DocOf[k]]) <= Len(versions'[DocOf[k]]),
         KeepsRow(k) \/ EndsRow(k) \/ RearmsRow(k) \/ \E w \in Slots : RenewsRow(w, k) /\ LockInv
  PROVE  RowOK(k)'
<1>1. Len(versions[DocOf[k]]) \in Nat /\ row[k].dispatch \in Nat /\ row[k].claim \in Nat
      /\ row[k].version \in Nat
  BY ElementOfVersions, RowFields
<1>2. CASE row[k].status = "NONE"
  <2>1. ~Runnable(k)
    BY <1>2 DEF Runnable
  <2>2. ~\E w \in Slots : RenewsRow(w, k) /\ LockInv
    BY <1>2 DEF RenewsRow, LockInv
  <2>3. row'[k] = row[k]
    BY <1>2, <2>1, <2>2 DEF KeepsRow, EndsRow, RearmsRow
  <2> QED
    BY <1>2, <2>3 DEF RowOK, Unclaimed, NoRow
<1>3. CASE KeepsRow(k) /\ row[k].status # "NONE"
  BY <1>1, <1>3 DEF KeepsRow, RowOK, Unclaimed
<1>4. CASE EndsRow(k)
  BY <1>1, <1>4 DEF EndsRow, RowOK, Unclaimed, Runnable, Ended
<1>5. CASE RearmsRow(k)
  BY <1>1, <1>5 DEF RearmsRow, RowOK, Unclaimed, Runnable
<1>6. ASSUME NEW w \in Slots, RenewsRow(w, k), LockInv
      PROVE  RowOK(k)'
  <2>1. row[k].status = "RUNNING" /\ ~Unclaimed(k)
    BY <1>6 DEF RenewsRow, LockInv
  <2> QED
    BY <1>1, <1>6, <2>1, RenewedRow DEF RowOK, Unclaimed
<1> QED
  BY <1>2, <1>3, <1>4, <1>5, <1>6

\* DocOK, part by part.
LEMMA DocParts ==
  ASSUME NEW d \in Docs, DocOK(d), TablesTyped
  PROVE  /\ \A k \in TasksOf(d) : /\ RowOK(k) /\ TargetOK(k) /\ row[k] \in Row /\ k \in Tasks
                                  /\ DocOf[k] = d /\ row[k].version \in Nat
                                  /\ row[k].status # "NONE" => row[k].version \in 1..Len(versions[d])
         /\ Len(versions[d]) \in Nat /\ versions[d] \in Seq(VersionStatus)
         /\ NextVersion(d) = Len(versions[d]) + 1
         /\ doc[d].active \in Nat /\ doc[d].active <= Len(versions[d])
         /\ \A v \in 1..Len(versions[d]) : versions[d][v] = "DONE" <=> v = doc[d].active
         /\ \A k \in TasksOf(d) : row[k].status = "DONE" =>
              versions[d][row[k].version] \in {"DONE", "RETIRED"}
         /\ \A j, k \in TasksOf(d) :
              row[j].status # "NONE" /\ row[k].status # "NONE" /\ row[j].version = row[k].version
                => j = k
<1>1. versions[d] \in Seq(VersionStatus) /\ Len(versions[d]) \in Nat /\ doc[d].active \in Nat
  BY ElementOfVersions DEF TablesTyped, Doc
<1>2. \A k \in TasksOf(d) : k \in Tasks /\ DocOf[k] = d /\ row[k] \in Row /\ row[k].version \in Nat
  BY RowFields DEF TasksOf, TablesTyped
<1> QED
  BY <1>1, <1>2 DEF DocOK, NextVersion, RowOK

\* The tables stay in order when only rows are touched,
LEMMA TouchesDocs ==
  ASSUME TablesInv, TablesTyped', LockInv, TouchesRows, NEW d \in Docs
  PROVE  DocOK(d)'
<1>1. DocOK(d) /\ TablesTyped
  BY DEF TablesInv
<1>2. versions'[d] = versions[d] /\ doc'[d] = doc[d]
  BY DEF TouchesRows
<1>3. ASSUME NEW k \in TasksOf(d)
      PROVE  /\ row'[k].status = row[k].status /\ row'[k].retry = row[k].retry
             /\ row'[k].version = row[k].version /\ row'[k].claim = row[k].claim
             /\ RowOK(k)'
  <2>1. k \in Tasks /\ DocOf[k] = d /\ row[k] \in Row /\ RowOK(k) /\ Len(versions[d]) \in Nat
        /\ versions[d] \in Seq(VersionStatus)
    BY <1>1, DocParts
  <2>2. row'[k] \in Row
    BY <2>1 DEF TablesTyped
  <2>3. /\ row'[k].status = row[k].status /\ row'[k].retry = row[k].retry
        /\ KeepsRow(k) \/ RearmsRow(k) \/ \E w \in Slots : RenewsRow(w, k)
    BY <2>1 DEF TouchesRows
  <2>4. RowOK(k)'
    BY <1>2, <2>1, <2>2, <2>3, RowOKKept
  <2>5. row'[k].version = row[k].version /\ row'[k].claim = row[k].claim
    BY <2>1, <2>3, RenewedRow DEF KeepsRow, RearmsRow
  <2> QED
    BY <2>3, <2>4, <2>5
<1>4. \A k \in TasksOf(d) : TargetOK(k)'
  <2>1. SUFFICES ASSUME NEW k \in TasksOf(d)
                 PROVE  TargetOK(k)'
    OBVIOUS
  <2>2. DocOf[k] = d /\ TargetOK(k)
    BY <1>1, DocParts
  <2> QED
    BY <1>2, <1>3, <2>2 DEF TargetOK, Runnable
<1> QED
  BY <1>1, <1>2, <1>3, <1>4 DEF DocOK, Runnable, TasksOf

\* ... when a document gets a new version,
LEMMA OpensDoc ==
  ASSUME TablesInv, TablesTyped', NEW d \in Docs, NEW k \in Tasks, OpensVersion(d, k)
  PROVE  DocOK(d)'
<1> DEFINE n == Len(versions[d])
<1>1. DocOK(d) /\ TablesTyped
  BY DEF TablesInv
<1>2. n \in Nat /\ NextVersion(d) = n + 1 /\ Len(versions'[d]) = n + 1
  BY <1>1, DocParts DEF OpensVersion
<1>3. /\ k \in TasksOf(d) /\ row[k].status = "NONE" /\ row'[k] = NewRow(n + 1)
      /\ versions'[d][n + 1] = "PENDING" /\ doc'[d].version = n + 1
      /\ doc'[d].status = "PENDING" /\ doc'[d].active = doc[d].active
      /\ \A v \in 1..n : versions'[d][v] = Unbuilt(versions[d][v])
  BY <1>2 DEF OpensVersion, CreatesRow, DocIs, TasksOf
<1> HIDE DEF n
<1>4. /\ row'[k].status = "PENDING" /\ row'[k].version = n + 1 /\ row'[k].dispatch = 1
      /\ row'[k].claim = 0 /\ ~row'[k].live /\ row'[k].retry = 0
  BY <1>2, <1>3, NewRowOK
<1>5. ASSUME NEW j \in TasksOf(d) \ {k}
      PROVE  /\ RowOK(j)' /\ ~Runnable(j)'
             /\ row'[j].status = "NONE" <=> row[j].status = "NONE"
             /\ row[j].status # "NONE" => row'[j].version = row[j].version
             /\ row'[j].status = "DONE" => SameRow(j)
  <2>1. IF Runnable(j) THEN EndsRow(j) /\ row'[j].status # "DONE" ELSE SameRow(j)
    BY DEF OpensVersion, Supersedes
  <2>2. j \in Tasks /\ DocOf[j] = d /\ row[j] \in Row /\ RowOK(j) /\ Len(versions[d]) \in Nat
        /\ versions[d] \in Seq(VersionStatus) /\ row'[j] \in Row
    BY <1>1, DocParts DEF TablesTyped
  <2>3. RowOK(j)'
    BY <1>2, <2>1, <2>2, RowOKKept, SameIsKept DEF n
  <2> QED
    BY <2>1, <2>3 DEF EndsRow, SameRow, Runnable, Ended
<1>6. \A j \in TasksOf(d) : RowOK(j)'
  <2>1. RowOK(k)'
    BY <1>2, <1>3, <1>4 DEF RowOK, Unclaimed, TasksOf
  <2> QED
    BY <1>5, <2>1
<1>7. \A j \in TasksOf(d) : TargetOK(j)'
  <2>1. TargetOK(k)'
    BY <1>2, <1>3, <1>4 DEF TargetOK, TasksOf
  <2>2. \A j \in TasksOf(d) \ {k} : TargetOK(j)'
    BY <1>5 DEF TargetOK
  <2> QED
    BY <2>1, <2>2
<1>8. \A i, j \in TasksOf(d) :
        row'[i].status # "NONE" /\ row'[j].status # "NONE" /\ row'[i].version = row'[j].version
          => i = j
  <2>1. \A j \in TasksOf(d) \ {k} : row'[j].status # "NONE" => row'[j].version \in 1..n
    BY <1>1, <1>5, DocParts DEF n
  <2>2. \A j \in TasksOf(d) \ {k} : row'[j].status # "NONE" => row'[j].version # row'[k].version
    BY <1>2, <1>4, <2>1
  <2> QED
    BY <1>1, <1>5, <2>2, DocParts
<1>9. doc'[d].active <= Len(versions'[d])
  BY <1>1, <1>2, <1>3, DocParts DEF n
<1>10. \A v \in 1..Len(versions'[d]) :
         /\ versions'[d][v] \in {"PENDING", "RUNNING"} =>
              \E j \in TasksOf(d) : Runnable(j)' /\ row'[j].version = v
         /\ versions'[d][v] = "DONE" <=> v = doc'[d].active
  <2>1. Runnable(k)'
    BY <1>4 DEF Runnable
  <2>2. \A v \in 1..n : /\ versions'[d][v] \notin {"PENDING", "RUNNING"}
                        /\ versions'[d][v] = "DONE" <=> v = doc'[d].active
    BY <1>1, <1>3, DocParts DEF n, Unbuilt
  <2>3. doc'[d].active # n + 1
    BY <1>1, <1>2, <1>3, DocParts DEF n
  <2> QED
    BY <1>2, <1>3, <1>4, <2>1, <2>2, <2>3
<1>11. \A j \in TasksOf(d) : row'[j].status = "DONE" =>
         versions'[d][row'[j].version] \in {"DONE", "RETIRED"}
  <2>1. SUFFICES ASSUME NEW j \in TasksOf(d) \ {k}, row'[j].status = "DONE"
                 PROVE  versions'[d][row'[j].version] \in {"DONE", "RETIRED"}
    BY <1>4
  <2>2. row'[j] = row[j]
    BY <1>5, <2>1 DEF SameRow
  <2>3. row[j].version \in 1..n /\ versions[d][row[j].version] \in {"DONE", "RETIRED"}
    BY <1>1, <2>1, <2>2, DocParts DEF n
  <2> QED
    BY <1>3, <2>2, <2>3 DEF Unbuilt
<1> QED
  BY <1>6, <1>7, <1>8, <1>9, <1>10, <1>11 DEF DocOK, TasksOf

\* ... when its open version is given up,
LEMMA DropsDoc ==
  ASSUME TablesInv, TablesTyped', NEW d \in Docs, DropsVersion(d)
  PROVE  DocOK(d)'
<1> DEFINE n == Len(versions[d])
<1>1. DocOK(d) /\ TablesTyped
  BY DEF TablesInv
<1>2. n \in Nat /\ Len(versions'[d]) = n
  BY <1>1, DocParts DEF DropsVersion
<1>3. /\ doc'[d].active = doc[d].active
      /\ \A v \in 1..n : versions'[d][v] = Unbuilt(versions[d][v])
  BY <1>2 DEF DropsVersion, DocIs
<1> HIDE DEF n
<1>4. ASSUME NEW j \in TasksOf(d)
      PROVE  /\ RowOK(j)' /\ ~Runnable(j)'
             /\ row'[j].status = "NONE" <=> row[j].status = "NONE"
             /\ row[j].status # "NONE" => row'[j].version = row[j].version
             /\ row'[j].status = "DONE" => SameRow(j)
  <2>1. j # None
    BY TaskAssumption DEF TasksOf
  <2>2. IF Runnable(j) THEN EndsRow(j) /\ row'[j].status # "DONE" ELSE SameRow(j)
    BY <2>1 DEF DropsVersion, Supersedes
  <2>3. j \in Tasks /\ DocOf[j] = d /\ row[j] \in Row /\ RowOK(j) /\ Len(versions[d]) \in Nat
        /\ versions[d] \in Seq(VersionStatus) /\ row'[j] \in Row
    BY <1>1, DocParts DEF TablesTyped
  <2>4. RowOK(j)'
    BY <1>2, <2>2, <2>3, RowOKKept, SameIsKept DEF n
  <2> QED
    BY <2>2, <2>4 DEF EndsRow, SameRow, Runnable, Ended
<1>5. \A j \in TasksOf(d) : TargetOK(j)'
  BY <1>4 DEF TargetOK
<1>6. \A i, j \in TasksOf(d) :
        row'[i].status # "NONE" /\ row'[j].status # "NONE" /\ row'[i].version = row'[j].version
          => i = j
  BY <1>1, <1>4, DocParts
<1>7. doc'[d].active <= Len(versions'[d])
  BY <1>1, <1>2, <1>3, DocParts DEF n
<1>8. \A v \in 1..Len(versions'[d]) :
        /\ versions'[d][v] \in {"PENDING", "RUNNING"} =>
             \E j \in TasksOf(d) : Runnable(j)' /\ row'[j].version = v
        /\ versions'[d][v] = "DONE" <=> v = doc'[d].active
  BY <1>1, <1>2, <1>3, DocParts DEF n, Unbuilt
<1>9. \A j \in TasksOf(d) : row'[j].status = "DONE" =>
        versions'[d][row'[j].version] \in {"DONE", "RETIRED"}
  <2>1. SUFFICES ASSUME NEW j \in TasksOf(d), row'[j].status = "DONE"
                 PROVE  versions'[d][row'[j].version] \in {"DONE", "RETIRED"}
    OBVIOUS
  <2>2. row'[j] = row[j]
    BY <1>4, <2>1 DEF SameRow
  <2>3. row[j].version \in 1..n /\ versions[d][row[j].version] \in {"DONE", "RETIRED"}
    BY <1>1, <2>1, <2>2, DocParts DEF n
  <2> QED
    BY <1>3, <2>2, <2>3 DEF Unbuilt
<1> QED
  BY <1>4, <1>5, <1>6, <1>7, <1>8, <1>9 DEF DocOK, TasksOf

\* The runnable task is the only one, and its version the last.
LEMMA RunningTask ==
  ASSUME TablesInv, NEW d \in Docs, NEW k \in TasksOf(d), Runnable(k), OnlyTask(k)
  PROVE  /\ k \in Tasks /\ DocOf[k] = d /\ row[k] \in Row /\ RowOK(k)
         /\ row[k].version = Len(versions[d]) /\ row[k].version \in 1..Len(versions[d])
         /\ row[k].status = "RUNNING" => versions[d][row[k].version] = "RUNNING"
         /\ versions[d][row[k].version] # "DONE"
         /\ doc[d].active # row[k].version
         /\ \A v \in 1..Len(versions[d]) :
              versions[d][v] \in {"PENDING", "RUNNING"} => v = row[k].version
         /\ \A j \in TasksOf(d) \ {k} : SameRow(j) /\ ~Runnable(j)
         /\ doc[d].version = row[k].version
<1>1. DocOK(d) /\ TablesTyped
  BY DEF TablesInv
<1>2. /\ k \in Tasks /\ DocOf[k] = d /\ row[k] \in Row /\ RowOK(k) /\ TargetOK(k)
      /\ row[k].version \in 1..Len(versions[d])
  BY <1>1, DocParts DEF Runnable
<1>3. /\ row[k].version = Len(versions[d]) /\ doc[d].version = row[k].version
      /\ row[k].status = "RUNNING" => versions[d][row[k].version] = "RUNNING"
      /\ versions[d][row[k].version] # "DONE"
  BY <1>2 DEF TargetOK, Runnable
<1>4. doc[d].active # row[k].version
  BY <1>1, <1>2, <1>3, DocParts
<1>5. \A j \in TasksOf(d) \ {k} : SameRow(j) /\ ~Runnable(j)
  BY <1>2, OneRunnable DEF OnlyTask, TasksOf
<1> QED
  BY <1>2, <1>3, <1>4, <1>5, BuildingVersion

\* A change of one task: what its siblings keep.
LEMMA Siblings ==
  ASSUME TablesInv, TablesTyped', NEW d \in Docs, NEW k \in TasksOf(d), Runnable(k), OnlyTask(k),
         Len(versions'[d]) \in Nat, Len(versions[d]) <= Len(versions'[d])
  PROVE  \A j \in TasksOf(d) \ {k} :
           /\ RowOK(j)' /\ TargetOK(j)' /\ ~Runnable(j)' /\ row'[j] = row[j]
           /\ row[j].status # "NONE" =>
                row[j].version \in 1..Len(versions[d]) /\ row[j].version # row[k].version
<1>1. DocOK(d) /\ TablesTyped
  BY DEF TablesInv
<1>2. SUFFICES ASSUME NEW j \in TasksOf(d) \ {k}
               PROVE  /\ RowOK(j)' /\ TargetOK(j)' /\ ~Runnable(j)' /\ row'[j] = row[j]
                      /\ row[j].status # "NONE" =>
                           row[j].version \in 1..Len(versions[d]) /\ row[j].version # row[k].version
  OBVIOUS
<1>3. j \in Tasks /\ DocOf[j] = d /\ row[j] \in Row /\ RowOK(j)
      /\ versions[d] \in Seq(VersionStatus) /\ row'[j] \in Row
  BY <1>1, DocParts DEF TablesTyped
<1>4. SameRow(j) /\ ~Runnable(j)
  BY RunningTask
<1>5. RowOK(j)'
  BY <1>3, <1>4, SameIsKept, RowOKKept
<1>6. ~Runnable(j)' /\ TargetOK(j)'
  BY <1>4 DEF SameRow, Runnable, TargetOK
<1>7. row[j].status # "NONE" =>
        row[j].version \in 1..Len(versions[d]) /\ row[j].version # row[k].version
  <2>1. row[k].status # "NONE"
    BY DEF Runnable
  <2> QED
    BY <1>1, <2>1, DocParts
<1> QED
  BY <1>4, <1>5, <1>6, <1>7 DEF SameRow

\* ... when it fails or waits for a retry,
LEMMA FailsDoc ==
  ASSUME TablesInv, TablesTyped', NEW d \in Docs, NEW k \in Tasks, FailsVersion(d, k)
  PROVE  DocOK(d)'
<1> DEFINE n == Len(versions[d])
           u == row[k].version
<1>1. DocOK(d) /\ TablesTyped
  BY DEF TablesInv
<1>2. /\ k \in TasksOf(d) /\ row[k].status = "RUNNING" /\ Runnable(k) /\ OnlyTask(k)
      /\ EndsRow(k) \/ RearmsRow(k)
      /\ row'[k].version = u /\ doc'[d].active = doc[d].active
      /\ Len(versions'[d]) = n
      /\ \A v \in 1..n : versions'[d][v] = IF v = u THEN "FAILED" ELSE versions[d][v]
  BY DEF FailsVersion, Runnable, EndsRow, RearmsRow, DocIs
<1>3. /\ DocOf[k] = d /\ row[k] \in Row /\ RowOK(k) /\ u = n /\ u \in 1..n /\ n \in Nat
      /\ doc[d].active # u /\ doc[d].version = u
      /\ \A v \in 1..n : versions[d][v] \in {"PENDING", "RUNNING"} => v = u
      /\ versions[d] \in Seq(VersionStatus) /\ row'[k] \in Row
  BY <1>1, <1>2, RunningTask, DocParts DEF TablesTyped
<1>4. \A j \in TasksOf(d) \ {k} :
        /\ RowOK(j)' /\ TargetOK(j)' /\ ~Runnable(j)' /\ row'[j] = row[j]
        /\ row[j].status # "NONE" => row[j].version \in 1..n /\ row[j].version # u
  BY <1>2, <1>3, Siblings
<1>5. RowOK(k)'
  BY <1>2, <1>3, RowOKKept
<1>6. TargetOK(k)' /\ row'[k].status \notin {"NONE", "DONE"}
  <2>1. CASE EndsRow(k) /\ row'[k].status = "FAILED"
    BY <2>1 DEF TargetOK, Runnable
  <2>2. CASE RearmsRow(k) /\ row'[k].status = "PENDING" /\ row'[k].retry = row[k].retry + 1
             /\ DocIs(d, doc[d].version, doc[d].active, "PENDING")
    <3>1. row'[k].retry # 0
      BY <1>3, <2>2, RowFields
    <3> HIDE DEF n, u
    <3> QED
      BY <1>2, <1>3, <2>2, <3>1 DEF TargetOK, Runnable, DocIs, n
  <2> QED
    BY <2>1, <2>2 DEF FailsVersion
<1> HIDE DEF n, u
<1>7. \A i, j \in TasksOf(d) :
        row'[i].status # "NONE" /\ row'[j].status # "NONE" /\ row'[i].version = row'[j].version
          => i = j
  BY <1>1, <1>2, <1>4, DocParts
<1>8. doc'[d].active <= Len(versions'[d])
  BY <1>1, <1>2, DocParts DEF n
<1>9. \A v \in 1..n : versions[d][v] = "DONE" <=> v = doc[d].active
  BY <1>1, DocParts DEF n
<1>10. \A v \in 1..Len(versions'[d]) :
         /\ versions'[d][v] \in {"PENDING", "RUNNING"} =>
              \E j \in TasksOf(d) : Runnable(j)' /\ row'[j].version = v
         /\ versions'[d][v] = "DONE" <=> v = doc'[d].active
  BY <1>2, <1>3, <1>9
<1>11. \A j \in TasksOf(d) : row'[j].status = "DONE" =>
         versions'[d][row'[j].version] \in {"DONE", "RETIRED"}
  BY <1>1, <1>2, <1>4, <1>6, DocParts
<1> QED
  BY <1>4, <1>5, <1>6, <1>7, <1>8, <1>10, <1>11 DEF DocOK, TasksOf

\* ... when it is activated,
LEMMA ActivatesDoc ==
  ASSUME TablesInv, TablesTyped', NEW d \in Docs, NEW k \in Tasks, ActivatesVersion(d, k)
  PROVE  DocOK(d)'
<1> DEFINE n == Len(versions[d])
           u == row[k].version
           a == doc[d].active
<1>1. DocOK(d) /\ TablesTyped
  BY DEF TablesInv
<1>2. /\ k \in TasksOf(d) /\ row[k].status = "RUNNING" /\ Runnable(k) /\ OnlyTask(k)
      /\ EndsRow(k) /\ row'[k].status = "DONE"
      /\ row'[k].version = u /\ doc'[d].active = u
      /\ Len(versions'[d]) = n
  BY DEF ActivatesVersion, Runnable, EndsRow, DocIs
<1>3. \A v \in 1..n : versions'[d][v] = IF v = u THEN "DONE"
                                         ELSE IF v = a THEN "RETIRED" ELSE versions[d][v]
  <2>1. a # u
    BY <1>2, RunningTask
  <2>2. \A v \in 1..n : versions'[d][v] = CASE v = u -> "DONE"
                                            [] v = a -> "RETIRED"
                                            [] OTHER -> versions[d][v]
    BY DEF ActivatesVersion
  <2> HIDE DEF n, u, a
  <2> SUFFICES ASSUME NEW v \in 1..n
               PROVE  versions'[d][v] = IF v = u THEN "DONE"
                                         ELSE IF v = a THEN "RETIRED" ELSE versions[d][v]
    OBVIOUS
  <2>3. CASE v = u
    BY <2>1, <2>2, <2>3
  <2>4. CASE v # u /\ v = a
    BY <2>2, <2>4
  <2>5. CASE v # u /\ v # a
    BY <2>2, <2>5
  <2> QED
    BY <2>3, <2>4, <2>5
<1>4. /\ DocOf[k] = d /\ row[k] \in Row /\ RowOK(k) /\ u = n /\ u \in 1..n /\ n \in Nat
      /\ \A v \in 1..n : versions[d][v] \in {"PENDING", "RUNNING"} => v = u
      /\ versions[d] \in Seq(VersionStatus) /\ row'[k] \in Row
  BY <1>1, <1>2, RunningTask, DocParts DEF TablesTyped
<1>5. \A j \in TasksOf(d) \ {k} :
        /\ RowOK(j)' /\ TargetOK(j)' /\ ~Runnable(j)' /\ row'[j] = row[j]
        /\ row[j].status # "NONE" => row[j].version \in 1..n /\ row[j].version # u
  BY <1>2, <1>4, Siblings
<1>6. RowOK(k)'
  BY <1>2, <1>4, RowOKKept
<1>7. TargetOK(k)'
  BY <1>2 DEF TargetOK, Runnable
<1> HIDE DEF n, u, a
<1>8. \A i, j \in TasksOf(d) :
        row'[i].status # "NONE" /\ row'[j].status # "NONE" /\ row'[i].version = row'[j].version
          => i = j
  BY <1>1, <1>2, <1>5, DocParts
<1>9. doc'[d].active <= Len(versions'[d])
  BY <1>2, <1>4
<1>10. \A v \in 1..n : versions[d][v] = "DONE" <=> v = a
  BY <1>1, DocParts DEF n, a
<1>11. \A v \in 1..Len(versions'[d]) :
         /\ versions'[d][v] \in {"PENDING", "RUNNING"} =>
              \E j \in TasksOf(d) : Runnable(j)' /\ row'[j].version = v
         /\ versions'[d][v] = "DONE" <=> v = doc'[d].active
  BY <1>2, <1>3, <1>4, <1>10
<1>12. \A j \in TasksOf(d) : row'[j].status = "DONE" =>
         versions'[d][row'[j].version] \in {"DONE", "RETIRED"}
  <2>1. \A j \in TasksOf(d) \ {k} : row[j].status = "DONE" =>
          versions[d][row[j].version] \in {"DONE", "RETIRED"}
    BY <1>1, DocParts
  <2>2. SUFFICES ASSUME NEW j \in TasksOf(d) \ {k}, row'[j].status = "DONE"
                 PROVE  versions'[d][row'[j].version] \in {"DONE", "RETIRED"}
    BY <1>2, <1>3, <1>4
  <2>3. row'[j] = row[j] /\ row[j].version \in 1..n /\ row[j].version # u
    BY <1>5, <2>2
  <2> QED
    BY <1>3, <2>1, <2>2, <2>3
<1> QED
  BY <1>5, <1>6, <1>7, <1>8, <1>9, <1>11, <1>12 DEF DocOK, TasksOf

\* ... and when a claim builds it.
LEMMA BuildsDoc ==
  ASSUME TablesInv, TablesTyped', NEW d \in Docs, NEW k \in Tasks, BuildsVersion(d, k)
  PROVE  DocOK(d)'
<1> DEFINE n == Len(versions[d])
           m == Len(versions'[d])
           u == row[k].version
<1>1. DocOK(d) /\ TablesTyped
  BY DEF TablesInv
<1>2. PICK w \in Slots : ClaimsRow(w, k)
  BY DEF BuildsVersion
<1>3. Runnable(k) /\ row[k].claim < row[k].dispatch
  BY <1>2 DEF ClaimsRow, Matches, Due
<1>4. k \in TasksOf(d) /\ OnlyTask(k) /\ n \in Nat
  BY <1>1, DocParts DEF BuildsVersion
<1>5. /\ DocOf[k] = d /\ row[k] \in Row /\ RowOK(k) /\ u = n /\ u \in 1..n
      /\ doc[d].active # u /\ versions[d][u] # "DONE"
      /\ \A v \in 1..n : versions[d][v] \in {"PENDING", "RUNNING"} => v = u
      /\ row'[k] \in Row
  BY <1>1, <1>3, <1>4, RunningTask DEF TablesTyped
<1>6. /\ row'[k].version = m /\ versions'[d][m] = "RUNNING"
      /\ doc'[d].version = m /\ doc'[d].status = "PROCESSING" /\ doc'[d].active = doc[d].active
      /\ m = n \/ m = n + 1
      /\ \A v \in 1..n : v # m /\ v # u => versions'[d][v] = versions[d][v]
      /\ u # m => versions'[d][u] \in {"SUPERSEDED", "FAILED"}
  <2>1. /\ row'[k].version = m /\ versions'[d][m] = "RUNNING"
        /\ doc'[d].version = m /\ doc'[d].status = "PROCESSING" /\ doc'[d].active = doc[d].active
        /\ m = n \/ m = n + 1
    BY <1>1, DocParts DEF BuildsVersion, DocIs
  <2>2. \A v \in 1..n :
          v # m => versions'[d][v] = IF v # u THEN versions[d][v]
                     ELSE IF row[k].status = "RUNNING" THEN "SUPERSEDED" ELSE "FAILED"
    BY DEF BuildsVersion
  <2> HIDE DEF n, m, u
  <2> QED
    BY <1>5, <2>1, <2>2
<1>7. /\ row'[k].status = "RUNNING" /\ row'[k].due
      /\ row'[k].dispatch = row[k].dispatch /\ row'[k].claim = row[k].dispatch
      /\ row[k].dispatch \in Nat /\ row[k].dispatch > 0
  BY <1>2, <1>3, <1>5, RowFields DEF ClaimsRow
<1>8. m \in Nat /\ n <= m /\ m > 0
  BY <1>4, <1>5, <1>6
<1>9. \A j \in TasksOf(d) \ {k} :
        /\ RowOK(j)' /\ TargetOK(j)' /\ ~Runnable(j)' /\ row'[j] = row[j]
        /\ row[j].status # "NONE" => row[j].version \in 1..n /\ row[j].version # u
  BY <1>3, <1>4, <1>8, Siblings
<1>10. \A v \in 1..n : versions[d][v] = "DONE" <=> v = doc[d].active
  BY <1>1, DocParts
<1>11. doc[d].active \in Nat /\ doc[d].active <= n
  BY <1>1, DocParts
<1>12. DocOf[k] = d /\ m = Len(versions'[d])
  BY <1>5
<1> HIDE DEF n, m, u
<1>13. RowOK(k)'
  BY <1>6, <1>7, <1>8, <1>12 DEF RowOK, Unclaimed
<1>14. TargetOK(k)'
  BY <1>6, <1>7, <1>12 DEF TargetOK, Runnable
<1>15. \A j \in TasksOf(d) \ {k} : row'[j].status # "NONE" => row'[j].version # row'[k].version
  BY <1>4, <1>5, <1>6, <1>9
<1>16. \A i, j \in TasksOf(d) :
         row'[i].status # "NONE" /\ row'[j].status # "NONE" /\ row'[i].version = row'[j].version
           => i = j
  BY <1>1, <1>9, <1>15, DocParts
<1>17. doc'[d].active <= Len(versions'[d])
  BY <1>4, <1>6, <1>8, <1>11, <1>12
<1>18. Runnable(k)'
  BY <1>7 DEF Runnable
<1>19. \A v \in 1..m :
         /\ versions'[d][v] \in {"PENDING", "RUNNING"} => v = m
         /\ versions'[d][v] = "DONE" <=> v = doc'[d].active
  <2>1. SUFFICES ASSUME NEW v \in 1..m
                 PROVE  /\ versions'[d][v] \in {"PENDING", "RUNNING"} => v = m
                        /\ versions'[d][v] = "DONE" <=> v = doc[d].active
    BY <1>6
  <2>2. CASE v = m
    <3>1. doc[d].active # m
      BY <1>4, <1>5, <1>6, <1>11
    <3> QED
      BY <1>6, <2>2, <3>1
  <2>3. CASE v # m
    <3>1. v \in 1..n
      BY <1>4, <1>6, <2>3
    <3>2. CASE v = u
      BY <1>5, <1>6, <2>3, <3>2
    <3>3. CASE v # u
      BY <1>5, <1>6, <1>10, <2>3, <3>1, <3>3
    <3> QED
      BY <3>2, <3>3
  <2> QED
    BY <2>2, <2>3
<1>20. \A v \in 1..Len(versions'[d]) :
         /\ versions'[d][v] \in {"PENDING", "RUNNING"} =>
              \E j \in TasksOf(d) : Runnable(j)' /\ row'[j].version = v
         /\ versions'[d][v] = "DONE" <=> v = doc'[d].active
  BY <1>4, <1>6, <1>12, <1>18, <1>19
<1>21. \A j \in TasksOf(d) : row'[j].status = "DONE" =>
         versions'[d][row'[j].version] \in {"DONE", "RETIRED"}
  <2>1. \A j \in TasksOf(d) \ {k} : row[j].status = "DONE" =>
          versions[d][row[j].version] \in {"DONE", "RETIRED"}
    BY <1>1, DocParts
  <2>2. \A j \in TasksOf(d) \ {k} : row[j].status # "NONE" => row[j].version # m
    BY <1>4, <1>5, <1>6, <1>9
  <2>3. SUFFICES ASSUME NEW j \in TasksOf(d) \ {k}, row'[j].status = "DONE"
                 PROVE  versions'[d][row'[j].version] \in {"DONE", "RETIRED"}
    BY <1>7
  <2>4. row'[j] = row[j] /\ row[j].version \in 1..n /\ row[j].version # u
    BY <1>9, <2>3
  <2> QED
    BY <1>6, <2>1, <2>2, <2>3, <2>4
<1> QED
  BY <1>9, <1>13, <1>14, <1>16, <1>17, <1>20, <1>21 DEF DocOK, TasksOf

\* Every TableStep keeps the tables in order.
LEMMA TablesStep ==
  ASSUME TablesInv, LockInv, TablesTyped', TableStep
  PROVE  TablesInv'
<1>1. SUFFICES ASSUME NEW c \in Docs PROVE DocOK(c)'
  BY DEF TablesInv
<1>2. CASE TouchesRows
  BY <1>2, TouchesDocs
<1>3. ASSUME NEW d \in Docs, OnlyDoc(d),
             \/ DropsVersion(d)
             \/ \E k \in Tasks : \/ OpensVersion(d, k) \/ FailsVersion(d, k)
                                 \/ ActivatesVersion(d, k) \/ BuildsVersion(d, k)
      PROVE  DocOK(c)'
  <2>1. CASE c = d
    BY <1>3, <2>1, DropsDoc, OpensDoc, FailsDoc, ActivatesDoc, BuildsDoc
  <2>2. CASE c # d
    <3>1. DocOK(c) /\ doc'[c] = doc[c] /\ versions'[c] = versions[c]
      BY <1>3, <2>2 DEF TablesInv, OnlyDoc
    <3>2. \A k \in TasksOf(c) : SameRow(k)
      BY <1>3, <2>2 DEF OnlyDoc, TasksOf
    <3> QED
      BY <3>1, <3>2, SameDoc
  <2> QED
    BY <2>1, <2>2
<1> QED
  BY <1>2, <1>3 DEF TableStep

(***************************************************************************)
(* What a TableStep does to each row.                                       *)
(***************************************************************************)
LEMMA RowSteps ==
  ASSUME TableStep, NEW k \in Tasks
  PROVE  RowStep(k)
<1>1. CASE TouchesRows
  BY <1>1 DEF TouchesRows, RowStep
<1>2. CASE SameRow(k)
  BY <1>2, SameIsKept DEF RowStep
<1>3. ASSUME NEW d \in Docs, OnlyDoc(d), ~SameRow(k),
             \/ ~LockedDoc(d) /\ \/ DropsVersion(d)
                                 \/ \E j \in Tasks : \/ OpensVersion(d, j) \/ FailsVersion(d, j)
                                                     \/ ActivatesVersion(d, j)
             \/ \E j \in Tasks : BuildsVersion(d, j)
      PROVE  RowStep(k)
  <2>1. DocOf[k] = d /\ k \in TasksOf(d) /\ k # None
    BY <1>3, TaskAssumption DEF OnlyDoc, TasksOf
  <2>2. CASE DropsVersion(d) /\ ~LockedDoc(d)
    <3>1. EndsRow(k)
      BY <1>3, <2>1, <2>2 DEF DropsVersion, Supersedes
    <3> QED
      BY <2>1, <2>2, <3>1 DEF RowStep
  <2>3. ASSUME NEW j \in Tasks, OpensVersion(d, j), ~LockedDoc(d)
        PROVE  RowStep(k)
    <3>1. CreatesRow(k) \/ EndsRow(k)
      BY <1>3, <2>1, <2>3 DEF OpensVersion, Supersedes
    <3> QED
      BY <2>1, <2>3, <3>1 DEF RowStep
  <2>4. ASSUME NEW j \in Tasks, FailsVersion(d, j) \/ ActivatesVersion(d, j), ~LockedDoc(d)
        PROVE  RowStep(k)
    <3>1. EndsRow(k) \/ RearmsRow(k)
      BY <1>3, <2>4 DEF FailsVersion, ActivatesVersion, OnlyTask
    <3> QED
      BY <2>1, <2>4, <3>1 DEF RowStep
  <2>5. ASSUME NEW j \in Tasks, BuildsVersion(d, j)
        PROVE  RowStep(k)
    <3>1. \E w \in Slots : capLock' = None /\ ClaimsRow(w, k)
      BY <1>3, <2>5 DEF BuildsVersion, OnlyTask
    <3> QED
      BY <3>1 DEF RowStep
  <2> QED
    BY <1>3, <2>2, <2>3, <2>4, <2>5
<1> QED
  BY <1>1, <1>2, <1>3 DEF TableStep

\* Generations and statuses only go forward.
LEMMA RowForward ==
  ASSUME TablesInv, LockInv, NEW k \in Tasks, RowStep(k)
  PROVE  /\ row'[k].dispatch >= row[k].dispatch /\ row'[k].claim >= row[k].claim
         /\ row'[k].status = "RUNNING" =>
              \/ row'[k].claim > row[k].claim
              \/ row[k].status = "RUNNING" /\ row'[k].version = row[k].version
         /\ row[k].status \in Ended => row'[k].status = row[k].status
         /\ row[k].status # "NONE" => row'[k].status # "NONE"
<1>1. /\ row[k] \in Row /\ RowOK(k) /\ row[k].dispatch \in Nat /\ row[k].claim \in Nat
  BY TaskFacts, RowFields
<1>2. CASE KeepsRow(k)
  BY <1>1, <1>2 DEF KeepsRow
<1>3. CASE CreatesRow(k)
  <2>1. row[k].dispatch = 0 /\ row[k].claim = 0
    BY <1>1, <1>3 DEF CreatesRow, RowOK, NoRow
  <2>2. NextVersion(DocOf[k]) \in Nat
    BY TaskFacts, ElementOfVersions DEF NextVersion
  <2>3. row'[k].dispatch = 1 /\ row'[k].claim = 0 /\ row'[k].status = "PENDING"
    BY <1>3, <2>2, NewRowOK DEF CreatesRow
  <2> QED
    BY <1>3, <2>1, <2>3 DEF CreatesRow, Ended
<1>4. CASE EndsRow(k)
  BY <1>1, <1>4 DEF EndsRow, Ended, Runnable
<1>5. CASE RearmsRow(k)
  BY <1>1, <1>5 DEF RearmsRow, Ended, Runnable
<1>6. CASE \E w \in Slots : ClaimsRow(w, k)
  <2>1. /\ row'[k].dispatch >= row[k].dispatch /\ row'[k].claim > row[k].claim
        /\ row'[k].status # "NONE" /\ row[k].status \notin Ended
    BY <1>1, <1>6 DEF ClaimsRow, Matches, Due, Runnable, Ended
  <2>2. row'[k].claim \in Nat
    BY <1>1, <1>6 DEF ClaimsRow
  <2> QED
    BY <1>1, <2>1, <2>2
<1>7. CASE \E w \in Slots : RenewsRow(w, k)
  <2>1. /\ row'[k].dispatch = row[k].dispatch /\ row'[k].claim = row[k].claim
        /\ row'[k].status = row[k].status /\ row'[k].version = row[k].version
    BY <1>1, <1>7, RenewedRow
  <2> QED
    BY <1>1, <2>1
<1> QED
  BY <1>2, <1>3, <1>4, <1>5, <1>6, <1>7 DEF RowStep

\* A document never returns to an older version.
LEMMA ActiveForward ==
  ASSUME TablesInv, TableStep, NEW c \in Docs
  PROVE  doc'[c].active >= doc[c].active
<1>1. DocOK(c) /\ doc[c].active \in Nat /\ doc[c].active <= Len(versions[c])
      /\ Len(versions[c]) \in Nat
  BY DocParts DEF TablesInv
<1>2. CASE doc'[c].active = doc[c].active
  BY <1>1, <1>2
<1>3. ASSUME NEW d \in Docs, NEW k \in Tasks, OnlyDoc(d), ActivatesVersion(d, k)
      PROVE  doc'[c].active >= doc[c].active
  <2>1. CASE c = d
    <3>1. doc'[c].active = row[k].version /\ Runnable(k) /\ OnlyTask(k) /\ k \in TasksOf(c)
      BY <1>3, <2>1 DEF ActivatesVersion, DocIs, EndsRow
    <3>2. row[k].version = Len(versions[c])
      BY <3>1, RunningTask
    <3> QED
      BY <1>1, <3>1, <3>2
  <2>2. CASE c # d
    BY <1>2, <1>3, <2>2 DEF OnlyDoc
  <2> QED
    BY <2>1, <2>2
<1>4. CASE TouchesRows
  BY <1>2, <1>4 DEF TouchesRows
<1>5. ASSUME NEW d \in Docs, OnlyDoc(d),
             \/ DropsVersion(d)
             \/ \E k \in Tasks : OpensVersion(d, k) \/ FailsVersion(d, k) \/ BuildsVersion(d, k)
      PROVE  doc'[c].active >= doc[c].active
  <2>1. CASE c = d
    BY <1>2, <1>5, <2>1 DEF DropsVersion, OpensVersion, FailsVersion, BuildsVersion, DocIs
  <2>2. CASE c # d
    BY <1>2, <1>5, <2>2 DEF OnlyDoc
  <2> QED
    BY <2>1, <2>2
<1> QED
  BY <1>3, <1>4, <1>5 DEF TableStep

(***************************************************************************)
(* What a step does to the slots and the lock.                              *)
(***************************************************************************)
Idles(w) ==
    /\ slot' = [slot EXCEPT ![w] = SlotIdle]
    /\ capLock' = IF capLock = w THEN None ELSE capLock

Takes(w) ==
    /\ slot[w].pc = "idle" /\ capLock' = capLock
    /\ \E m \in Message : slot' = [slot EXCEPT ![w] = [SlotIdle EXCEPT !.pc = "held", !.msg = m]]

BeginsClaim(w) ==
    /\ slot[w].pc = "held" /\ capLock = None /\ row' = row
    /\ Matches(slot[w].msg) /\ ~Exhausted(slot[w].msg[1])
    /\ CapacityAvailable(slot[w].msg[1])
    /\ slot' = [slot EXCEPT ![w].pc = "claiming"] /\ capLock' = w

CommitsClaim(w) ==
    /\ slot[w].pc = "claiming" /\ capLock' = None
    /\ slot' = [slot EXCEPT ![w] = [pc |-> "running", msg |-> None, fence |-> FenceOf(w)]]
    /\ row'[slot[w].msg[1]].claim = slot[w].msg[2]

BeginsBeat(w) ==
    /\ slot[w].pc = "running" /\ capLock = None /\ row' = row /\ LiveFence(w)
    /\ slot' = [slot EXCEPT ![w].pc = "beating"] /\ capLock' = w

CommitsBeat(w) ==
    /\ slot[w].pc = "beating" /\ capLock' = None
    /\ slot' = [slot EXCEPT ![w].pc = "running"]

SlotStep ==
    \/ slot' = slot /\ capLock' = capLock
    \/ \E w \in Slots : \/ Idles(w) \/ Takes(w) \/ BeginsClaim(w) \/ CommitsClaim(w)
                        \/ BeginsBeat(w) \/ CommitsBeat(w)

\* Every step is a SlotStep.
LEMMA SlotSteps ==
  ASSUME IInv, [Next]_vars
  PROVE  SlotStep
<1>1. TablesInv /\ SlotsTyped /\ LockInv
  BY DEF IInv
<1>2. ASSUME NEW w \in Slots, slot[w].pc \in {"held", "running", "idle"}
      PROVE  capLock # w
  BY <1>1, <1>2 DEF LockInv, Locking
<1>3. CASE UNCHANGED <<slot, capLock>>
  BY <1>3 DEF SlotStep
<1>4. ASSUME NEW k \in Tasks,
             \/ AdvanceDocumentVersionAndCreateTask(k) \/ ListDispatchable(k)
             \/ ArmExpired(k) \/ RearmUnclaimed(k) \/ LeaseExpires(k) \/ NextRunDue(k)
      PROVE  SlotStep
  BY <1>3, <1>4 DEF AdvanceDocumentVersionAndCreateTask, ListDispatchable, ArmExpired,
     RearmUnclaimed, LeaseExpires, NextRunDue
<1>5. ASSUME NEW u \in Users, DisableUser(u) \/ EnableUser(u)
      PROVE  SlotStep
  BY <1>3, <1>5 DEF DisableUser, EnableUser
<1>6. CASE Publish \/ Mark \/ DispatcherStops
  BY <1>3, <1>6 DEF Publish, Mark, DispatcherStops
<1>7. ASSUME NEW w \in Slots, NEW m \in Message, TakeDelivery(w, m)
      PROVE  SlotStep
  BY <1>7 DEF TakeDelivery, SlotStep, Takes
<1>8. ASSUME NEW w \in Slots,
             \/ ClaimDuplicateStale(w) \/ ClaimInactiveOwner(w) \/ ClaimCapacityDeferred(w)
             \/ ClaimExhausted(w) \/ ClaimDeferred(w) \/ ClaimMaintenance(w)
      PROVE  SlotStep
  <2>1. Claiming(w) /\ Idle(w) /\ capLock' = capLock
    BY <1>8, Zenon DEF ClaimDuplicateStale, ClaimInactiveOwner, ClaimCapacityDeferred,
       ClaimExhausted, ClaimDeferred, ClaimMaintenance, Eligible
  <2>2. Idles(w)
    BY <1>2, <2>1 DEF Claiming, Idle, Idles
  <2> QED
    BY <2>2 DEF SlotStep
<1>9. ASSUME NEW w \in Slots, ClaimBegin(w)
      PROVE  SlotStep
  <2>1. BeginsClaim(w)
    BY <1>9 DEF ClaimBegin, Eligible, Claiming, BeginsClaim
  <2> QED
    BY <2>1 DEF SlotStep
<1>10. ASSUME NEW w \in Slots, ClaimCommit(w)
       PROVE  SlotStep
  <2>1. CommitsClaim(w)
    BY <1>1, <1>10, ClaimWriteTables DEF ClaimCommit, CommitsClaim
  <2> QED
    BY <2>1 DEF SlotStep
<1>11. ASSUME NEW w \in Slots, ClaimCommitLost(w)
       PROVE  SlotStep
  <2>1. Idles(w)
    BY <1>1, <1>11 DEF ClaimCommitLost, Idle, Idles, LockInv, Locking
  <2> QED
    BY <2>1 DEF SlotStep
<1>12. ASSUME NEW w \in Slots, HeartbeatBegin(w)
       PROVE  SlotStep
  <2>1. BeginsBeat(w)
    BY <1>12 DEF HeartbeatBegin, BeginsBeat
  <2> QED
    BY <2>1 DEF SlotStep
<1>13. ASSUME NEW w \in Slots, HeartbeatCommit(w)
       PROVE  SlotStep
  <2>1. CommitsBeat(w)
    BY <1>13 DEF HeartbeatCommit, CommitsBeat
  <2> QED
    BY <2>1 DEF SlotStep
<1>14. ASSUME NEW w \in Slots,
              \/ ActivateAndFinish(w) \/ Fail(w) \/ Quiesce(w) \/ Retry(w)
              \/ \E k \in Tasks : SupersedeRAGIndexTaskAndCreateVersion(w, k)
       PROVE  SlotStep
  <2>1. slot[w].pc = "running" /\ Idle(w) /\ capLock' = capLock
    BY <1>14, Zenon DEF ActivateAndFinish, Fail, Quiesce, Retry, SupersedeRAGIndexTaskAndCreateVersion,
       FenceTx
  <2>2. Idles(w)
    BY <1>2, <2>1 DEF Idle, Idles
  <2> QED
    BY <2>2 DEF SlotStep
<1>15. ASSUME NEW w \in Slots, SlotStops(w)
       PROVE  SlotStep
  <2>1. Idles(w)
    BY <1>15 DEF SlotStops, Idle, Idles
  <2> QED
    BY <2>1 DEF SlotStep
<1>16. CASE UNCHANGED vars
  BY <1>3, <1>16 DEF vars
<1> QED
  BY <1>4, <1>5, <1>6, <1>7, <1>8, <1>9, <1>10, <1>11, <1>12, <1>13, <1>14, <1>15, <1>16
     DEF Next, Claim, Finish

\* The fields of a slot that changes.
SlotIs(w, p, m, f) ==
    slot'[w] \in Slot /\ slot'[w].pc = p /\ slot'[w].msg = m /\ slot'[w].fence = f

\* The slot after each kind of step.
LEMMA SlotFields ==
  ASSUME SlotsTyped, NEW w \in Slots
  PROVE  /\ BeginsClaim(w) => SlotIs(w, "claiming", slot[w].msg, slot[w].fence)
         /\ BeginsBeat(w) => SlotIs(w, "beating", slot[w].msg, slot[w].fence)
         /\ CommitsBeat(w) => SlotIs(w, "running", slot[w].msg, slot[w].fence)
         /\ Idles(w) => SlotIs(w, "idle", None, None)
         /\ Takes(w) => \E m \in Message : SlotIs(w, "held", m, None)
<1>1. slot \in [Slots -> Slot] /\ slot[w] \in Slot
  BY DEF SlotsTyped
<1>2. ASSUME NEW m \in Message
      PROVE  [SlotIdle EXCEPT !.pc = "held", !.msg = m] = [pc |-> "held", msg |-> m, fence |-> None]
  <2> DEFINE q == [SlotIdle EXCEPT !.pc = "held"]
  <2>1. q = [pc |-> "held", msg |-> None, fence |-> None]
    BY DEF SlotIdle
  <2>2. [SlotIdle EXCEPT !.pc = "held", !.msg = m] = [q EXCEPT !.msg = m]
    OBVIOUS
  <2> HIDE DEF q
  <2>3. [q EXCEPT !.msg = m] = [pc |-> "held", msg |-> m, fence |-> None]
    BY <2>1
  <2> QED
    BY <2>2, <2>3
<1>3. ASSUME Takes(w)
      PROVE  \E m \in Message : SlotIs(w, "held", m, None)
  <2>1. PICK m \in Message : slot' = [slot EXCEPT ![w] = [SlotIdle EXCEPT !.pc = "held", !.msg = m]]
    BY <1>3 DEF Takes
  <2>2. slot'[w] = [pc |-> "held", msg |-> m, fence |-> None]
    BY <1>1, <1>2, <2>1
  <2>3. SlotIs(w, "held", m, None)
    BY <2>2 DEF SlotIs, Slot
  <2> QED
    BY <2>3
<1>4. ASSUME NEW p \in {"claiming", "beating", "running"}, slot' = [slot EXCEPT ![w].pc = p]
      PROVE  SlotIs(w, p, slot[w].msg, slot[w].fence)
  <2>1. slot'[w] = [slot[w] EXCEPT !.pc = p]
    BY <1>1, <1>4
  <2> QED
    BY <1>1, <2>1 DEF SlotIs, Slot
<1>5. BeginsClaim(w) => SlotIs(w, "claiming", slot[w].msg, slot[w].fence)
  BY <1>4 DEF BeginsClaim
<1>6. BeginsBeat(w) => SlotIs(w, "beating", slot[w].msg, slot[w].fence)
  BY <1>4 DEF BeginsBeat
<1>7. CommitsBeat(w) => SlotIs(w, "running", slot[w].msg, slot[w].fence)
  BY <1>4 DEF CommitsBeat
<1>8. ASSUME Idles(w)
      PROVE  SlotIs(w, "idle", None, None)
  <2>1. slot'[w] = SlotIdle
    BY <1>1, <1>8 DEF Idles
  <2> QED
    BY <2>1 DEF SlotIs, Slot, SlotIdle
<1> QED
  BY <1>3, <1>5, <1>6, <1>7, <1>8

\* One slot moves at a time.
LEMMA OtherSlots ==
  ASSUME SlotsTyped, NEW w \in Slots,
         \/ Idles(w) \/ Takes(w) \/ BeginsClaim(w) \/ CommitsClaim(w)
         \/ BeginsBeat(w) \/ CommitsBeat(w)
  PROVE  /\ \A v \in Slots \ {w} : slot'[v] = slot[v]
         /\ slot'[w] \in Slot => slot' \in [Slots -> Slot]
<1>1. PICK e : slot' = [slot EXCEPT ![w] = e]
  <2>1. CASE Idles(w) BY <2>1 DEF Idles
  <2>2. CASE Takes(w) BY <2>2 DEF Takes
  <2>3. CASE BeginsClaim(w) BY <2>3 DEF BeginsClaim
  <2>4. CASE CommitsClaim(w) BY <2>4 DEF CommitsClaim
  <2>5. CASE BeginsBeat(w) BY <2>5 DEF BeginsBeat
  <2>6. CASE CommitsBeat(w) BY <2>6 DEF CommitsBeat
  <2> QED BY <2>1, <2>2, <2>3, <2>4, <2>5, <2>6
<1>2. slot \in [Slots -> Slot]
  BY DEF SlotsTyped
<1> QED
  BY <1>1, <1>2

\* The fence a claim commits with.
LEMMA ClaimedFence ==
  ASSUME TablesInv, SlotsTyped, LockInv, NEW w \in Slots, slot[w].pc = "claiming"
  PROVE  /\ slot[w].msg \in Message /\ slot[w].msg[1] \in Tasks
         /\ slot[w].msg[2] \in 1..MaxGeneration
         /\ Matches(slot[w].msg) /\ ~Exhausted(slot[w].msg[1]) /\ Runnable(slot[w].msg[1])
         /\ FenceOf(w) \in Fence /\ FenceOf(w).task = slot[w].msg[1]
         /\ FenceOf(w).claim = slot[w].msg[2]
<1>1. slot[w].msg \in Message /\ Matches(slot[w].msg) /\ ~Exhausted(slot[w].msg[1])
  BY DEF SlotsTyped, LockInv
<1>2. slot[w].msg[1] \in Tasks /\ slot[w].msg[2] \in 1..MaxGeneration
  BY <1>1 DEF Message
<1>3. ClaimedVersion(slot[w].msg[1]) \in Nat
  BY <1>2, TaskFacts, RowFields, ElementOfVersions DEF ClaimedVersion, NextVersion
<1> QED
  BY <1>1, <1>2, <1>3 DEF FenceOf, Fence, Matches, Due

\* A committed claim runs with its fence and has no delivery.
LEMMA CommittedSlot ==
  ASSUME TablesInv, SlotsTyped, LockInv, NEW w \in Slots, CommitsClaim(w)
  PROVE  SlotIs(w, "running", None, FenceOf(w))
<1>1. slot'[w] = [pc |-> "running", msg |-> None, fence |-> FenceOf(w)]
  BY DEF CommitsClaim, SlotsTyped
<1>2. FenceOf(w) \in Fence
  BY ClaimedFence DEF CommitsClaim
<1> QED
  BY <1>1, <1>2 DEF SlotIs, Slot

\* Slots stay typed: deliveries before the claim, a fence after it.
LEMMA SlotTypes ==
  ASSUME TablesInv, SlotsTyped, LockInv, SlotStep
  PROVE  /\ slot' \in [Slots -> Slot] /\ capLock' \in Slots \cup {None}
         /\ \A w \in Slots :
              /\ slot'[w].pc \in {"held", "claiming"} => slot'[w].msg \in Message
              /\ slot'[w].pc \in {"idle", "running", "beating"} => slot'[w].msg = None
              /\ Fenced(w)' => slot'[w].fence \in Fence
<1>1. CASE slot' = slot /\ capLock' = capLock
  BY <1>1 DEF SlotsTyped, Fenced
<1>2. ASSUME NEW w \in Slots,
             \/ Idles(w) \/ Takes(w) \/ BeginsClaim(w) \/ CommitsClaim(w)
             \/ BeginsBeat(w) \/ CommitsBeat(w)
      PROVE  /\ slot' \in [Slots -> Slot] /\ capLock' \in Slots \cup {None}
             /\ \A v \in Slots :
                  /\ slot'[v].pc \in {"held", "claiming"} => slot'[v].msg \in Message
                  /\ slot'[v].pc \in {"idle", "running", "beating"} => slot'[v].msg = None
                  /\ Fenced(v)' => slot'[v].fence \in Fence
  <2>1. capLock' \in Slots \cup {None}
    BY <1>2 DEF SlotsTyped, Idles, Takes, BeginsClaim, CommitsClaim, BeginsBeat, CommitsBeat
  <2>2. /\ slot[w].msg \in Message \cup {None} /\ slot[w].fence \in Fence \cup {None}
        /\ slot[w].pc \in {"held", "claiming"} => slot[w].msg \in Message
        /\ slot[w].pc \in {"running", "beating"} => slot[w].msg = None /\ slot[w].fence \in Fence
    BY DEF SlotsTyped, Slot, Fenced
  <2>3. /\ slot'[w] \in Slot
        /\ slot'[w].pc \in {"held", "claiming"} => slot'[w].msg \in Message
        /\ slot'[w].pc \in {"idle", "running", "beating"} => slot'[w].msg = None
        /\ slot'[w].pc \in {"running", "beating"} => slot'[w].fence \in Fence
    <3>1. CASE Idles(w)
      BY <3>1, SlotFields DEF SlotIs
    <3>2. CASE Takes(w)
      BY <3>2, SlotFields DEF SlotIs
    <3>3. CASE BeginsClaim(w)
      <4>1. SlotIs(w, "claiming", slot[w].msg, slot[w].fence) /\ slot[w].pc = "held"
        BY <3>3, SlotFields DEF BeginsClaim
      <4> QED
        BY <2>2, <4>1 DEF SlotIs
    <3>4. CASE CommitsClaim(w)
      <4>1. SlotIs(w, "running", None, FenceOf(w)) /\ FenceOf(w) \in Fence
        BY <3>4, CommittedSlot, ClaimedFence DEF CommitsClaim
      <4> QED
        BY <4>1 DEF SlotIs
    <3>5. CASE BeginsBeat(w)
      <4>1. SlotIs(w, "beating", slot[w].msg, slot[w].fence) /\ slot[w].pc = "running"
        BY <3>5, SlotFields DEF BeginsBeat
      <4> QED
        BY <2>2, <4>1 DEF SlotIs
    <3>6. CASE CommitsBeat(w)
      <4>1. SlotIs(w, "running", slot[w].msg, slot[w].fence) /\ slot[w].pc = "beating"
        BY <3>6, SlotFields DEF CommitsBeat
      <4> QED
        BY <2>2, <4>1 DEF SlotIs
    <3> QED
      BY <1>2, <3>1, <3>2, <3>3, <3>4, <3>5, <3>6
  <2>4. \A v \in Slots \ {w} : slot'[v] = slot[v]
    BY <1>2, OtherSlots
  <2>5. slot' \in [Slots -> Slot]
    BY <1>2, <2>3, OtherSlots DEF SlotsTyped
  <2> QED
    BY <2>1, <2>3, <2>4, <2>5 DEF SlotsTyped, Fenced
<1> QED
  BY <1>1, <1>2 DEF SlotStep

(***************************************************************************)
(* The lock, and what was read under it.                                    *)
(***************************************************************************)
LEMMA LockOwner ==
  ASSUME TablesInv, SlotsTyped, LockInv, SlotStep, NEW v \in Slots
  PROVE  Locking(v)' <=> capLock' = v
<1>1. (slot[v].pc \in {"claiming", "beating"} <=> capLock = v) /\ v # None
  BY TaskAssumption DEF LockInv, Locking
<1>2. CASE slot' = slot /\ capLock' = capLock
  BY <1>1, <1>2 DEF Locking
<1>3. ASSUME NEW w \in Slots,
             \/ Idles(w) \/ Takes(w) \/ BeginsClaim(w) \/ CommitsClaim(w)
             \/ BeginsBeat(w) \/ CommitsBeat(w)
      PROVE  Locking(v)' <=> capLock' = v
  <2>1. v # w => slot'[v] = slot[v]
    BY <1>3, OtherSlots
  <2>2. slot[w].pc \in {"claiming", "beating"} <=> capLock = w
    BY DEF LockInv, Locking
  <2>3. CASE Idles(w)
    <3>1. slot'[w].pc = "idle" /\ capLock' = IF capLock = w THEN None ELSE capLock
      BY <2>3, SlotFields DEF Idles, SlotIs
    <3> QED
      BY <1>1, <2>1, <3>1 DEF Locking
  <2>4. CASE Takes(w)
    <3>1. slot'[w].pc = "held" /\ slot[w].pc = "idle" /\ capLock' = capLock
      BY <2>4, SlotFields DEF Takes, SlotIs
    <3> QED
      BY <1>1, <2>1, <3>1 DEF Locking
  <2>5. CASE BeginsClaim(w) \/ BeginsBeat(w)
    <3>1. slot'[w].pc \in {"claiming", "beating"} /\ capLock = None /\ capLock' = w
      BY <2>5, SlotFields DEF BeginsClaim, BeginsBeat, SlotIs
    <3> QED
      BY <1>1, <2>1, <3>1 DEF Locking
  <2>6. CASE CommitsClaim(w) \/ CommitsBeat(w)
    <3>1. slot'[w].pc = "running" /\ slot[w].pc \in {"claiming", "beating"} /\ capLock' = None
      BY <2>6, SlotFields, CommittedSlot DEF CommitsClaim, CommitsBeat, SlotIs
    <3> QED
      BY <1>1, <2>1, <2>2, <3>1 DEF Locking
  <2> QED
    BY <1>3, <2>3, <2>4, <2>5, <2>6
<1> QED
  BY <1>2, <1>3 DEF SlotStep

\* Nobody but the holder of the lock changes the row that it has read.
LEMMA LockedRow ==
  ASSUME TablesInv, SlotsTyped, LockInv, SlotStep, NEW v \in Slots, NEW k \in Tasks,
         Locking(v), Locking(v)', LockedDoc(DocOf[k]), RowStep(k)
  PROVE  KeepsRow(k)
<1>1. capLock' = v /\ v # None
  BY LockOwner, TaskAssumption
<1> QED
  BY <1>1 DEF RowStep

\* What SlotStep says of a slot that holds the lock.
LEMMA Locked ==
  ASSUME TablesInv, SlotsTyped, LockInv, SlotStep, NEW v \in Slots
  PROVE  /\ slot'[v].pc = "claiming" =>
              \/ slot[v].pc = "claiming" /\ slot'[v] = slot[v]
              \/ BeginsClaim(v)
         /\ slot'[v].pc = "beating" =>
              \/ slot[v].pc = "beating" /\ slot'[v] = slot[v]
              \/ BeginsBeat(v)
<1>1. CASE slot' = slot
  BY <1>1
<1>2. ASSUME NEW w \in Slots, w # v,
             \/ Idles(w) \/ Takes(w) \/ BeginsClaim(w) \/ CommitsClaim(w)
             \/ BeginsBeat(w) \/ CommitsBeat(w)
      PROVE  slot'[v] = slot[v]
  BY <1>2, OtherSlots
<1>3. ASSUME Idles(v) \/ Takes(v) \/ CommitsClaim(v) \/ CommitsBeat(v)
      PROVE  slot'[v].pc \in {"idle", "held", "running"}
  BY <1>3, SlotFields, CommittedSlot DEF SlotIs
<1>4. (BeginsClaim(v) => slot'[v].pc = "claiming") /\ (BeginsBeat(v) => slot'[v].pc = "beating")
  BY SlotFields DEF SlotIs
<1> QED
  BY <1>1, <1>2, <1>3, <1>4 DEF SlotStep

\* What the holder of the lock has read still holds.
LEMMA LockStep ==
  ASSUME TablesInv, SlotsTyped, LockInv, SlotStep, \A k \in Tasks : RowStep(k)
  PROVE  LockInv'
<1>1. \A w \in Slots : Locking(w)' <=> capLock' = w
  BY LockOwner
<1>2. ASSUME NEW w \in Slots, slot'[w].pc = "claiming"
      PROVE  Matches(slot[w].msg)' /\ Exhausted(slot[w].msg[1])' = FALSE
  <2>1. CASE BeginsClaim(w)
    <3>1. slot'[w].msg = slot[w].msg /\ row' = row
      BY <2>1, SlotFields DEF BeginsClaim, SlotIs
    <3> QED
      BY <2>1, <3>1 DEF BeginsClaim, Matches, Exhausted, Due, Runnable
  <2>2. CASE slot[w].pc = "claiming" /\ slot'[w] = slot[w]
    <3> DEFINE k == slot[w].msg[1]
    <3>1. k \in Tasks /\ Matches(slot[w].msg) /\ ~Exhausted(k)
      BY <2>2, ClaimedFence
    <3>2. KeepsRow(k)
      <4>1. LockedDoc(DocOf[k])
        BY <2>2 DEF LockedDoc
      <4>2. Locking(w) /\ Locking(w)'
        BY <2>2 DEF Locking
      <4> QED
        BY <3>1, <4>1, <4>2, LockedRow
    <3>3. slot'[w].msg = slot[w].msg
      BY <2>2
    <3> HIDE DEF k
    <3>4. /\ row'[k].status = row[k].status /\ row'[k].dispatch = row[k].dispatch
          /\ row'[k].claim = row[k].claim /\ row'[k].retry = row[k].retry
          /\ (row'[k].live => row[k].live) /\ (row[k].due => row'[k].due)
      BY <3>2 DEF KeepsRow
    <3>5. /\ k = slot[w].msg[1]
          /\ row[k].status \in {"PENDING", "RUNNING"} /\ row[k].due
          /\ row[k].status = "RUNNING" => ~row[k].live
          /\ row[k].dispatch = slot[w].msg[2] /\ row[k].dispatch > row[k].claim
          /\ ~(row[k].status = "RUNNING" /\ row[k].retry >= MaxRetry)
      BY <3>1 DEF k, Matches, Due, Runnable, Exhausted
    <3>6. /\ row'[k].status \in {"PENDING", "RUNNING"} /\ row'[k].due
          /\ row'[k].status = "RUNNING" => ~row'[k].live
          /\ row'[k].dispatch = slot[w].msg[2] /\ row'[k].dispatch > row'[k].claim
          /\ ~(row'[k].status = "RUNNING" /\ row'[k].retry >= MaxRetry)
      BY <3>4, <3>5
    <3> QED
      BY <3>3, <3>5, <3>6 DEF Matches, Due, Runnable, Exhausted
  <2> QED
    BY <1>2, <2>1, <2>2, Locked
<1>3. ASSUME NEW w \in Slots, slot'[w].pc = "beating"
      PROVE  LET k == slot'[w].fence.task
             IN  row'[k].status = "RUNNING" /\ ~(row'[k].dispatch > row'[k].claim)
  <2>1. CASE BeginsBeat(w)
    <3>1. slot'[w].fence = slot[w].fence /\ row' = row /\ slot[w].fence \in Fence
      BY <2>1, SlotFields DEF BeginsBeat, SlotIs, SlotsTyped, Fenced
    <3>2. slot[w].fence.task \in Tasks
      BY <3>1 DEF Fence
    <3>3. row[slot[w].fence.task].dispatch \in Nat
      BY <3>2, RowFields DEF TablesInv, TablesTyped
    <3> QED
      BY <2>1, <3>1, <3>3 DEF BeginsBeat, LiveFence
  <2>2. CASE slot[w].pc = "beating" /\ slot'[w] = slot[w]
    <3> DEFINE k == slot[w].fence.task
    <3>1. k \in Tasks
      BY <2>2 DEF SlotsTyped, Fenced, Fence
    <3>2. LockedDoc(DocOf[k]) /\ Locking(w) /\ Locking(w)'
      BY <2>2 DEF LockedDoc, Locking
    <3>3. KeepsRow(k)
      BY <3>1, <3>2, LockedRow
    <3>4. row[k].status = "RUNNING" /\ ~Unclaimed(k)
      BY <2>2 DEF LockInv
    <3>5. row'[k].status = "RUNNING" /\ ~(row'[k].dispatch > row'[k].claim)
      BY <3>3, <3>4 DEF KeepsRow, Unclaimed
    <3> QED
      BY <2>2, <3>5
  <2> QED
    BY <1>3, <2>1, <2>2, Locked
<1> QED
  BY <1>1, <1>2, <1>3 DEF LockInv, Unclaimed

(***************************************************************************)
(* The fences.                                                              *)
(***************************************************************************)
\* A fence is what it was, unless its slot has just committed a claim.
LEMMA FenceKept ==
  ASSUME TablesInv, SlotsTyped, LockInv, SlotStep, NEW v \in Slots, Fenced(v)'
  PROVE  \/ Fenced(v) /\ slot'[v].fence = slot[v].fence /\ ~CommitsClaim(v)
         \/ CommitsClaim(v) /\ slot'[v].fence = FenceOf(v)
<1>1. CASE slot' = slot
  <2>1. ~CommitsClaim(v)
    BY <1>1, CommittedSlot DEF CommitsClaim, SlotIs
  <2> QED
    BY <1>1, <2>1 DEF Fenced
<1>2. ASSUME NEW w \in Slots, w # v,
             \/ Idles(w) \/ Takes(w) \/ BeginsClaim(w) \/ CommitsClaim(w)
             \/ BeginsBeat(w) \/ CommitsBeat(w)
      PROVE  Fenced(v) /\ slot'[v].fence = slot[v].fence /\ ~CommitsClaim(v)
  <2>1. slot'[v] = slot[v]
    BY <1>2, OtherSlots
  <2>2. ~CommitsClaim(v)
    BY <2>1, CommittedSlot DEF CommitsClaim, SlotIs
  <2> QED
    BY <2>1, <2>2 DEF Fenced
<1>3. CASE CommitsClaim(v)
  BY <1>3, CommittedSlot DEF SlotIs
<1>4. CASE (BeginsBeat(v) \/ CommitsBeat(v)) /\ ~CommitsClaim(v)
  BY <1>4, SlotFields DEF BeginsBeat, CommitsBeat, SlotIs, Fenced
<1>5. CASE Idles(v) \/ Takes(v) \/ BeginsClaim(v)
  <2>1. slot'[v].pc \in {"idle", "held", "claiming"}
    BY <1>5, SlotFields DEF SlotIs
  <2> QED
    BY <2>1 DEF Fenced
<1> QED
  BY <1>1, <1>2, <1>3, <1>4, <1>5 DEF SlotStep

\* A fence that is kept is older than one that is committed now.
LEMMA OlderFence ==
  ASSUME TablesInv, SlotsTyped, LockInv, FencesInv, NEW v \in Slots, NEW w \in Slots,
         Fenced(v), CommitsClaim(w), slot[v].fence.task = FenceOf(w).task
  PROVE  slot[v].fence.claim < FenceOf(w).claim
<1> DEFINE k == slot[w].msg[1]
<1>1. /\ k \in Tasks /\ Matches(slot[w].msg) /\ FenceOf(w).task = k
      /\ FenceOf(w).claim = slot[w].msg[2] /\ slot[w].msg[2] \in 1..MaxGeneration
  BY ClaimedFence DEF CommitsClaim
<1>2. slot[v].fence.claim <= row[k].claim /\ slot[v].fence \in Fence
  BY <1>1 DEF FencesInv, SlotsTyped
<1>3. slot[v].fence.claim \in 1..MaxGeneration
  BY <1>2 DEF Fence
<1>4. row[k].claim \in Nat
  BY <1>1, RowFields DEF TablesInv, TablesTyped
<1>5. slot[w].msg[2] > row[k].claim
  BY <1>1 DEF Matches
<1> HIDE DEF k
<1> QED
  BY <1>1, <1>2, <1>3, <1>4, <1>5

\* A generation has one fence, and its row has reached it.
LEMMA FenceStep ==
  ASSUME TablesInv, TablesTyped', SlotsTyped, LockInv, FencesInv, SlotStep,
         \A k \in Tasks : RowStep(k)
  PROVE  FencesInv'
<1>1. ASSUME NEW w \in Slots, Fenced(w)'
      PROVE  slot'[w].fence.claim <= row'[slot'[w].fence.task].claim
  <2>1. CASE Fenced(w) /\ slot'[w].fence = slot[w].fence
    <3> DEFINE k == slot[w].fence.task
    <3>1. k \in Tasks /\ slot[w].fence.claim \in Nat /\ slot[w].fence.claim <= row[k].claim
      BY <2>1 DEF SlotsTyped, Fence, FencesInv
    <3>2. row'[k].claim >= row[k].claim
      BY <3>1, RowForward
    <3>3. row[k].claim \in Nat /\ row'[k].claim \in Nat
      BY <3>1, RowFields DEF TablesInv, TablesTyped
    <3> HIDE DEF k
    <3>4. slot[w].fence.claim <= row'[k].claim
      BY <3>1, <3>2, <3>3
    <3> QED
      BY <2>1, <3>4 DEF k
  <2>2. CASE CommitsClaim(w) /\ slot'[w].fence = FenceOf(w)
    <3>1. /\ FenceOf(w).task = slot[w].msg[1] /\ FenceOf(w).claim = slot[w].msg[2]
          /\ slot[w].msg[2] \in 1..MaxGeneration
      BY <2>2, ClaimedFence DEF CommitsClaim
    <3>2. row'[slot[w].msg[1]].claim = slot[w].msg[2]
      BY <2>2 DEF CommitsClaim
    <3> QED
      BY <2>2, <3>1, <3>2
  <2> QED
    BY <1>1, <2>1, <2>2, FenceKept
<1>2. ASSUME NEW v \in Slots, NEW w \in Slots, Fenced(v)', Fenced(w)', v # w,
             slot'[v].fence.task = slot'[w].fence.task,
             slot'[v].fence.claim = slot'[w].fence.claim
      PROVE  FALSE
  <2>1. CASE CommitsClaim(v) /\ CommitsClaim(w)
    BY <1>2, <2>1 DEF CommitsClaim, LockInv, Locking
  <2>2. ASSUME NEW x \in Slots, NEW y \in Slots, Fenced(x)', Fenced(y)',
               CommitsClaim(y), ~CommitsClaim(x), slot'[x].fence.task = slot'[y].fence.task,
               slot'[x].fence.claim = slot'[y].fence.claim
        PROVE  FALSE
    <3>1. Fenced(x) /\ slot'[x].fence = slot[x].fence /\ slot'[y].fence = FenceOf(y)
      BY <2>2, FenceKept
    <3>2. slot[x].fence.claim < FenceOf(y).claim
      BY <2>2, <3>1, OlderFence
    <3>3. FenceOf(y).claim \in Nat
      BY <2>2, ClaimedFence DEF CommitsClaim
    <3> QED
      BY <2>2, <3>1, <3>2, <3>3
  <2>3. CASE ~CommitsClaim(v) /\ ~CommitsClaim(w)
    <3>1. /\ Fenced(v) /\ slot'[v].fence = slot[v].fence
          /\ Fenced(w) /\ slot'[w].fence = slot[w].fence
      BY <1>2, <2>3, FenceKept
    <3> QED
      BY <1>2, <3>1 DEF FencesInv
  <2> QED
    BY <1>2, <2>1, <2>2, <2>3
<1> QED
  BY <1>1, <1>2 DEF FencesInv

(***************************************************************************)
(* What a step does to the users and the counters.                          *)
(***************************************************************************)
CounterStep ==
    \/ enabled' \subseteq enabled /\ (faults' = faults \/ Fault)
    \/ \E u \in Users : EnableUser(u)

\* Every step is a CounterStep.
LEMMA CounterSteps ==
  ASSUME [Next]_vars
  PROVE  CounterStep
<1>1. CASE enabled' = enabled /\ (faults' = faults \/ Fault)
  BY <1>1 DEF CounterStep
<1>2. ASSUME NEW k \in Tasks,
             \/ AdvanceDocumentVersionAndCreateTask(k) \/ ListDispatchable(k)
             \/ ArmExpired(k) \/ RearmUnclaimed(k) \/ LeaseExpires(k) \/ NextRunDue(k)
      PROVE  CounterStep
  BY <1>1, <1>2 DEF AdvanceDocumentVersionAndCreateTask, ListDispatchable, ArmExpired,
     RearmUnclaimed, LeaseExpires, NextRunDue
<1>3. ASSUME NEW u \in Users, DisableUser(u) \/ EnableUser(u)
      PROVE  CounterStep
  BY <1>3 DEF DisableUser, CounterStep
<1>4. CASE Publish \/ Mark \/ DispatcherStops
  BY <1>1, <1>4 DEF Publish, Mark, DispatcherStops
<1>5. ASSUME NEW w \in Slots,
             \/ \E m \in Message : TakeDelivery(w, m)
             \/ ClaimDuplicateStale(w) \/ ClaimInactiveOwner(w) \/ ClaimCapacityDeferred(w)
             \/ ClaimExhausted(w) \/ ClaimBegin(w) \/ ClaimDeferred(w) \/ ClaimMaintenance(w)
             \/ ClaimCommit(w) \/ ClaimCommitLost(w)
      PROVE  CounterStep
  BY <1>1, <1>5, Zenon DEF TakeDelivery, ClaimDuplicateStale, ClaimInactiveOwner, ClaimCapacityDeferred,
     ClaimExhausted, ClaimBegin, ClaimDeferred, ClaimMaintenance, ClaimCommit, ClaimCommitLost
<1>6. ASSUME NEW w \in Slots,
             \/ HeartbeatBegin(w) \/ HeartbeatCommit(w) \/ ActivateAndFinish(w) \/ Fail(w)
             \/ Quiesce(w) \/ Retry(w) \/ SlotStops(w)
             \/ \E k \in Tasks : SupersedeRAGIndexTaskAndCreateVersion(w, k)
      PROVE  CounterStep
  BY <1>1, <1>6, Zenon DEF HeartbeatBegin, HeartbeatCommit, ActivateAndFinish, Fail, Quiesce, Retry,
     SlotStops, SupersedeRAGIndexTaskAndCreateVersion
<1>7. CASE UNCHANGED vars
  BY <1>1, <1>7 DEF vars
<1> QED
  BY <1>2, <1>3, <1>4, <1>5, <1>6, <1>7 DEF Next, Claim, Finish

\* The counters stay within the bounds; without a re-enabled user, users only go.
LEMMA CounterTypes ==
  ASSUME SlotsTyped, CounterStep
  PROVE  /\ enabled' \in SUBSET Users
         /\ faults' \in [faults : Nat, reenables : Nat, bound : Bounds]
         /\ faults'.faults <= faults'.bound.faults
         /\ faults'.reenables <= faults'.bound.reenables
         /\ faults'.reenables = 0 => faults.reenables = 0 /\ enabled' \subseteq enabled
<1>1. /\ enabled \in SUBSET Users
      /\ faults \in [faults : Nat, reenables : Nat, bound : Bounds]
      /\ faults.faults <= faults.bound.faults /\ faults.reenables <= faults.bound.reenables
      /\ faults.faults \in Nat /\ faults.reenables \in Nat
  BY DEF SlotsTyped
<1>2. faults.bound.faults \in Nat /\ faults.bound.reenables \in Nat
  BY <1>1, TaskAssumption
<1>3. CASE enabled' \subseteq enabled /\ faults' = faults
  BY <1>1, <1>3
<1>4. CASE enabled' \subseteq enabled /\ Fault
  BY <1>1, <1>2, <1>4 DEF Fault
<1>5. ASSUME NEW u \in Users, EnableUser(u)
      PROVE  /\ enabled' \in SUBSET Users
             /\ faults' \in [faults : Nat, reenables : Nat, bound : Bounds]
             /\ faults'.faults <= faults'.bound.faults
             /\ faults'.reenables <= faults'.bound.reenables
             /\ faults'.reenables = 0 => faults.reenables = 0 /\ enabled' \subseteq enabled
  BY <1>1, <1>2, <1>5 DEF EnableUser
<1> QED
  BY <1>3, <1>4, <1>5 DEF CounterStep

\* Slots, lock, users and counters stay typed.
LEMMA TypesStep ==
  ASSUME TablesInv, SlotsTyped, LockInv, SlotStep, CounterStep
  PROVE  SlotsTyped'
<1>1. /\ slot' \in [Slots -> Slot] /\ capLock' \in Slots \cup {None}
      /\ \A w \in Slots :
           /\ slot'[w].pc \in {"held", "claiming"} => slot'[w].msg \in Message
           /\ slot'[w].pc \in {"idle", "running", "beating"} => slot'[w].msg = None
           /\ Fenced(w)' => slot'[w].fence \in Fence
  BY SlotTypes
<1>2. /\ enabled' \in SUBSET Users
      /\ faults' \in [faults : Nat, reenables : Nat, bound : Bounds]
      /\ faults'.faults <= faults'.bound.faults
      /\ faults'.reenables <= faults'.bound.reenables
  BY CounterTypes
<1> QED
  BY <1>1, <1>2 DEF SlotsTyped

(***************************************************************************)
(* What a step does to the copies of a delivery and to the dispatcher.      *)
(***************************************************************************)
\* A delivery that its row does not count on after the step.
Gone(n) ==
    \A k \in Tasks : n = <<k, row'[k].dispatch>> /\ Runnable(k)' /\ Unclaimed(k)' => ~Awaited(k)'

KeepsCopies ==
    queue' \in [Message -> Nat] /\ \A m \in Message : Copies(m)' = Copies(m)

DropsCopy(n) ==
    /\ queue' \in [Message -> Nat] /\ Gone(n)
    /\ \A m \in Message : Copies(m)' <= Copies(m) /\ (m # n => Copies(m)' = Copies(m))

AddsCopy(n) ==
    /\ queue' \in [Message -> Nat]
    /\ \A m \in Message :
         Copies(m)' = IF m = n /\ Copies(m) < MaxCopies THEN Copies(m) + 1 ELSE Copies(m)

DeliveryStep ==
    \/ KeepsCopies /\ (pub' = pub \/ pub' = PubIdle)
    \/ \E k \in Tasks : KeepsCopies /\ ListDispatchable(k)
    \/ \E n \in Message : DropsCopy(n) /\ pub' = pub
    \/ /\ pub.pc = "listed" /\ pub' = [pub EXCEPT !.pc = "published"]
       /\ AddsCopy(<<pub.task, pub.row.dispatch>>)

\* Finitely many slots hold a delivery.
LEMMA HeldFinite ==
  ASSUME NEW m
  PROVE  /\ IsFiniteSet(Held(m)) /\ Cardinality(Held(m)) \in Nat
         /\ IsFiniteSet(Held(m)') /\ Cardinality(Held(m)') \in Nat
<1>1. IsFiniteSet(Slots) /\ Held(m) \subseteq Slots /\ Held(m)' \subseteq Slots
  BY TaskAssumption DEF Held
<1> QED
  BY <1>1, FS_Subset, FS_CardinalityType

\* One slot moves.
LEMMA HeldMoves ==
  ASSUME NEW m, NEW w \in Slots, \A v \in Slots \ {w} : slot'[v] = slot[v]
  PROVE  /\ (w \in Held(m) <=> w \in Held(m)') =>
              Cardinality(Held(m)') = Cardinality(Held(m))
         /\ w \in Held(m) /\ w \notin Held(m)' =>
              Cardinality(Held(m)') = Cardinality(Held(m)) - 1
         /\ w \notin Held(m) /\ w \in Held(m)' =>
              Cardinality(Held(m)') = Cardinality(Held(m)) + 1
<1> DEFINE H == Held(m)  G == Held(m)'
<1>1. IsFiniteSet(H) /\ Cardinality(H) \in Nat /\ IsFiniteSet(G) /\ Cardinality(G) \in Nat
  BY HeldFinite
<1>2. \A v \in Slots \ {w} : v \in H <=> v \in G
  BY DEF Held
<1>3. H \subseteq Slots /\ G \subseteq Slots
  BY DEF Held
<1> HIDE DEF H, G
<1>4. (w \in H <=> w \in G) => G = H
  BY <1>2, <1>3
<1>5. w \in H /\ w \notin G => G = H \ {w}
  BY <1>2, <1>3
<1>6. w \notin H /\ w \in G => G = H \cup {w}
  BY <1>2, <1>3
<1>7. w \in H => Cardinality(H \ {w}) = Cardinality(H) - 1
  BY <1>1, FS_RemoveElement
<1>8. w \notin H => Cardinality(H \cup {w}) = Cardinality(H) + 1
  BY <1>1, FS_AddElement
<1>9. /\ (w \in H <=> w \in G) => Cardinality(G) = Cardinality(H)
      /\ w \in H /\ w \notin G => Cardinality(G) = Cardinality(H) - 1
      /\ w \notin H /\ w \in G => Cardinality(G) = Cardinality(H) + 1
  BY <1>4, <1>5, <1>6, <1>7, <1>8
<1> QED
  BY <1>9 DEF H, G

\* A slot that changes and holds the same delivery as before, or none.
LEMMA SameHeld ==
  ASSUME DeliveriesInv, NEW w \in Slots, \A v \in Slots \ {w} : slot'[v] = slot[v],
         \A m \in Message : w \in Held(m) <=> w \in Held(m)', queue' = queue
  PROVE  KeepsCopies
<1>1. \A m \in Message : Cardinality(Held(m)') = Cardinality(Held(m))
  BY HeldMoves
<1> QED
  BY <1>1 DEF KeepsCopies, Copies, DeliveriesInv

\* A step that touches neither slots nor queue keeps the copies.
LEMMA UnchangedHeld ==
  ASSUME DeliveriesInv, slot' = slot, queue' = queue
  PROVE  KeepsCopies
<1>1. \A m \in Message : Held(m)' = Held(m)
  BY DEF Held
<1> QED
  BY <1>1 DEF KeepsCopies, Copies, DeliveriesInv

\* A slot gives its delivery back, or acknowledges it.
Releases(w) ==
    /\ \A v \in Slots \ {w} : slot'[v] = slot[v]
    /\ slot[w].pc \in {"held", "claiming"} /\ slot'[w].pc \notin {"held", "claiming"}

\* A nack moves the copy from the slot to the queue.
LEMMA GivenBack ==
  ASSUME SlotsTyped, DeliveriesInv, NEW w \in Slots, Releases(w), NackRequeue(w)
  PROVE  KeepsCopies
<1> DEFINE n == slot[w].msg
<1>1. n \in Message /\ queue \in [Message -> Nat]
  BY DEF Releases, SlotsTyped, DeliveriesInv
<1>2. \A m \in Message : queue'[m] = IF m = n THEN queue[m] + 1 ELSE queue[m]
  BY <1>1 DEF NackRequeue
<1>3. queue' \in [Message -> Nat]
  BY <1>1 DEF NackRequeue
<1>4. \A m \in Message : (w \in Held(m) <=> m = n) /\ w \notin Held(m)'
  BY DEF Releases, Held
<1>5. \A m \in Message : Cardinality(Held(m)') =
         IF m = n THEN Cardinality(Held(m)) - 1 ELSE Cardinality(Held(m))
  BY <1>4, HeldMoves DEF Releases
<1> HIDE DEF n
<1>6. ASSUME NEW m \in Message
      PROVE  queue'[m] + Cardinality(Held(m)') = queue[m] + Cardinality(Held(m))
  <2>1. queue[m] \in Nat /\ Cardinality(Held(m)) \in Nat
    BY <1>1, HeldFinite
  <2> QED
    BY <1>2, <1>5, <2>1
<1> QED
  BY <1>3, <1>6 DEF KeepsCopies, Copies

\* An acknowledgement drops one copy of a delivery that nobody counts on.
LEMMA Acknowledged ==
  ASSUME SlotsTyped, DeliveriesInv, NEW w \in Slots, Releases(w), Ack(w), Gone(slot[w].msg)
  PROVE  \E n \in Message : DropsCopy(n)
<1> DEFINE n == slot[w].msg
<1>1. n \in Message /\ queue \in [Message -> Nat] /\ queue' = queue
  BY DEF Releases, SlotsTyped, DeliveriesInv, Ack
<1>2. \A m \in Message : (w \in Held(m) <=> m = n) /\ w \notin Held(m)'
  BY DEF Releases, Held
<1>3. \A m \in Message : Cardinality(Held(m)') =
         IF m = n THEN Cardinality(Held(m)) - 1 ELSE Cardinality(Held(m))
  BY <1>2, HeldMoves DEF Releases
<1>4. Gone(n)
  OBVIOUS
<1> HIDE DEF n
<1>5. ASSUME NEW m \in Message
      PROVE  /\ queue'[m] + Cardinality(Held(m)') <= queue[m] + Cardinality(Held(m))
             /\ m # n => queue'[m] + Cardinality(Held(m)') = queue[m] + Cardinality(Held(m))
  <2>1. queue[m] \in Nat /\ Cardinality(Held(m)) \in Nat
    BY <1>1, HeldFinite
  <2> QED
    BY <1>1, <1>3, <2>1
<1>6. DropsCopy(n)
  BY <1>1, <1>4, <1>5 DEF DropsCopy, Copies
<1> QED
  BY <1>1, <1>6

\* A slot that goes idle.
LEMMA IdleSlot ==
  ASSUME SlotsTyped, NEW w \in Slots, Idle(w)
  PROVE  /\ slot'[w] = SlotIdle /\ slot'[w].pc = "idle"
         /\ \A v \in Slots \ {w} : slot'[v] = slot[v]
BY DEF SlotsTyped, Idle, SlotIdle

\* A slot that goes idle releases the delivery it held.
LEMMA IdleReleases ==
  ASSUME SlotsTyped, NEW w \in Slots, Idle(w), slot[w].pc \in {"held", "claiming"}
  PROVE  Releases(w)
BY IdleSlot DEF Releases

\* A slot that runs a claim has no delivery.
LEMMA IdleKeeps ==
  ASSUME SlotsTyped, DeliveriesInv, NEW w \in Slots, Idle(w), queue' = queue,
         slot[w].pc \in {"idle", "running", "beating"}
  PROVE  KeepsCopies
<1>1. slot'[w].pc = "idle" /\ \A v \in Slots \ {w} : slot'[v] = slot[v]
  BY IdleSlot
<1>2. \A m \in Message : w \notin Held(m) /\ w \notin Held(m)'
  BY <1>1 DEF Held
<1> QED
  BY <1>1, <1>2, SameHeld

\* A delivery moves the copy from the queue to the slot.
LEMMA TakenKeeps ==
  ASSUME SlotsTyped, DeliveriesInv, NEW w \in Slots, NEW n \in Message, TakeDelivery(w, n)
  PROVE  KeepsCopies
<1>1. queue \in [Message -> Nat] /\ queue[n] > 0 /\ slot[w].pc = "idle"
  BY DEF TakeDelivery, DeliveriesInv
<1>2. \A m \in Message : queue'[m] = IF m = n THEN queue[m] - 1 ELSE queue[m]
  BY <1>1 DEF TakeDelivery
<1>3. queue' \in [Message -> Nat]
  BY <1>1 DEF TakeDelivery
<1>4. slot'[w].pc = "held" /\ slot'[w].msg = n
  <2> DEFINE q == [SlotIdle EXCEPT !.pc = "held"]
  <2>1. q = [pc |-> "held", msg |-> None, fence |-> None]
    BY DEF SlotIdle
  <2>2. slot' = [slot EXCEPT ![w] = [q EXCEPT !.msg = n]]
    BY DEF TakeDelivery
  <2> HIDE DEF q
  <2>3. slot'[w] = [q EXCEPT !.msg = n]
    BY <2>2 DEF SlotsTyped
  <2> QED
    BY <2>1, <2>3
<1>5. \A v \in Slots \ {w} : slot'[v] = slot[v]
  BY DEF TakeDelivery, SlotsTyped
<1>6. \A m \in Message : w \notin Held(m) /\ (w \in Held(m)' <=> m = n)
  BY <1>1, <1>4 DEF Held
<1>7. \A m \in Message : Cardinality(Held(m)') =
         IF m = n THEN Cardinality(Held(m)) + 1 ELSE Cardinality(Held(m))
  BY <1>5, <1>6, HeldMoves
<1>8. ASSUME NEW m \in Message
      PROVE  queue'[m] + Cardinality(Held(m)') = queue[m] + Cardinality(Held(m))
  <2>1. queue[m] \in Nat /\ Cardinality(Held(m)) \in Nat
    BY <1>1, HeldFinite
  <2> QED
    BY <1>2, <1>7, <2>1
<1> QED
  BY <1>3, <1>8 DEF KeepsCopies, Copies

\* A publish adds a copy of the candidate, up to the bound.
LEMMA PublishAdds ==
  ASSUME TablesInv, DeliveriesInv, Publish
  PROVE  DeliveryStep
<1> DEFINE n == <<pub.task, pub.row.dispatch>>
<1>1. n \in Message /\ queue \in [Message -> Nat]
  <2>1. pub.task \in Tasks /\ pub.row \in Row /\ pub.row.dispatch > 0
    BY DEF DeliveriesInv, Publish
  <2>2. pub.row.dispatch \in 1..MaxGeneration
    BY <2>1, RowFields, TaskAssumption
  <2> QED
    BY <2>1, <2>2 DEF Message, DeliveriesInv
<1>2. /\ IF Copies(n) < MaxCopies THEN queue' = [queue EXCEPT ![n] = @ + 1] ELSE UNCHANGED queue
      /\ pub.pc = "listed" /\ pub' = [pub EXCEPT !.pc = "published"] /\ slot' = slot
  BY DEF Publish
<1> HIDE DEF n
<1>3. queue' \in [Message -> Nat]
  BY <1>1, <1>2
<1>4. ASSUME NEW m \in Message
      PROVE  Copies(m)' = IF m = n /\ Copies(m) < MaxCopies THEN Copies(m) + 1 ELSE Copies(m)
  <2>1. Held(m)' = Held(m)
    BY <1>2 DEF Held
  <2>2. queue[m] \in Nat /\ Cardinality(Held(m)) \in Nat
    BY <1>1, HeldFinite
  <2>3. queue'[m] = IF m = n /\ Copies(m) < MaxCopies THEN queue[m] + 1 ELSE queue[m]
    BY <1>1, <1>2
  <2> QED
    BY <2>1, <2>2, <2>3 DEF Copies
<1>5. AddsCopy(n)
  BY <1>3, <1>4 DEF AddsCopy
<1> QED
  BY <1>2, <1>5 DEF DeliveryStep, n

\* What a slot acknowledges without a claim is not awaited, or not any more.
LEMMA GoneDeliveries ==
  ASSUME TablesInv, SlotsTyped, LockInv, DeliveriesInv, NEW w \in Slots,
         \/ ClaimDuplicateStale(w) \/ ClaimMaintenance(w) \/ ClaimInactiveOwner(w)
         \/ ClaimExhausted(w)
         \/ slot[w].pc = "claiming" /\ ClaimWrite(w) /\ capLock' = None
  PROVE  Gone(slot[w].msg)
<1> DEFINE n == slot[w].msg  k == n[1]
<1>1. slot[w].pc \in {"held", "claiming"} /\ n \in Message /\ k \in Tasks
  <2>1. slot[w].pc \in {"held", "claiming"}
    BY Zenon DEF ClaimDuplicateStale, ClaimMaintenance, ClaimInactiveOwner, ClaimExhausted, Eligible,
       Claiming
  <2> QED
    BY <2>1 DEF SlotsTyped, Message
<1>2. row[k] \in Row /\ row \in [Tasks -> Row] /\ row[k].dispatch \in Nat
  BY <1>1, RowFields DEF TablesInv, TablesTyped
<1> SUFFICES ASSUME NEW j \in Tasks, n = <<j, row'[j].dispatch>>, Runnable(j)', Unclaimed(j)',
                    Awaited(j)'
             PROVE  FALSE
  BY DEF Gone
<1>3. j = k /\ row'[k].dispatch = n[2]
  OBVIOUS
<1>4. CASE ClaimDuplicateStale(w)
  <2>1. row' = row /\ pub' = pub /\ ~Matches(n)
    BY <1>4 DEF ClaimDuplicateStale
  <2>2. Runnable(k) /\ Unclaimed(k) /\ Awaited(k)
    BY <1>3, <2>1 DEF Runnable, Unclaimed, Awaited, Candidate
  <2>3. Due(k)
    BY <1>1, <2>2 DEF DeliveriesInv
  <2> QED
    BY <1>3, <2>1, <2>2, <2>3 DEF Matches, Unclaimed
<1>5. CASE ClaimMaintenance(w)
  <2>1. row' = [row EXCEPT ![k] = [Rearmed(row[k]) EXCEPT !.due = FALSE]] /\ Matches(n)
        /\ row[k].dispatch < MaxGeneration
    BY <1>2, <1>5 DEF ClaimMaintenance
  <2>2. row'[k] = [Rearmed(row[k]) EXCEPT !.due = FALSE]
    BY <1>1, <1>2, <2>1
  <2>3. Rearmed(row[k]) \in Row /\ Rearmed(row[k]).dispatch = row[k].dispatch + 1
    BY <1>2, <2>1, RearmedTyped
  <2> DEFINE q == Rearmed(row[k])
  <2>4. row'[k] = [q EXCEPT !.due = FALSE] /\ q \in Row /\ q.dispatch = row[k].dispatch + 1
    BY <2>2, <2>3
  <2> HIDE DEF q
  <2>5. row'[k].dispatch = row[k].dispatch + 1
    BY <2>4 DEF Row
  <2> QED
    BY <1>2, <1>3, <2>1, <2>5 DEF Matches
<1>6. CASE ClaimInactiveOwner(w)
  <2>1. row' = Superseded(DocOf[k]) /\ Runnable(k) /\ DocOf[k] \in Docs
    BY <1>1, <1>6, TaskFacts DEF ClaimInactiveOwner, Matches, Due
  <2>2. row'[k].status = "SUPERSEDED"
    BY <1>1, <2>1, SupersededRows DEF TablesInv
  <2> QED
    BY <1>3, <2>2 DEF Runnable
<1>7. CASE ClaimExhausted(w)
  <2>1. row'[k].status = "FAILED"
    BY <1>1, <1>2, <1>7, ClaimExhaustedTables
  <2> QED
    BY <1>3, <2>1 DEF Runnable
<1>8. CASE slot[w].pc = "claiming" /\ ClaimWrite(w) /\ capLock' = None
  <2>1. row'[k].claim = n[2]
    BY <1>1, <1>8, ClaimWriteTables
  <2> QED
    BY <1>1, <1>3, <2>1 DEF Unclaimed, Message
<1> QED
  BY <1>4, <1>5, <1>6, <1>7, <1>8

\* A delivery that is not taken out of a slot stays.
LEMMA ClaimDeliveries ==
  ASSUME TablesInv, SlotsTyped, LockInv, DeliveriesInv, NEW w \in Slots,
         \/ ClaimDuplicateStale(w) \/ ClaimInactiveOwner(w) \/ ClaimCapacityDeferred(w)
         \/ ClaimExhausted(w) \/ ClaimBegin(w) \/ ClaimDeferred(w) \/ ClaimMaintenance(w)
         \/ ClaimCommit(w) \/ ClaimCommitLost(w)
  PROVE  DeliveryStep
<1>1. CASE ClaimDuplicateStale(w) \/ ClaimInactiveOwner(w) \/ ClaimExhausted(w)
           \/ ClaimMaintenance(w)
  <2>1. Idle(w) /\ Ack(w) /\ pub' = pub /\ slot[w].pc = "held"
    BY <1>1, Zenon DEF ClaimDuplicateStale, ClaimInactiveOwner, ClaimExhausted, ClaimMaintenance,
       Eligible, Claiming
  <2>2. Gone(slot[w].msg)
    BY <1>1, GoneDeliveries
  <2> QED
    BY <2>1, <2>2, IdleReleases, Acknowledged DEF DeliveryStep
<1>2. CASE ClaimCapacityDeferred(w) \/ ClaimDeferred(w) \/ ClaimCommitLost(w)
  <2>1. Idle(w) /\ NackRequeue(w) /\ pub' = pub /\ slot[w].pc \in {"held", "claiming"}
    BY <1>2 DEF ClaimCapacityDeferred, ClaimDeferred, ClaimCommitLost, Eligible, Claiming
  <2> QED
    BY <2>1, IdleReleases, GivenBack DEF DeliveryStep
<1>3. CASE ClaimBegin(w)
  <2>1. slot[w].pc = "held" /\ slot' = [slot EXCEPT ![w].pc = "claiming"] /\ queue' = queue
        /\ pub' = pub
    BY <1>3 DEF ClaimBegin, Eligible, Claiming
  <2>2. slot'[w] = [slot[w] EXCEPT !.pc = "claiming"] /\ \A v \in Slots \ {w} : slot'[v] = slot[v]
    BY <2>1 DEF SlotsTyped
  <2>3. slot'[w].pc = "claiming" /\ slot'[w].msg = slot[w].msg
    BY <2>2 DEF SlotsTyped, Slot
  <2>4. \A m \in Message : w \in Held(m) <=> w \in Held(m)'
    BY <2>1, <2>3 DEF Held
  <2> QED
    BY <2>1, <2>2, <2>4, SameHeld DEF DeliveryStep
<1>4. CASE ClaimCommit(w)
  <2>1. /\ slot[w].pc = "claiming" /\ pub' = pub /\ ClaimWrite(w) /\ capLock' = None
        /\ slot' = [slot EXCEPT ![w] = [pc |-> "running", msg |-> None, fence |-> FenceOf(w)]]
        /\ Ack(w) \/ NackRequeue(w)
    BY <1>4 DEF ClaimCommit
  <2>2. slot'[w].pc = "running" /\ \A v \in Slots \ {w} : slot'[v] = slot[v]
    BY <2>1 DEF SlotsTyped
  <2>3. Releases(w)
    BY <2>1, <2>2 DEF Releases
  <2>4. CASE NackRequeue(w)
    BY <2>1, <2>3, <2>4, GivenBack DEF DeliveryStep
  <2>5. CASE Ack(w)
    <3>1. Gone(slot[w].msg)
      BY <2>1, GoneDeliveries
    <3> QED
      BY <2>1, <2>3, <2>5, <3>1, Acknowledged DEF DeliveryStep
  <2> QED
    BY <2>1, <2>4, <2>5
<1> QED
  BY <1>1, <1>2, <1>3, <1>4

\* A slot without a delivery is told apart from one with.
LEMMA NoneIsNoMessage ==
  None \notin Message
<1>1. MaxGeneration \in Nat /\ None \notin Tasks \X Nat
  BY TaskAssumption
<1>2. Message \subseteq Tasks \X Nat
  BY <1>1 DEF Message
<1> QED
  BY <1>1, <1>2

\* Every step is a DeliveryStep.
LEMMA DeliverySteps ==
  ASSUME IInv, [Next]_vars
  PROVE  DeliveryStep
<1>1. TablesInv /\ SlotsTyped /\ LockInv /\ DeliveriesInv
  BY DEF IInv
<1>2. CASE UNCHANGED <<slot, queue, pub>>
  BY <1>1, <1>2, UnchangedHeld DEF DeliveryStep
<1>3. ASSUME NEW k \in Tasks,
             \/ AdvanceDocumentVersionAndCreateTask(k)
             \/ ArmExpired(k) \/ RearmUnclaimed(k) \/ LeaseExpires(k) \/ NextRunDue(k)
      PROVE  DeliveryStep
  BY <1>2, <1>3 DEF AdvanceDocumentVersionAndCreateTask, ArmExpired, RearmUnclaimed,
     LeaseExpires, NextRunDue
<1>4. ASSUME NEW k \in Tasks, ListDispatchable(k)
      PROVE  DeliveryStep
  <2>1. slot' = slot /\ queue' = queue
    BY <1>4 DEF ListDispatchable
  <2> QED
    BY <1>1, <1>4, <2>1, UnchangedHeld DEF DeliveryStep
<1>5. ASSUME NEW u \in Users, DisableUser(u) \/ EnableUser(u)
      PROVE  DeliveryStep
  BY <1>2, <1>5 DEF DisableUser, EnableUser
<1>6. CASE Publish
  BY <1>1, <1>6, PublishAdds
<1>7. CASE Mark \/ DispatcherStops
  <2>1. slot' = slot /\ queue' = queue /\ pub' = PubIdle
    BY <1>7 DEF Mark, DispatcherStops
  <2> QED
    BY <1>1, <2>1, UnchangedHeld DEF DeliveryStep
<1>8. ASSUME NEW w \in Slots, NEW m \in Message, TakeDelivery(w, m)
      PROVE  DeliveryStep
  <2>1. pub' = pub
    BY <1>8 DEF TakeDelivery
  <2> QED
    BY <1>1, <1>8, <2>1, TakenKeeps DEF DeliveryStep
<1>9. ASSUME NEW w \in Slots,
             \/ ActivateAndFinish(w) \/ Fail(w) \/ Quiesce(w) \/ Retry(w)
             \/ \E k \in Tasks : SupersedeRAGIndexTaskAndCreateVersion(w, k)
      PROVE  DeliveryStep
  <2>1. slot[w].pc = "running" /\ Idle(w) /\ queue' = queue /\ pub' = pub
    BY <1>9, Zenon DEF ActivateAndFinish, Fail, Quiesce, Retry, SupersedeRAGIndexTaskAndCreateVersion,
       FenceTx
  <2> QED
    BY <1>1, <2>1, IdleKeeps DEF DeliveryStep
<1>10. ASSUME NEW w \in Slots, HeartbeatBegin(w) \/ HeartbeatCommit(w)
       PROVE  DeliveryStep
  <2>1. slot[w].pc \in {"running", "beating"} /\ queue' = queue /\ pub' = pub
    BY <1>10 DEF HeartbeatBegin, HeartbeatCommit
  <2>2. PICK p \in {"running", "beating"} : slot' = [slot EXCEPT ![w].pc = p]
    BY <1>10 DEF HeartbeatBegin, HeartbeatCommit
  <2>3. slot'[w] = [slot[w] EXCEPT !.pc = p] /\ \A v \in Slots \ {w} : slot'[v] = slot[v]
    BY <1>1, <2>2 DEF SlotsTyped
  <2>4. slot'[w].pc = p
    BY <1>1, <2>3 DEF SlotsTyped, Slot
  <2>5. \A m \in Message : w \notin Held(m) /\ w \notin Held(m)'
    BY <2>1, <2>4 DEF Held
  <2> QED
    BY <1>1, <2>1, <2>3, <2>5, SameHeld DEF DeliveryStep
<1>11. ASSUME NEW w \in Slots, SlotStops(w)
       PROVE  DeliveryStep
  <2>1. pub' = pub /\ Idle(w) /\ slot[w].pc # "idle"
    BY <1>11 DEF SlotStops
  <2>2. CASE slot[w].msg # None
    <3>1. slot[w].pc \in {"held", "claiming"}
      BY <1>1, <2>2 DEF SlotsTyped, Slot
    <3> QED
      BY <1>1, <1>11, <2>1, <2>2, <3>1, IdleReleases, GivenBack DEF DeliveryStep, SlotStops
  <2>3. CASE slot[w].msg = None
    <3>1. slot[w].msg \notin Message
      BY <2>3, NoneIsNoMessage
    <3>2. slot[w].pc \in {"idle", "running", "beating"}
      BY <1>1, <3>1 DEF SlotsTyped, Slot
    <3> QED
      BY <1>1, <1>11, <2>1, <2>3, <3>2, IdleKeeps DEF DeliveryStep, SlotStops
  <2> QED
    BY <2>2, <2>3
<1>12. CASE UNCHANGED vars
  BY <1>2, <1>12 DEF vars
<1> QED
  BY <1>1, <1>3, <1>4, <1>5, <1>6, <1>7, <1>8, <1>9, <1>10, <1>11, <1>12, ClaimDeliveries
     DEF Next, Claim, Finish

\* The row that is not there yet has the type of a row.
LEMMA NoRowTyped ==
  NoRow \in Row
<1>1. 0 \in 0..MaxGeneration /\ 0 \in 0..MaxRetry
  BY TaskAssumption
<1> QED
  BY <1>1 DEF NoRow, Row

\* The dispatcher holds a candidate its row has reached.
LEMMA PubTypes ==
  ASSUME TablesInv, TablesTyped', LockInv, DeliveriesInv, DeliveryStep,
         \A k \in Tasks : RowStep(k)
  PROVE  /\ pub' \in [pc : {"idle", "listed", "published"}, task : Tasks \cup {None}, row : Row]
         /\ pub'.pc # "idle" =>
              /\ pub'.task \in Tasks /\ row'[pub'.task].status # "NONE"
              /\ pub'.row.dispatch > 0 /\ pub'.row.dispatch <= row'[pub'.task].dispatch
<1> DEFINE Good(p) ==
             /\ p \in [pc : {"idle", "listed", "published"}, task : Tasks \cup {None}, row : Row]
             /\ p.pc # "idle" =>
                  /\ p.task \in Tasks /\ row'[p.task].status # "NONE"
                  /\ p.row.dispatch > 0 /\ p.row.dispatch <= row'[p.task].dispatch
<1>1. \A k \in Tasks : row[k] \in Row /\ row[k].dispatch \in Nat /\ row[k].claim \in Nat
                       /\ row'[k].dispatch \in Nat
  BY RowFields DEF TablesInv, TablesTyped
<1>2. \A k \in Tasks : row'[k].dispatch >= row[k].dispatch
                       /\ (row[k].status # "NONE" => row'[k].status # "NONE")
  BY RowForward
<1>3. pub \in [pc : {"idle", "listed", "published"}, task : Tasks \cup {None}, row : Row]
      /\ (pub.pc # "idle" =>
            /\ pub.task \in Tasks /\ row[pub.task].status # "NONE"
            /\ pub.row.dispatch > 0 /\ pub.row.dispatch <= row[pub.task].dispatch)
  BY DEF DeliveriesInv
<1>4. pub.row.dispatch \in Nat
  <2>1. pub.row \in Row
    BY <1>3
  <2> QED
    BY <2>1, RowFields
<1>5. Good(pub)
  BY <1>1, <1>2, <1>3, <1>4
<1>6. Good(PubIdle)
  BY NoRowTyped DEF PubIdle
<1>7. ASSUME NEW k \in Tasks, ListDispatchable(k)
      PROVE  Good(pub')
  <2>1. pub' = [pc |-> "listed", task |-> k, row |-> row[k]] /\ row[k].dispatch > row[k].claim
        /\ Runnable(k)
    BY <1>7 DEF ListDispatchable, Dispatchable, Due
  <2>2. row[k].dispatch > 0 /\ row[k].dispatch <= row'[k].dispatch /\ row'[k].status # "NONE"
    BY <1>1, <1>2, <2>1 DEF Runnable
  <2> QED
    BY <1>1, <2>1, <2>2
<1>8. ASSUME pub.pc = "listed", pub' = [pub EXCEPT !.pc = "published"]
      PROVE  Good(pub')
  <2>1. /\ pub' \in [pc : {"idle", "listed", "published"}, task : Tasks \cup {None}, row : Row]
        /\ pub'.task = pub.task /\ pub'.row = pub.row
    BY <1>3, <1>8
  <2> QED
    BY <1>5, <1>8, <2>1
<1>9. Good(pub')
  <2> HIDE DEF Good
  <2> QED
    BY <1>5, <1>6, <1>7, <1>8 DEF DeliveryStep
<1> QED
  BY <1>9

\* Copies stay within their bound.
LEMMA CopiesBounded ==
  ASSUME DeliveriesInv, DeliveryStep
  PROVE  queue' \in [Message -> Nat] /\ \A m \in Message : Copies(m)' <= MaxCopies
<1>1. queue' \in [Message -> Nat]
  BY DEF DeliveryStep, KeepsCopies, DropsCopy, AddsCopy
<1>2. ASSUME NEW m \in Message
      PROVE  Copies(m)' <= MaxCopies
  <2>1. Copies(m) \in Nat /\ Copies(m)' \in Nat /\ MaxCopies \in Nat /\ Copies(m) <= MaxCopies
    BY <1>1, HeldFinite, TaskAssumption DEF DeliveriesInv, Copies
  <2>2. CASE KeepsCopies
    BY <2>1, <2>2 DEF KeepsCopies
  <2>3. CASE \E n \in Message : DropsCopy(n)
    <3>1. Copies(m)' <= Copies(m)
      BY <2>3 DEF DropsCopy
    <3> QED
      BY <2>1, <3>1
  <2>4. ASSUME NEW n, AddsCopy(n)
        PROVE  Copies(m)' <= MaxCopies
    <3>1. Copies(m)' = IF m = n /\ Copies(m) < MaxCopies THEN Copies(m) + 1 ELSE Copies(m)
      BY <2>4 DEF AddsCopy
    <3> QED
      BY <2>1, <3>1
  <2> QED
    BY <2>2, <2>3, <2>4 DEF DeliveryStep
<1> QED
  BY <1>1, <1>2

\* A delivery that is awaited after the step and was there before is still there.
LEMMA AwaitedStays ==
  ASSUME DeliveriesInv, DeliveryStep, NEW k \in Tasks, NEW m \in Message,
         m = <<k, row'[k].dispatch>>, Runnable(k)', Unclaimed(k)', Awaited(k)', Copies(m) > 0
  PROVE  Copies(m)' > 0
<1>1. Copies(m) \in Nat
  BY HeldFinite DEF DeliveriesInv, Copies
<1>2. CASE KeepsCopies
  BY <1>2 DEF KeepsCopies
<1>3. ASSUME NEW n \in Message, DropsCopy(n)
      PROVE  Copies(m)' > 0
  BY <1>3 DEF DropsCopy, Gone
<1>4. ASSUME NEW n, AddsCopy(n)
      PROVE  Copies(m)' > 0
  <2>1. Copies(m)' = IF m = n /\ Copies(m) < MaxCopies THEN Copies(m) + 1 ELSE Copies(m)
    BY <1>4 DEF AddsCopy
  <2> QED
    BY <1>1, <2>1
<1> QED
  BY <1>2, <1>3, <1>4 DEF DeliveryStep

\* The dispatcher's candidate after a step.
LEMMA CandidateBefore ==
  ASSUME DeliveriesInv, DeliveryStep, NEW k \in Tasks, pub'.pc # "idle", pub'.task = k
  PROVE  \/ pub.pc # "idle" /\ pub.task = k /\ pub'.row = pub.row
         \/ Dispatchable(k) /\ pub'.row = row[k] /\ row' = row /\ pub'.pc = "listed"
<1>1. CASE pub' = pub
  BY <1>1
<1>2. CASE pub' = PubIdle
  BY <1>2 DEF PubIdle
<1>3. ASSUME NEW j \in Tasks, ListDispatchable(j)
      PROVE  Dispatchable(k) /\ pub'.row = row[k] /\ row' = row /\ pub'.pc = "listed"
  <2>1. pub' = [pc |-> "listed", task |-> j, row |-> row[j]] /\ Dispatchable(j) /\ row' = row
    BY <1>3 DEF ListDispatchable
  <2> QED
    BY <2>1
<1>4. ASSUME pub.pc = "listed", pub' = [pub EXCEPT !.pc = "published"]
      PROVE  pub.pc # "idle" /\ pub.task = k /\ pub'.row = pub.row
  BY <1>4 DEF DeliveriesInv
<1> QED
  BY <1>1, <1>2, <1>3, <1>4 DEF DeliveryStep

\* The row and the candidate keep their generation.
LEMMA KeptDelivery ==
  ASSUME TablesInv, DeliveriesInv, DeliveryStep, NEW k \in Tasks, KeepsRow(k),
         Runnable(k)', Unclaimed(k)'
  PROVE  /\ Candidate(k)' => Due(k)'
         /\ Awaited(k)' => Due(k)' /\ Copies(<<k, row[k].dispatch>>)' > 0
<1>1. /\ row[k] \in Row /\ row'[k].dispatch = row[k].dispatch /\ Runnable(k) /\ Unclaimed(k)
      /\ row[k].dispatch \in 1..MaxGeneration
  <2>1. row[k] \in Row /\ row[k].dispatch \in 0..MaxGeneration /\ row[k].claim \in 0..MaxGeneration
    BY RowFields DEF TablesInv, TablesTyped
  <2>2. Runnable(k) /\ Unclaimed(k) /\ row'[k].dispatch = row[k].dispatch
    BY DEF KeepsRow, Runnable, Unclaimed
  <2> QED
    BY <2>1, <2>2, TaskAssumption DEF Unclaimed
<1>2. PICK m \in Message : m = <<k, row[k].dispatch>>
  BY <1>1 DEF Message
<1>3. Due(k) => Due(k)'
  BY DEF KeepsRow, Due, Runnable
<1>4. /\ Candidate(k) => Due(k)
      /\ Awaited(k) => Due(k) /\ Copies(m) > 0
  BY <1>1, <1>2 DEF DeliveriesInv
<1>5. Candidate(k)' => Due(k) /\ (Candidate(k) \/ pub'.pc = "listed")
  <2>1. CASE pub.pc # "idle" /\ pub.task = k /\ pub'.row = pub.row
    BY <1>1, <1>4, <2>1 DEF Candidate
  <2>2. CASE Dispatchable(k) /\ pub'.pc = "listed"
    BY <2>2 DEF Dispatchable
  <2> QED
    BY <2>1, <2>2, CandidateBefore DEF Candidate
<1>6. ASSUME Awaited(k)'
      PROVE  Due(k) /\ Copies(m)' > 0
  <2>1. CASE Awaited(k)
    BY <1>1, <1>2, <1>4, <1>6, <2>1, AwaitedStays
  <2>2. CASE ~Awaited(k)
    <3>1. ~row'[k].dispatched
      BY <2>2 DEF KeepsRow
    <3>2. pub'.pc = "published" /\ Candidate(k)' /\ Candidate(k) /\ Due(k)
      BY <1>5, <1>6, <3>1 DEF Awaited
    <3>3. pub.pc # "published"
      BY <2>2, <3>2 DEF Awaited
    <3>4. AddsCopy(<<pub.task, pub.row.dispatch>>)
      <4>1. pub' # pub
        BY <3>2, <3>3
      <4>2. pub' # PubIdle
        BY <3>2 DEF PubIdle
      <4>3. \A j \in Tasks : ~ListDispatchable(j)
        BY <3>2 DEF ListDispatchable
      <4> QED
        BY <4>1, <4>2, <4>3 DEF DeliveryStep
    <3>5. m = <<pub.task, pub.row.dispatch>>
      BY <1>2, <3>2 DEF Candidate
    <3>6. Copies(m)' = IF Copies(m) < MaxCopies THEN Copies(m) + 1 ELSE Copies(m)
      BY <1>2, <3>4, <3>5 DEF AddsCopy
    <3>7. Copies(m) \in Nat /\ MaxCopies \in Nat \ {0}
      BY <1>2, HeldFinite, TaskAssumption DEF DeliveriesInv, Copies
    <3>8. Copies(m)' > 0
      BY <3>6, <3>7
    <3> QED
      BY <3>2, <3>8
  <2> QED
    BY <2>1, <2>2
<1>7. Copies(m)' = Copies(<<k, row[k].dispatch>>)'
  BY <1>1, <1>2 DEF Copies, Held
<1> QED
  BY <1>3, <1>5, <1>6, <1>7

\* A row with a new generation is not yet listed.
LEMMA NewDelivery ==
  ASSUME TablesInv, TablesTyped', DeliveriesInv, DeliveryStep, NEW k \in Tasks,
         CreatesRow(k) \/ RearmsRow(k)
  PROVE  ~Candidate(k)' /\ ~Awaited(k)'
<1>1. row[k] \in Row /\ row[k].dispatch \in Nat
  BY RowFields DEF TablesInv, TablesTyped
<1>2. row' # row /\ ~row'[k].dispatched
  <2>1. CASE CreatesRow(k)
    <3>1. NextVersion(DocOf[k]) \in Nat
      BY TaskFacts, ElementOfVersions DEF NextVersion
    <3>2. row'[k].status = "PENDING" /\ row[k].status = "NONE" /\ ~row'[k].dispatched
      BY <2>1, <3>1, NewRowOK DEF CreatesRow
    <3> QED
      BY <3>2
  <2>2. CASE RearmsRow(k)
    BY <1>1, <2>2 DEF RearmsRow
  <2> QED
    BY <2>1, <2>2
<1>3. ASSUME Candidate(k)'
      PROVE  FALSE
  <2>1. pub'.pc # "idle" /\ pub'.task = k /\ pub'.row.dispatch = row'[k].dispatch
    BY <1>3 DEF Candidate
  <2>2. pub.pc # "idle" /\ pub.task = k /\ pub'.row = pub.row
    BY <1>2, <2>1, CandidateBefore
  <2>3. row[k].status # "NONE" /\ pub.row.dispatch <= row[k].dispatch
    BY <2>2 DEF DeliveriesInv
  <2>4. RearmsRow(k)
    BY <2>3 DEF CreatesRow
  <2> QED
    BY <1>1, <2>1, <2>2, <2>3, <2>4 DEF RearmsRow
<1> QED
  BY <1>2, <1>3 DEF Awaited

\* A row counts on a delivery only while it is due and a copy is there.
LEMMA DeliveriesStep ==
  ASSUME TablesInv, TablesTyped', SlotsTyped, LockInv, DeliveriesInv, DeliveryStep,
         \A k \in Tasks : RowStep(k)
  PROVE  DeliveriesInv'
<1>1. ASSUME NEW k \in Tasks, Runnable(k)', Unclaimed(k)'
      PROVE  /\ Candidate(k)' => Due(k)'
             /\ Awaited(k)' => Due(k)' /\ Copies(<<k, row[k].dispatch>>)' > 0
  <2>1. CASE KeepsRow(k)
    BY <1>1, <2>1, KeptDelivery
  <2>2. CASE CreatesRow(k) \/ RearmsRow(k)
    BY <2>2, NewDelivery
  <2>3. CASE EndsRow(k)
    BY <1>1, <2>3 DEF EndsRow, Ended, Runnable
  <2>4. ASSUME NEW w \in Slots, ClaimsRow(w, k)
        PROVE  FALSE
    <3>1. row[k].dispatch \in Nat
      BY RowFields DEF TablesInv, TablesTyped
    <3> QED
      BY <1>1, <2>4, <3>1 DEF ClaimsRow, Unclaimed
  <2>5. ASSUME NEW w \in Slots, RenewsRow(w, k)
        PROVE  FALSE
    <3>1. row'[k].dispatch = row[k].dispatch /\ row'[k].claim = row[k].claim
      BY <2>5, RenewedRow DEF TablesInv, TablesTyped
    <3>2. ~Unclaimed(k)
      BY <2>5 DEF RenewsRow, LockInv
    <3> QED
      BY <1>1, <3>1, <3>2 DEF Unclaimed
  <2> QED
    BY <2>1, <2>2, <2>3, <2>4, <2>5 DEF RowStep
<1>2. /\ pub' \in [pc : {"idle", "listed", "published"}, task : Tasks \cup {None}, row : Row]
      /\ pub'.pc # "idle" =>
           /\ pub'.task \in Tasks /\ row'[pub'.task].status # "NONE"
           /\ pub'.row.dispatch > 0 /\ pub'.row.dispatch <= row'[pub'.task].dispatch
  BY PubTypes
<1>3. queue' \in [Message -> Nat] /\ \A m \in Message : Copies(m)' <= MaxCopies
  BY CopiesBounded
<1> QED
  BY <1>1, <1>2, <1>3 DEF DeliveriesInv

(***************************************************************************)
(* The limits.                                                              *)
(***************************************************************************)
\* With the tables in order, a claimed row whose lease is live is all there is
\* to a valid RUNNING row.
LiveClaim(k) ==
    /\ row[k].status = "RUNNING" /\ row[k].dispatch = row[k].claim
    /\ row[k].owner # None /\ row[k].live /\ UserOf[DocOf[k]] \in enabled
ValidIsLive == \A k \in Tasks : Valid(k) <=> LiveClaim(k)

\* The other conditions the capacity count tests always hold of such a row.
LEMMA ValidRows ==
  TablesInv => ValidIsLive
<1> SUFFICES ASSUME TablesInv, NEW k \in Tasks, row[k].status = "RUNNING",
                    row[k].dispatch = row[k].claim
             PROVE  /\ row[k].due /\ versions[DocOf[k]][row[k].version] = "RUNNING"
                    /\ doc[DocOf[k]].version = row[k].version
                    /\ doc[DocOf[k]].status = "PROCESSING"
  BY DEF Valid, ValidIsLive, LiveClaim
<1>1. RowOK(k) /\ TargetOK(k) /\ row[k].dispatch \in Nat
  BY TaskFacts, RowFields
<1>2. Runnable(k) /\ ~Unclaimed(k)
  BY <1>1 DEF Runnable, Unclaimed
<1> QED
  BY <1>1, <1>2 DEF RowOK, TargetOK

\* A row does not become valid by itself.
LEMMA StillOccupied ==
  ASSUME TablesInv, TablesInv', enabled' \subseteq enabled, NEW k \in Tasks, RowStep(k),
         k \in ValidRunning'
  PROVE  k \in Occupied
<1>1. /\ row'[k].status = "RUNNING" /\ row'[k].dispatch = row'[k].claim
      /\ row'[k].owner # None /\ row'[k].live /\ UserOf[DocOf[k]] \in enabled
  <2>1. ValidIsLive'
    BY ValidRows, PTL
  <2>2. Valid(k)'
    BY DEF ValidRunning
  <2> QED
    BY <2>1, <2>2 DEF ValidIsLive, LiveClaim
<1>2. CASE KeepsRow(k)
  <2>1. /\ row[k].status = "RUNNING" /\ row[k].dispatch = row[k].claim
        /\ row[k].owner # None /\ row[k].live
    BY <1>1, <1>2 DEF KeepsRow
  <2> QED
    BY <1>1, <2>1, ValidRows DEF ValidIsLive, LiveClaim, Occupied, ValidRunning
<1>3. CASE CreatesRow(k)
  <2>1. NextVersion(DocOf[k]) \in Nat
    BY TaskFacts, ElementOfVersions DEF NextVersion
  <2>2. row'[k].status = "PENDING"
    BY <1>3, <2>1, NewRowOK DEF CreatesRow
  <2> QED
    BY <1>1, <2>2
<1>4. CASE EndsRow(k)
  BY <1>1, <1>4 DEF EndsRow, Ended
<1>5. CASE RearmsRow(k)
  BY <1>1, <1>5 DEF RearmsRow
<1>6. CASE \E w \in Slots : ClaimsRow(w, k) \/ RenewsRow(w, k)
  BY <1>6 DEF ClaimsRow, RenewsRow, Occupied, Pending
<1> QED
  BY <1>2, <1>3, <1>4, <1>5, <1>6 DEF RowStep

\* A heartbeat occupies what is occupied; only the begin of a claim adds a row.
LEMMA StillPending ==
  ASSUME TablesInv, SlotsTyped, LockInv, SlotStep, NEW k \in Pending'
  PROVE  k \in Occupied \/ \E w \in Slots : BeginsClaim(w) /\ k = slot[w].msg[1]
<1>1. ASSUME NEW w \in Slots, slot'[w].pc = "claiming", slot'[w].msg[1] = k
      PROVE  k \in Occupied \/ (BeginsClaim(w) /\ k = slot[w].msg[1])
  <2>1. CASE BeginsClaim(w)
    BY <1>1, <2>1, SlotFields DEF SlotIs
  <2>2. CASE slot[w].pc = "claiming" /\ slot'[w] = slot[w]
    BY <1>1, <2>2 DEF Occupied, Pending
  <2> QED
    BY <1>1, <2>1, <2>2, Locked
<1>2. ASSUME NEW w \in Slots, slot'[w].pc = "beating", slot'[w].fence.task = k
      PROVE  k \in Occupied
  <2>1. CASE BeginsBeat(w)
    <3>1. slot[w].fence.task = k /\ LiveFence(w)
      BY <1>2, <2>1, SlotFields DEF SlotIs, BeginsBeat
    <3>2. ProcOf[w] # None
      BY TaskAssumption
    <3>3. Valid(k)
      BY <3>1, <3>2, ValidRows DEF ValidIsLive, LiveClaim, LiveFence, Pending
    <3> QED
      BY <3>3 DEF Occupied, ValidRunning, Pending
  <2>2. CASE slot[w].pc = "beating" /\ slot'[w] = slot[w]
    BY <1>2, <2>2 DEF Occupied, Pending
  <2> QED
    BY <1>2, <2>1, <2>2, Locked
<1> QED
  BY <1>1, <1>2 DEF Pending

\* The cardinality of a set that grows by one element.
LEMMA OneMore ==
  ASSUME NEW S, IsFiniteSet(S), NEW T, NEW k, T \subseteq S \cup {k}
  PROVE  /\ Cardinality(T) \in Nat /\ Cardinality(S) \in Nat
         /\ Cardinality(T) <= Cardinality(S) + 1
         /\ T \subseteq S => Cardinality(T) <= Cardinality(S)
<1>1. /\ IsFiniteSet(S \cup {k})
      /\ Cardinality(S \cup {k}) = IF k \in S THEN Cardinality(S) ELSE Cardinality(S) + 1
  BY FS_AddElement
<1>2. IsFiniteSet(T) /\ Cardinality(T) <= Cardinality(S \cup {k})
  BY <1>1, FS_Subset
<1>3. Cardinality(T) \in Nat /\ Cardinality(S) \in Nat
  BY <1>2, FS_CardinalityType
<1>4. T \subseteq S => Cardinality(T) <= Cardinality(S)
  BY FS_Subset
<1> QED
  BY <1>1, <1>2, <1>3, <1>4

\* The sets that are counted are finite.
LEMMA OccupiedFinite ==
  /\ Occupied \subseteq Tasks /\ IsFiniteSet(Occupied)
  /\ ValidRunning \subseteq Occupied
  /\ \A u : IsFiniteSet(OccupiedBy(u))
<1>1. /\ Occupied \subseteq Tasks /\ ValidRunning \subseteq Occupied /\ IsFiniteSet(Tasks)
      /\ \A u : OccupiedBy(u) \subseteq Tasks
  BY TaskAssumption DEF Occupied, ValidRunning, Pending, OccupiedBy
<1> QED
  BY <1>1, FS_Subset

\* A set that grows by at most one element, if there is room for it.
LEMMA WithinLimit ==
  ASSUME NEW S, IsFiniteSet(S), NEW T, NEW k, T \subseteq S \cup {k}, NEW n \in Nat,
         Cardinality(S) <= n, T \subseteq S \/ Cardinality(S) < n
  PROVE  Cardinality(T) <= n
<1>1. /\ Cardinality(T) \in Nat /\ Cardinality(S) \in Nat
      /\ Cardinality(T) <= Cardinality(S) + 1
      /\ T \subseteq S => Cardinality(T) <= Cardinality(S)
  BY OneMore
<1> QED
  BY <1>1

\* The limits hold with the pending claim or renewal counted.
LEMMA CapacityStep ==
  ASSUME TablesInv, TablesInv', SlotsTyped, LockInv, SlotStep, CounterStep, CapacityInv,
         \A k \in Tasks : RowStep(k)
  PROVE  CapacityInv'
<1> SUFFICES ASSUME faults'.reenables = 0
             PROVE  /\ Cardinality(Occupied') <= GlobalConcurrency
                    /\ \A u \in Users : Cardinality(OccupiedBy(u)') <= PerUserBurstConcurrency
  BY DEF CapacityInv
<1>1. /\ faults.reenables = 0 /\ enabled' \subseteq enabled
      /\ GlobalConcurrency \in Nat /\ PerUserBurstConcurrency \in Nat
  BY CounterTypes, TaskAssumption
<1>2. /\ Cardinality(Occupied) <= GlobalConcurrency
      /\ \A u \in Users : Cardinality(OccupiedBy(u)) <= PerUserBurstConcurrency
  BY <1>1 DEF CapacityInv
<1>3. \A k \in Occupied' : k \in Occupied \/ \E w \in Slots : BeginsClaim(w) /\ k = slot[w].msg[1]
  <2>1. \A k \in ValidRunning' : k \in Occupied
    BY <1>1, StillOccupied DEF ValidRunning
  <2> QED
    BY <2>1, StillPending DEF Occupied
<1>4. CASE \A w \in Slots : ~BeginsClaim(w)
  <2>1. Occupied' \subseteq Occupied /\ \A u \in Users : OccupiedBy(u)' \subseteq OccupiedBy(u)
    BY <1>3, <1>4 DEF OccupiedBy
  <2> DEFINE S == Occupied  T == Occupied'
  <2>2. Cardinality(T) <= GlobalConcurrency
    <3> HIDE DEF S, T
    <3>1. IsFiniteSet(S) /\ T \subseteq S /\ Cardinality(S) <= GlobalConcurrency
      BY <1>2, <2>1, OccupiedFinite DEF S, T
    <3> QED
      BY <1>1, <3>1, WithinLimit
  <2>3. ASSUME NEW u \in Users
        PROVE  Cardinality(OccupiedBy(u)') <= PerUserBurstConcurrency
    <3> DEFINE U == OccupiedBy(u)  V == OccupiedBy(u)'
    <3>1. IsFiniteSet(U) /\ V \subseteq U /\ Cardinality(U) <= PerUserBurstConcurrency
      BY <1>2, <2>1, OccupiedFinite
    <3> HIDE DEF U, V
    <3>2. Cardinality(V) <= PerUserBurstConcurrency
      BY <1>1, <3>1, WithinLimit
    <3> QED
      BY <3>2 DEF V
  <2> QED
    BY <2>2, <2>3
<1>5. ASSUME NEW w \in Slots, BeginsClaim(w)
      PROVE  /\ Cardinality(Occupied') <= GlobalConcurrency
             /\ \A u \in Users : Cardinality(OccupiedBy(u)') <= PerUserBurstConcurrency
  <2> DEFINE k == slot[w].msg[1]
  <2>1. CapacityAvailable(k) /\ capLock = None /\ capLock' = w
    BY <1>5 DEF BeginsClaim
  <2>2. Occupied = ValidRunning /\ \A u \in Users : OccupiedBy(u) = ValidRunningOf(u)
    <3>1. \A v \in Slots : ~Locking(v)
      BY <2>1, FreeLock
    <3>2. Pending = {}
      BY <3>1 DEF Pending, Locking
    <3> QED
      BY <3>2 DEF Occupied, OccupiedBy, ValidRunningOf
  <2>3. \A v \in Slots : BeginsClaim(v) => v = w
    BY <2>1, TaskAssumption DEF BeginsClaim
  <2>4. /\ Occupied' \subseteq Occupied \cup {k}
        /\ \A u \in Users : OccupiedBy(u)' \subseteq OccupiedBy(u) \cup {k}
        /\ \A u \in Users : UserOf[DocOf[k]] # u => OccupiedBy(u)' \subseteq OccupiedBy(u)
    BY <1>3, <2>3 DEF OccupiedBy
  <2>5. /\ Cardinality(Occupied) < GlobalConcurrency
        /\ \A u \in Users : UserOf[DocOf[k]] = u =>
             Cardinality(OccupiedBy(u)) < PerUserBurstConcurrency
    BY <2>1, <2>2 DEF CapacityAvailable
  <2> HIDE DEF k
  <2> DEFINE S == Occupied  T == Occupied'
  <2>6. Cardinality(T) <= GlobalConcurrency
    <3> HIDE DEF S, T
    <3>1. /\ IsFiniteSet(S) /\ T \subseteq S \cup {k} /\ Cardinality(S) <= GlobalConcurrency
          /\ Cardinality(S) < GlobalConcurrency
      BY <1>2, <2>4, <2>5, OccupiedFinite DEF S, T
    <3> QED
      BY <1>1, <3>1, WithinLimit
  <2>7. ASSUME NEW u \in Users
        PROVE  Cardinality(OccupiedBy(u)') <= PerUserBurstConcurrency
    <3> DEFINE U == OccupiedBy(u)  V == OccupiedBy(u)'
    <3>1. /\ IsFiniteSet(U) /\ V \subseteq U \cup {k} /\ Cardinality(U) <= PerUserBurstConcurrency
          /\ V \subseteq U \/ Cardinality(U) < PerUserBurstConcurrency
      BY <1>2, <2>4, <2>5, OccupiedFinite
    <3> HIDE DEF U, V
    <3>2. Cardinality(V) <= PerUserBurstConcurrency
      BY <1>1, <3>1, WithinLimit
    <3> QED
      BY <3>2 DEF V
  <2> QED
    BY <2>6, <2>7
<1> QED
  BY <1>4, <1>5

(***************************************************************************)
(* The invariant.                                                           *)
(***************************************************************************)
LEMMA InitTables ==
  Init => TablesInv
<1> SUFFICES ASSUME Init PROVE TablesInv
  OBVIOUS
<1>1. /\ row \in [Tasks -> Row] /\ \A k \in Tasks : row[k] = NoRow
      /\ doc \in [Docs -> Doc] /\ \A d \in Docs : doc[d].active = 0
      /\ versions \in [Docs -> Seq(VersionStatus)] /\ \A d \in Docs : Len(versions[d]) = 0
  BY NoRowTyped, EmptySeq DEF Init, Doc
<1>2. TablesTyped
  BY <1>1 DEF TablesTyped
<1>3. ASSUME NEW d \in Docs
      PROVE  DocOK(d)
  <2>1. \A k \in TasksOf(d) : /\ row[k] = NoRow /\ row[k].status = "NONE"
                             /\ row[k].dispatch = 0 /\ row[k].claim = 0 /\ ~row[k].live
    BY <1>1 DEF TasksOf, NoRow
  <2>2. \A k \in TasksOf(d) : RowOK(k) /\ TargetOK(k)
    BY <2>1 DEF RowOK, TargetOK, Runnable, Unclaimed
  <2>3. doc[d].active <= Len(versions[d]) /\ 1..Len(versions[d]) = {}
    BY <1>1
  <2> QED
    BY <2>1, <2>2, <2>3 DEF DocOK
<1> QED
  BY <1>2, <1>3 DEF TablesInv

\* Nobody holds anything at the start.
LEMMA InitSlots ==
  Init => SlotsTyped /\ LockInv /\ FencesInv
<1> SUFFICES ASSUME Init PROVE SlotsTyped /\ LockInv /\ FencesInv
  OBVIOUS
<1>1. /\ slot \in [Slots -> Slot] /\ \A w \in Slots : slot[w].pc = "idle" /\ slot[w].msg = None
      /\ capLock = None /\ enabled = Users
  BY DEF Init, Slot, SlotIdle
<1>2. /\ faults \in [faults : Nat, reenables : Nat, bound : Bounds]
      /\ faults.faults = 0 /\ faults.reenables = 0
  BY DEF Init
<1>3. faults.bound.faults \in Nat /\ faults.bound.reenables \in Nat
  BY <1>2, TaskAssumption
<1>4. SlotsTyped
  BY <1>1, <1>2, <1>3 DEF SlotsTyped, Fenced
<1>5. \A w \in Slots : w # None
  BY TaskAssumption
<1>6. LockInv /\ FencesInv
  BY <1>1, <1>5 DEF LockInv, FencesInv, Locking, Fenced
<1> QED
  BY <1>4, <1>6

\* Nothing is published and nothing runs at the start.
LEMMA InitRest ==
  Init => DeliveriesInv /\ CapacityInv
<1> SUFFICES ASSUME Init PROVE DeliveriesInv /\ CapacityInv
  OBVIOUS
<1>1. /\ \A k \in Tasks : row[k].status = "NONE"
      /\ \A w \in Slots : slot[w].pc = "idle"
      /\ queue \in [Message -> Nat] /\ \A m \in Message : queue[m] = 0
      /\ pub = PubIdle
  BY DEF Init, NoRow, SlotIdle
<1>2. Cardinality({}) = 0
  BY FS_EmptySet
<1>3. ASSUME NEW m \in Message
      PROVE  Copies(m) <= MaxCopies
  <2>1. Held(m) = {}
    BY <1>1 DEF Held
  <2> QED
    BY <1>1, <1>2, <2>1, TaskAssumption DEF Copies
<1>4. DeliveriesInv
  BY <1>1, <1>3, NoRowTyped DEF DeliveriesInv, PubIdle, Runnable
<1>5. Occupied = {} /\ \A u \in Users : OccupiedBy(u) = {}
  BY <1>1 DEF Occupied, OccupiedBy, ValidRunning, Valid, Pending
<1>6. GlobalConcurrency \in Nat /\ PerUserBurstConcurrency \in Nat
  BY TaskAssumption
<1>7. /\ Cardinality(Occupied) <= GlobalConcurrency
      /\ \A u \in Users : Cardinality(OccupiedBy(u)) <= PerUserBurstConcurrency
  BY <1>2, <1>5, <1>6
<1>8. CapacityInv
  BY <1>7 DEF CapacityInv
<1> QED
  BY <1>4, <1>8

\* The invariant holds at the start.
LEMMA InitInv ==
  Init => IInv
BY InitTables, InitSlots, InitRest DEF IInv

\* Every step keeps the invariant.
LEMMA NextInv ==
  IInv /\ [Next]_vars => IInv'
<1> SUFFICES ASSUME IInv, [Next]_vars PROVE IInv'
  OBVIOUS
<1>1. TablesInv /\ SlotsTyped /\ LockInv /\ FencesInv /\ DeliveriesInv /\ CapacityInv
  BY DEF IInv
<1>2. TablesTyped' /\ TableStep /\ SlotStep /\ CounterStep /\ DeliveryStep
  BY StepTables, SlotSteps, CounterSteps, DeliverySteps
<1>3. \A k \in Tasks : RowStep(k)
  BY <1>2, RowSteps
<1>4. TablesInv'
  BY <1>1, <1>2, TablesStep
<1>5. SlotsTyped'
  BY <1>1, <1>2, TypesStep
<1>6. LockInv'
  BY <1>1, <1>2, <1>3, LockStep
<1>7. FencesInv'
  BY <1>1, <1>2, <1>3, FenceStep
<1>8. DeliveriesInv'
  BY <1>1, <1>2, <1>3, DeliveriesStep
<1>9. CapacityInv'
  BY <1>1, <1>2, <1>3, <1>4, CapacityStep
<1> QED
  BY <1>4, <1>5, <1>6, <1>7, <1>8, <1>9 DEF IInv

\* The tables, the slots, the lock, the fences, the deliveries and the limits
\* stay in order through every transaction, crash, lost commit and late step.
THEOREM TaskInvariant == Spec => []IInv
BY InitInv, NextInv, PTL DEF Spec

(***************************************************************************)
(* What follows from it.                                                    *)
(***************************************************************************)
\* Every record stays in its type, generations and copies within their bounds,
\* and the counters within the bounds of the behaviour.
THEOREM TypesHold == Spec => []TaskTypeOK
<1>1. ASSUME IInv PROVE TaskTypeOK
  <2>1. /\ TablesTyped /\ SlotsTyped /\ queue \in [Message -> Nat]
        /\ \A m \in Message : Copies(m) <= MaxCopies
        /\ pub \in [pc : {"idle", "listed", "published"}, task : Tasks \cup {None}, row : Row]
    BY <1>1 DEF IInv, TablesInv, DeliveriesInv
  <2>2. queue \in [Message -> 0..MaxCopies]
    <3>1. \A m \in Message : queue[m] \in 0..MaxCopies
      BY <2>1, HeldFinite, TaskAssumption DEF Copies
    <3> QED
      BY <2>1, <3>1
  <2>3. /\ faults.bound \in Bounds /\ faults.faults \in Nat /\ faults.reenables \in Nat
        /\ faults.faults <= faults.bound.faults /\ faults.reenables <= faults.bound.reenables
    BY <2>1 DEF SlotsTyped
  <2>4. faults.bound.faults \in Nat /\ faults.bound.reenables \in Nat
    BY <2>3, TaskAssumption
  <2>5. \A c \in {"faults", "reenables"} : faults[c] \in 0..faults.bound[c]
    BY <2>3, <2>4
  <2>6. /\ row \in [Tasks -> Row] /\ versions \in [Docs -> Seq(VersionStatus)]
        /\ doc \in [Docs -> [version : Nat, active : Nat,
                             status : {"PENDING", "PROCESSING", "DONE", "FAILED"}]]
        /\ enabled \in SUBSET Users /\ capLock \in Slots \cup {None}
        /\ slot \in [Slots -> [pc : {"idle", "held", "claiming", "running", "beating"},
                               msg : Message \cup {None}, fence : Fence \cup {None}]]
    BY <2>1 DEF TablesTyped, SlotsTyped, Doc, Slot
  <2> QED
    BY <2>1, <2>2, <2>3, <2>5, <2>6 DEF TaskTypeOK
<1> QED
  BY <1>1, TaskInvariant, PTL

\* A runnable task is the target of its document and the version it builds says
\* where the task is: the claim's branches for a stale task and for an invalid
\* task/version state are never taken.
THEOREM TasksAreTargets == Spec => []TargetsAgree
<1>1. ASSUME IInv PROVE TargetsAgree
  <2>1. \A k \in Tasks : TargetOK(k)
    BY <1>1, TaskFacts DEF IInv
  <2> QED
    BY <2>1 DEF TargetsAgree, TargetOK
<1> QED
  BY <1>1, TaskInvariant, PTL

\* A version is PENDING or RUNNING only while a runnable task builds it, and the
\* active version is the only DONE one: activation, retry, supersession and a
\* fresh claim leave no version behind.
THEOREM VersionsHaveBuilders == Spec => []VersionsAccounted
<1>1. ASSUME IInv PROVE VersionsAccounted
  <2>1. \A d \in Docs : DocOK(d) /\ DOMAIN versions[d] = 1..Len(versions[d])
    BY <1>1, ElementOfVersions DEF IInv, TablesInv, TablesTyped
  <2>2. ASSUME NEW d \in Docs, NEW v \in DOMAIN versions[d]
        PROVE  /\ versions[d][v] \in {"PENDING", "RUNNING"} =>
                    \E k \in Tasks : DocOf[k] = d /\ Runnable(k) /\ row[k].version = v
               /\ versions[d][v] = "DONE" <=> v = doc[d].active
    BY <2>1, <2>2 DEF DocOK, TasksOf
  <2>3. ASSUME NEW k \in Tasks, row[k].status = "DONE"
        PROVE  versions[DocOf[k]][row[k].version] \in {"DONE", "RETIRED"}
    BY <1>1, <2>3, TaskFacts DEF IInv, DocOK
  <2> QED
    BY <2>2, <2>3 DEF VersionsAccounted
<1> QED
  BY <1>1, TaskInvariant, PTL

\* lockRAGIndexFence lets at most one slot write for a document, also when slots
\* of one process, which share the lease owner, hold claims of the same task.
THEOREM OneLiveFence == Spec => []SingleLiveFence
<1>1. ASSUME IInv PROVE SingleLiveFence
  <2> SUFFICES ASSUME NEW v \in Slots, NEW w \in Slots, Fenced(v), Fenced(w),
                      DocOf[slot[v].fence.task] = DocOf[slot[w].fence.task],
                      LiveFence(v), LiveFence(w)
               PROVE  v = w
    BY DEF SingleLiveFence, Fenced
  <2>1. slot[v].fence.task \in Tasks /\ slot[w].fence.task \in Tasks
    BY <1>1 DEF IInv, SlotsTyped, Fence
  <2>2. slot[v].fence.task = slot[w].fence.task
    BY <1>1, <2>1, OneRunnable DEF IInv, LiveFence, Runnable
  <2>3. slot[v].fence.claim = slot[w].fence.claim
    BY <2>2 DEF LiveFence
  <2> QED
    BY <1>1, <2>2, <2>3 DEF IInv, FencesInv
<1> QED
  BY <1>1, TaskInvariant, PTL

\* A row that the dispatcher has marked, and that nobody has claimed, is due and
\* has a copy of exactly its generation in the broker or in a slot: no sweeper
\* needs to look at it.
THEOREM MarkedIsDelivered == Spec => []DispatchedIsDelivered
<1>1. ASSUME IInv PROVE DispatchedIsDelivered
  BY <1>1 DEF IInv, DeliveriesInv, DispatchedIsDelivered, Awaited, Unclaimed
<1> QED
  BY <1>1, TaskInvariant, PTL

\* ragFairQueueCapacityAvailableInTx bounds the valid RUNNING rows in every
\* state, with a claim or a renewal decided and not yet committed, until a
\* disabled user is made active again.
THEOREM LimitsHold == Spec => []CapacityHeld
<1>1. ASSUME IInv, faults.reenables = 0
      PROVE  /\ Cardinality(ValidRunning) <= GlobalConcurrency
             /\ \A u \in Users : Cardinality(ValidRunningOf(u)) <= PerUserBurstConcurrency
  <2>1. /\ Cardinality(Occupied) <= GlobalConcurrency
        /\ \A u \in Users : Cardinality(OccupiedBy(u)) <= PerUserBurstConcurrency
        /\ GlobalConcurrency \in Nat /\ PerUserBurstConcurrency \in Nat
    BY <1>1, TaskAssumption DEF IInv, CapacityInv
  <2>2. /\ ValidRunning \subseteq Occupied /\ IsFiniteSet(Occupied)
        /\ \A u \in Users : ValidRunningOf(u) \subseteq OccupiedBy(u) /\ IsFiniteSet(OccupiedBy(u))
    BY OccupiedFinite DEF ValidRunningOf, OccupiedBy
  <2>3. Cardinality(ValidRunning) <= GlobalConcurrency
    BY <2>1, <2>2, WithinLimit
  <2>4. \A u \in Users : Cardinality(ValidRunningOf(u)) <= PerUserBurstConcurrency
    BY <2>1, <2>2, WithinLimit
  <2> QED
    BY <2>3, <2>4
<1>2. IInv => CapacityHeld
  BY <1>1 DEF CapacityHeld
<1> QED
  BY <1>2, TaskInvariant, PTL

\* Whoever commits late, a generation is claimed at most once and never
\* decreases, an ended task stays ended, and a document never returns to an
\* older version.
THEOREM NothingReturns == Spec => NothingGoesBack
<1> DEFINE Forward ==
             /\ \A k \in Tasks :
                  /\ row'[k].dispatch >= row[k].dispatch /\ row'[k].claim >= row[k].claim
                  /\ row'[k].status = "RUNNING" =>
                       \/ row'[k].claim > row[k].claim
                       \/ row[k].status = "RUNNING" /\ row'[k].version = row[k].version
                  /\ row[k].status \in {"DONE", "FAILED", "SUPERSEDED"} =>
                       row'[k].status = row[k].status
             /\ \A d \in Docs : doc'[d].active >= doc[d].active
<1>1. ASSUME IInv, [Next]_vars PROVE Forward
  <2>1. TablesInv /\ LockInv /\ TableStep
    BY <1>1, StepTables DEF IInv
  <2>2. \A k \in Tasks : RowStep(k)
    BY <2>1, RowSteps
  <2>3. \A d \in Docs : doc'[d].active >= doc[d].active
    BY <2>1, ActiveForward
  <2> QED
    BY <2>1, <2>2, <2>3, RowForward DEF Ended
<1>2. IInv /\ [Next]_vars => [Forward]_vars
  BY <1>1
<1> HIDE DEF Forward
<1>3. Spec => [][Forward]_vars
  BY <1>2, TaskInvariant, PTL DEF Spec
<1> QED
  BY <1>3 DEF NothingGoesBack, Forward
=============================================================================
