---------------------------- MODULE ImageBatchProofs ----------------------------
(***************************************************************************)
(* Safety of ImageBatch for any number of batches, tasks, users and worker   *)
(* slots and any limits.  Whatever a step does, its effect on the two tables *)
(* is one of five kinds (RowStep); the invariants of the tables and the two  *)
(* limits follow from the kind, those of the workers from the step itself.   *)
(***************************************************************************)
EXTENDS ImageBatch, FiniteSetTheorems, TLAPS

Open == {"PENDING", "RUNNING"}
Batch == [status : {"NONE", "PENDING", "RUNNING", "CANCELING"} \cup TerminalBatch,
          cancel : BOOLEAN, succeeded : Nat, failed : Nat, canceled : Nat]

(***************************************************************************)
(* The inductive invariant of the tables.                                   *)
(***************************************************************************)
TablesTyped == task \in [Tasks -> Task] /\ batch \in [Batches -> Batch]

\* A batch and its tasks exist together; what is not open has no lease and no
\* delay; the generations of a row are ordered, and only a cancelled row may be
\* armed past the last one.
RowsShaped ==
    \A k \in Tasks :
        /\ task[k].status = "NONE" <=> batch[BatchOf[k]].status = "NONE"
        /\ task[k].status = "NONE" => task[k].claim = 0
        /\ task[k].status \notin Open => task[k].due /\ ~task[k].live
        /\ task[k].claim <= task[k].dispatch
        /\ task[k].status # "CANCELED" => task[k].dispatch <= MaxGeneration
        /\ task[k].status = "RUNNING" =>
             task[k].claim > 0 /\ (task[k].retry < MaxRetry \/ task[k].retry = 0)

\* A batch that is not created has nothing; one whose cancellation was requested
\* has no waiting task.
BatchesShaped ==
    \A b \in Batches :
        /\ batch[b].status = "NONE" =>
             ~batch[b].cancel /\ batch[b].succeeded = 0 /\ batch[b].failed = 0
                              /\ batch[b].canceled = 0
        /\ batch[b].cancel => \A k \in TasksOf(b) : task[k].status # "PENDING"

\* What BatchAgrees says of one batch.
Agrees(b) ==
    /\ batch[b].succeeded = CountOf(b, task, "DONE")
    /\ batch[b].failed = CountOf(b, task, "FAILED")
    /\ batch[b].canceled = CountOf(b, task, "CANCELED")
    /\ batch[b].status \in TerminalBatch
         <=> \A k \in TasksOf(b) : task[k].status \in TerminalTask
    /\ batch[b].cancel =>
         batch[b].status = (IF CountOf(b, task, "RUNNING") > 0 THEN "CANCELING"
                                                               ELSE "CANCELED")

TablesInv == TablesTyped /\ RowsShaped /\ BatchesShaped /\ BatchAgrees

(***************************************************************************)
(* The workers and the dispatcher refer to rows that exist.                 *)
(***************************************************************************)
Slot == [pc : {"idle", "held", "salvage", "generate", "publish", "finish", "delete"},
         task : Tasks \cup {None}, gen : Generations, previous : Generations,
         manifest : Generations, beat : {"extended", "canceled", "stale"}]

WorkersTyped ==
    /\ objects \subseteq Message /\ queue \subseteq Message
    /\ pub \in [pc : {"idle", "listed", "published"}, task : Tasks \cup {None}, row : Task]
    /\ slot \in [Slots -> Slot]
    /\ faults \in 0..MaxFaults
    /\ pub.pc # "idle" => pub.task \in Tasks /\ pub.row.dispatch <= MaxGeneration
    /\ \A w \in Slots : slot[w].pc # "idle" => slot[w].task \in Tasks

\* A worker that took its delivery to a claim.
Claiming(w) == slot[w].pc \in {"salvage", "generate", "publish", "finish", "delete"}

\* A claim is of a generation its row has reached and has what it salvages from
\* an earlier one; nobody has the claim of a task that is done; and a claim that
\* published and is not overtaken still has its images.
ClaimOK(w) ==
    Claiming(w) =>
        /\ slot[w].gen <= task[slot[w].task].claim
        /\ slot[w].previous < slot[w].gen
        /\ slot[w].pc \in {"finish", "delete"} =>
             slot[w].manifest \in {slot[w].gen, slot[w].previous}
        /\ task[slot[w].task].status = "DONE" => slot[w].gen < task[slot[w].task].claim
        /\ slot[w].pc = "finish" /\ slot[w].manifest = slot[w].gen
             /\ task[slot[w].task].claim = slot[w].gen
           => <<slot[w].task, slot[w].gen>> \in objects

\* No two workers have the same claim.
Distinct(v, w) ==
    Claiming(v) /\ Claiming(w) /\ v # w /\ slot[v].task = slot[w].task
      => slot[v].gen # slot[w].gen

ClaimsInv ==
    /\ \A w \in Slots : ClaimOK(w)
    /\ \A v, w \in Slots : Distinct(v, w)
    /\ OwnArtifactsKept

(***************************************************************************)
(* The kinds of change.                                                     *)
(***************************************************************************)

\* An open row stays open under the same claim: marked, armed again, expired,
\* due, or given back for a retry.
Touched(k) ==
    \E r \in Task :
        /\ task' = [task EXCEPT ![k] = r] /\ batch' = batch
        /\ task[k].status \in Open /\ r.status \in Open
        /\ r.status = "RUNNING" => task[k].status = "RUNNING" /\ r.retry = task[k].retry
        /\ r.status # task[k].status => ~Cancelled(k)
        /\ r.claim = task[k].claim
        /\ r.live => task[k].live
        /\ task[k].dispatch <= r.dispatch /\ r.dispatch <= MaxGeneration

\* A row is claimed.
Claimed(k) ==
    \E r \in Task :
        /\ task' = [task EXCEPT ![k] = r]
        /\ batch' = [batch EXCEPT ![BatchOf[k]].status =
                       IF @ \in {"PENDING", "RUNNING"} THEN "RUNNING" ELSE @]
        /\ task[k].status \in Open
        /\ ~Cancelled(k) /\ batch[BatchOf[k]].status \notin TerminalBatch
        /\ CapacityAvailable(k)
        /\ r.status = "RUNNING" /\ r.claim = r.dispatch /\ r.dispatch = task[k].dispatch
        /\ task[k].claim < r.claim
        /\ r.retry < MaxRetry \/ r.retry = 0

\* The worker w gives its claim of k back, and r names the images it found.
FinishesTask(w, k, r) ==
    /\ slot[w].pc = "finish" /\ slot'[w].pc = "idle"
    /\ slot[w].task = k /\ slot[w].gen = r.claim /\ slot[w].manifest = r.manifest

\* r is the row of k after its end.
EndRow(k, r) ==
    /\ r \in Task /\ r.status \in TerminalTask
    /\ r.due /\ ~r.live
    /\ r.claim = task[k].claim /\ task[k].dispatch <= r.dispatch
    /\ r.status # "CANCELED" => r.dispatch <= MaxGeneration
    /\ r.status = "DONE" =>
         /\ CountOf(BatchOf[k], task, "DONE") + 1 <= ArtifactByteLimit
         /\ \E w \in Slots : FinishesTask(w, k, r)

\* A row ends and its batch is recomputed.
Ended(k) ==
    \E r \in Task :
        /\ EndRow(k, r)
        /\ task[k].status \in Open
        /\ task' = [task EXCEPT ![k] = r]
        /\ Recompute(BatchOf[k], task', Cancelled(k))

RowStep ==
    \/ UNCHANGED <<task, batch>>
    \/ \E b \in Batches : CreateImageGenerationBatch(b) \/ RequestImageBatchCancel(b)
    \/ \E k \in Tasks : Touched(k) \/ Claimed(k) \/ Ended(k)

(***************************************************************************)
(* The kinds of change of a worker and its artifacts.                       *)
(***************************************************************************)

\* A worker is free again; it may have published what it gave up.
Frees(w) ==
    /\ slot' = [slot EXCEPT ![w] = SlotIdle]
    /\ \/ objects' = objects
       \/ slot[w].pc = "publish" /\ objects' = objects \cup {<<slot[w].task, slot[w].gen>>}

Takes(w) ==
    /\ \E m \in Message :
         slot' = [slot EXCEPT ![w] = [SlotIdle EXCEPT !.pc = "held", !.task = m[1], !.gen = m[2]]]
    /\ objects' = objects

Claims(w) ==
    /\ slot[w].pc = "held"
    /\ slot' = [slot EXCEPT ![w].pc = "salvage", ![w].previous = task[slot[w].task].claim]
    /\ objects' = objects
    /\ task[slot[w].task].claim < slot[w].gen
    /\ task'[slot[w].task].claim = slot[w].gen /\ task'[slot[w].task].status = "RUNNING"

\* A claim goes on, or its heartbeat ends.
Works(w) ==
    /\ slot[w].pc \in {"salvage", "generate", "publish"}
    /\ \E x \in Slot :
         /\ slot' = [slot EXCEPT ![w] = x]
         /\ x.pc \in {"salvage", "generate", "publish"}
         /\ x.task = slot[w].task /\ x.gen = slot[w].gen /\ x.previous = slot[w].previous
    /\ objects' = objects

\* The images are there, salvaged or published.
Finds(w) ==
    /\ slot[w].pc \in {"salvage", "publish"}
    /\ \/ /\ slot' = [slot EXCEPT ![w].pc = "finish", ![w].manifest = slot[w].previous]
          /\ objects' = objects
       \/ /\ slot' = [slot EXCEPT ![w].pc = "finish", ![w].manifest = slot[w].gen]
          /\ objects' = objects \cup {<<slot[w].task, slot[w].gen>>}

Rejects(w) ==
    /\ slot[w].pc = "finish"
    /\ slot' = [slot EXCEPT ![w].pc = "delete"]
    /\ objects' = objects

Deletes(w) ==
    /\ slot[w].pc = "delete"
    /\ slot' = [slot EXCEPT ![w] = SlotIdle]
    /\ objects' = objects \ {<<slot[w].task, slot[w].manifest>>}

WorkerStep ==
    \/ UNCHANGED <<slot, objects>>
    \/ \E w \in Slots :
         Frees(w) \/ Takes(w) \/ Claims(w) \/ Works(w) \/ Finds(w) \/ Rejects(w) \/ Deletes(w)

(***************************************************************************)
(* Rows.                                                                    *)
(***************************************************************************)
LEMMA ClosedRow ==
    ASSUME NEW x \in Task, NEW s \in TerminalTask \cup {"PENDING"}
    PROVE  /\ Closed(x, s) \in Task
           /\ Closed(x, s).status = s /\ Closed(x, s).due /\ ~Closed(x, s).live
           /\ Closed(x, s).claim = x.claim /\ Closed(x, s).dispatch = x.dispatch
           /\ Closed(x, s).retry = x.retry
  BY DEF Closed, Task, TerminalTask

LEMMA RearmedRow ==
    ASSUME NEW x \in Task, x.dispatch <= MaxGeneration
    PROVE  /\ Rearmed(x) \in Task
           /\ Rearmed(x).dispatch = x.dispatch + 1 /\ x.dispatch \in Nat
           /\ Rearmed(x).status = x.status /\ Rearmed(x).claim = x.claim
           /\ Rearmed(x).live = x.live /\ Rearmed(x).due = x.due /\ Rearmed(x).retry = x.retry
  <1>1. x.dispatch \in 0..MaxGeneration + 1 /\ MaxGeneration \in Nat
    BY ImageAssumption DEF Task
  <1>2. x.dispatch + 1 \in 0..MaxGeneration + 1
    BY <1>1
  <1>3. Rearmed(x) \in Task
    BY <1>2 DEF Rearmed, Task
  <1>4. QED BY <1>1, <1>3 DEF Rearmed, Task

LEMMA CanceledRow ==
    ASSUME NEW x \in Task, x.dispatch <= MaxGeneration
    PROVE  /\ Canceled(x) \in Task
           /\ Canceled(x).status = "CANCELED" /\ Canceled(x).due /\ ~Canceled(x).live
           /\ Canceled(x).claim = x.claim
           /\ Canceled(x).dispatch = x.dispatch + 1 /\ x.dispatch \in Nat
  <1> DEFINE y == Closed(x, "CANCELED")
  <1>1. /\ y \in Task /\ y.status = "CANCELED" /\ y.due /\ ~y.live
        /\ y.claim = x.claim /\ y.dispatch = x.dispatch
    BY ClosedRow DEF TerminalTask
  <1>2. Canceled(x) = Rearmed(y)
    BY DEF Canceled
  <1> HIDE DEF y
  <1>3. QED BY <1>1, <1>2, RearmedRow

(***************************************************************************)
(* Counting.                                                                *)
(***************************************************************************)
LEMMA CountIsNat ==
    ASSUME NEW b, NEW rows, NEW s
    PROVE  /\ IsFiniteSet({k \in TasksOf(b) : rows[k].status = s})
           /\ CountOf(b, rows, s) \in Nat
           /\ CountOf(b, rows, s) = 0 <=> \A k \in TasksOf(b) : rows[k].status # s
  <1> DEFINE S == {k \in TasksOf(b) : rows[k].status = s}
  <1>1. S \in SUBSET Tasks
    BY DEF TasksOf
  <1>2. IsFiniteSet(S)
    BY <1>1, FS_Subset, ImageAssumption
  <1>3. Cardinality(S) \in Nat /\ (Cardinality(S) = 0 <=> S = {})
    BY <1>2, FS_CardinalityType, FS_EmptySet
  <1>4. QED
    BY <1>2, <1>3 DEF CountOf

\* The rows of a batch decide its aggregate: it is terminal exactly when they are.
LEMMA AggregateAgrees ==
    ASSUME NEW b \in Batches, NEW rows \in [Tasks -> Task], NEW cancel \in BOOLEAN,
           \A k \in TasksOf(b) : rows[k].status # "NONE",
           cancel => \A k \in TasksOf(b) : rows[k].status # "PENDING"
    PROVE  LET s == AggregateStatus(b, rows, cancel) IN
           /\ s \in TerminalBatch \cup {"PENDING", "RUNNING", "CANCELING"}
           /\ s \in TerminalBatch <=> \A k \in TasksOf(b) : rows[k].status \in TerminalTask
           /\ cancel => s = (IF CountOf(b, rows, "RUNNING") > 0 THEN "CANCELING" ELSE "CANCELED")
  <1> DEFINE running == \E k \in TasksOf(b) : rows[k].status = "RUNNING"
             done == \E k \in TasksOf(b) : rows[k].status = "DONE"
             failed == \E k \in TasksOf(b) : rows[k].status = "FAILED"
             ended == \A k \in TasksOf(b) : rows[k].status \in TerminalTask
             allDone == \A k \in TasksOf(b) : rows[k].status \in {"DONE"}
             waiting == \A k \in TasksOf(b) : rows[k].status \in {"PENDING"}
             status == AggregateStatus(b, rows, cancel)
  <1>1. \A k \in TasksOf(b) : rows[k].status \in TerminalTask \cup {"PENDING", "RUNNING"}
    BY DEF TasksOf, Task, TerminalTask
  <1>2. CountOf(b, rows, "RUNNING") \in Nat /\ (running <=> CountOf(b, rows, "RUNNING") # 0)
    BY CountIsNat
  <1>3. status = CASE cancel -> IF running THEN "CANCELING" ELSE "CANCELED"
                   [] ~cancel /\ allDone -> "DONE"
                   [] ~cancel /\ ended /\ ~allDone ->
                        IF done THEN "PARTIAL" ELSE IF failed THEN "FAILED" ELSE "CANCELED"
                   [] OTHER -> IF waiting THEN "PENDING" ELSE "RUNNING"
    BY DEF AggregateStatus
  <1>4. ended /\ cancel <=> ~running /\ cancel
    BY <1>1 DEF TerminalTask
  <1>5. allDone => ended
    BY DEF TerminalTask
  <1>6. waiting => ~ended
    <2>1. \E k \in TasksOf(b) : TRUE
      BY ImageAssumption DEF TasksOf
    <2>2. QED BY <2>1 DEF TerminalTask
  <1> HIDE DEF running, done, failed, ended, allDone, waiting, status
  <1>7. CASE cancel
    <2>1. status = IF running THEN "CANCELING" ELSE "CANCELED"
      BY <1>3, <1>7
    <2>2. /\ status \in TerminalBatch \cup {"PENDING", "RUNNING", "CANCELING"}
          /\ status \in TerminalBatch <=> ended
          /\ status = IF CountOf(b, rows, "RUNNING") > 0 THEN "CANCELING" ELSE "CANCELED"
      BY <1>2, <1>4, <1>7, <2>1 DEF TerminalBatch
    <2>3. QED BY <2>2 DEF status, ended
  <1>8. CASE ~cancel
    <2>1. CASE allDone
      <3>1. status = "DONE" BY <1>3, <1>8, <2>1
      <3>2. QED BY <1>5, <1>8, <2>1, <3>1 DEF TerminalBatch, status, ended
    <2>2. CASE ended /\ ~allDone
      <3>1. status = IF done THEN "PARTIAL" ELSE IF failed THEN "FAILED" ELSE "CANCELED"
        BY <1>3, <1>8, <2>2
      <3>2. QED BY <1>8, <2>2, <3>1 DEF TerminalBatch, status, ended
    <2>3. CASE ~ended /\ ~allDone
      <3>1. status = IF waiting THEN "PENDING" ELSE "RUNNING"
        BY <1>3, <1>8, <2>3
      <3>2. QED BY <1>8, <2>3, <3>1 DEF TerminalBatch, status, ended
    <2>4. QED BY <1>5, <2>1, <2>2, <2>3
  <1>9. QED BY <1>7, <1>8

LEMMA SameCount ==
    ASSUME NEW b, NEW rows1, NEW rows2, NEW s,
           \A k \in TasksOf(b) : rows1[k].status = s <=> rows2[k].status = s
    PROVE  CountOf(b, rows1, s) = CountOf(b, rows2, s)
  <1>1. {k \in TasksOf(b) : rows1[k].status = s} = {k \in TasksOf(b) : rows2[k].status = s}
    OBVIOUS
  <1>2. QED BY <1>1 DEF CountOf

\* What Recompute leaves in the row of the batch.
LEMMA RecomputedBatch ==
    ASSUME NEW b \in Batches, NEW rows \in [Tasks -> Task], NEW cancel \in BOOLEAN,
           \A k \in TasksOf(b) : rows[k].status # "NONE",
           cancel => \A k \in TasksOf(b) : rows[k].status # "PENDING",
           batch \in [Batches -> Batch],
           Recompute(b, rows, cancel)
    PROVE  /\ batch' \in [Batches -> Batch]
           /\ \A c \in Batches \ {b} : batch'[c] = batch[c]
           /\ batch'[b].cancel = cancel /\ batch'[b].status # "NONE"
           /\ batch'[b].succeeded = CountOf(b, rows, "DONE")
           /\ batch'[b].failed = CountOf(b, rows, "FAILED")
           /\ batch'[b].canceled = CountOf(b, rows, "CANCELED")
           /\ batch'[b].status \in TerminalBatch
                <=> \A k \in TasksOf(b) : rows[k].status \in TerminalTask
           /\ cancel => batch'[b].status =
                          (IF CountOf(b, rows, "RUNNING") > 0 THEN "CANCELING" ELSE "CANCELED")
  <1> DEFINE s == AggregateStatus(b, rows, cancel)
             done == CountOf(b, rows, "DONE")
             failed == CountOf(b, rows, "FAILED")
             canceled == CountOf(b, rows, "CANCELED")
             running == CountOf(b, rows, "RUNNING")
             ended == \A k \in TasksOf(b) : rows[k].status \in TerminalTask
  <1>1. /\ s \in TerminalBatch \cup {"PENDING", "RUNNING", "CANCELING"}
        /\ s \in TerminalBatch <=> ended
        /\ cancel => s = (IF running > 0 THEN "CANCELING" ELSE "CANCELED")
    BY AggregateAgrees
  <1>2. done \in Nat /\ failed \in Nat /\ canceled \in Nat
    BY CountIsNat
  <1>3. batch' = [batch EXCEPT ![b] =
                    [status |-> s, cancel |-> cancel, succeeded |-> done, failed |-> failed,
                     canceled |-> canceled]]
    BY DEF Recompute
  <1> HIDE DEF s, done, failed, canceled, running, ended
  <1>4. [status |-> s, cancel |-> cancel, succeeded |-> done, failed |-> failed,
         canceled |-> canceled] \in Batch
    BY <1>1, <1>2 DEF Batch, TerminalBatch
  <1>5. /\ batch' \in [Batches -> Batch]
        /\ \A c \in Batches \ {b} : batch'[c] = batch[c]
        /\ batch'[b] = [status |-> s, cancel |-> cancel, succeeded |-> done,
                        failed |-> failed, canceled |-> canceled]
    BY <1>3, <1>4
  <1>6. s # "NONE"
    BY <1>1 DEF TerminalBatch
  <1>7. QED BY <1>1, <1>5, <1>6 DEF s, done, failed, canceled, running, ended

\* A batch whose row keeps its counters, and whose tasks neither end nor, after
\* a cancellation, change their status, agrees with them as before.
LEMMA AgreementKept ==
    ASSUME BatchAgrees, NEW b \in Batches, batch[b].status # "NONE",
           batch'[b].succeeded = batch[b].succeeded, batch'[b].failed = batch[b].failed,
           batch'[b].canceled = batch[b].canceled, batch'[b].cancel = batch[b].cancel,
           batch'[b].status \in TerminalBatch <=> batch[b].status \in TerminalBatch,
           batch[b].cancel => batch'[b].status = batch[b].status,
           \A k \in TasksOf(b) :
              /\ \A s \in TerminalTask : task'[k].status = s <=> task[k].status = s
              /\ batch[b].cancel => task'[k].status = task[k].status
    PROVE  Agrees(b)'
  <1>1. /\ CountOf(b, task', "DONE") = CountOf(b, task, "DONE")
        /\ CountOf(b, task', "FAILED") = CountOf(b, task, "FAILED")
        /\ CountOf(b, task', "CANCELED") = CountOf(b, task, "CANCELED")
    BY SameCount DEF TerminalTask
  <1>2. batch[b].cancel => CountOf(b, task', "RUNNING") = CountOf(b, task, "RUNNING")
    BY SameCount
  <1>3. \A k \in TasksOf(b) : task'[k].status \in TerminalTask <=> task[k].status \in TerminalTask
    BY DEF TerminalTask
  <1>4. Agrees(b)
    BY DEF BatchAgrees, Agrees
  <1>5. QED BY <1>1, <1>2, <1>3, <1>4 DEF Agrees

(***************************************************************************)
(* Every kind of change preserves the invariant of the tables.              *)
(***************************************************************************)
LEMMA TouchedKeeps ==
    ASSUME TablesInv, NEW k \in Tasks, Touched(k)
    PROVE  TablesInv'
  <1> USE DEF TablesInv
  <1>1. PICK r \in Task :
          /\ task' = [task EXCEPT ![k] = r] /\ batch' = batch
          /\ task[k].status \in Open /\ r.status \in Open
          /\ r.status = "RUNNING" => task[k].status = "RUNNING" /\ r.retry = task[k].retry
          /\ r.status # task[k].status => ~Cancelled(k)
          /\ r.claim = task[k].claim
          /\ r.live => task[k].live
          /\ task[k].dispatch <= r.dispatch /\ r.dispatch <= MaxGeneration
    BY DEF Touched
  <1>2. \A j \in Tasks : task'[j] = IF j = k THEN r ELSE task[j]
    BY <1>1 DEF TablesTyped
  <1>3. TablesTyped'
    BY <1>1 DEF TablesTyped
  <1>4. RowsShaped'
    <2>1. r.claim \in Nat /\ r.dispatch \in Nat /\ task[k].dispatch \in Nat
      BY ImageAssumption DEF TablesTyped, Task, Generations
    <2>2. QED BY <1>1, <1>2, <2>1 DEF RowsShaped, Open
  <1>5. BatchesShaped'
    BY <1>1, <1>2 DEF BatchesShaped, TasksOf, Open, Cancelled
  <1>6. BatchAgrees'
    <2>1. ASSUME NEW b \in Batches, batch[b].status # "NONE"
          PROVE  Agrees(b)'
      <3>1. \A j \in TasksOf(b) :
              /\ \A s \in TerminalTask : task'[j].status = s <=> task[j].status = s
              /\ batch[b].cancel => task'[j].status = task[j].status
        BY <1>1, <1>2 DEF TasksOf, Open, TerminalTask, Cancelled
      <3>2. QED BY <1>1, <2>1, <3>1, AgreementKept
    <2>2. QED BY <1>1, <2>1 DEF BatchAgrees, Agrees
  <1>7. QED BY <1>3, <1>4, <1>5, <1>6

LEMMA ClaimedKeeps ==
    ASSUME TablesInv, NEW k \in Tasks, Claimed(k)
    PROVE  TablesInv'
  <1> USE DEF TablesInv
  <1>1. PICK r \in Task :
          /\ task' = [task EXCEPT ![k] = r]
          /\ batch' = [batch EXCEPT ![BatchOf[k]].status =
                         IF @ \in {"PENDING", "RUNNING"} THEN "RUNNING" ELSE @]
          /\ task[k].status \in Open
          /\ ~Cancelled(k) /\ batch[BatchOf[k]].status \notin TerminalBatch
          /\ r.status = "RUNNING" /\ r.claim = r.dispatch /\ r.dispatch = task[k].dispatch
          /\ task[k].claim < r.claim
          /\ r.retry < MaxRetry \/ r.retry = 0
    BY DEF Claimed
  <1>2. \A j \in Tasks : task'[j] = IF j = k THEN r ELSE task[j]
    BY <1>1 DEF TablesTyped
  <1>3. BatchOf[k] \in Batches
    BY ImageAssumption
  <1>4. \A b \in Batches :
          batch'[b] = IF b = BatchOf[k] /\ batch[b].status \in {"PENDING", "RUNNING"}
                        THEN [batch[b] EXCEPT !.status = "RUNNING"] ELSE batch[b]
    BY <1>1, <1>3 DEF TablesTyped, Batch
  <1>5. TablesTyped'
    BY <1>1, <1>3 DEF TablesTyped, Batch
  <1>6. \A b \in Batches :
          /\ batch'[b].succeeded = batch[b].succeeded /\ batch'[b].failed = batch[b].failed
          /\ batch'[b].canceled = batch[b].canceled /\ batch'[b].cancel = batch[b].cancel
          /\ batch'[b].status = "NONE" <=> batch[b].status = "NONE"
          /\ batch'[b].status \in TerminalBatch <=> batch[b].status \in TerminalBatch
          /\ batch[b].cancel => batch'[b].status = batch[b].status
    BY <1>1, <1>3, <1>4 DEF TablesTyped, Batch, TerminalBatch, Cancelled
  <1>7. RowsShaped'
    <2>1. r.claim \in Nat /\ r.dispatch \in Nat /\ task[k].claim \in Nat
      BY ImageAssumption DEF TablesTyped, Task, Generations
    <2>2. r.claim > 0 /\ r.dispatch <= MaxGeneration
      BY <1>1, <2>1 DEF RowsShaped, Open
    <2>3. \A j \in Tasks : BatchOf[j] \in Batches
      BY ImageAssumption
    <2>4. QED BY <1>1, <1>2, <1>6, <2>1, <2>2, <2>3 DEF RowsShaped, Open
  <1>8. BatchesShaped'
    BY <1>1, <1>2, <1>6 DEF BatchesShaped, TasksOf, Cancelled
  <1>9. BatchAgrees'
    <2>1. ASSUME NEW b \in Batches, batch[b].status # "NONE"
          PROVE  Agrees(b)'
      <3>1. \A j \in TasksOf(b) :
              /\ \A s \in TerminalTask : task'[j].status = s <=> task[j].status = s
              /\ batch[b].cancel => task'[j].status = task[j].status
        BY <1>1, <1>2 DEF TasksOf, Open, TerminalTask, Cancelled
      <3>2. QED BY <1>6, <2>1, <3>1, AgreementKept
    <2>2. QED BY <1>6, <2>1 DEF BatchAgrees, Agrees
  <1>10. QED BY <1>5, <1>7, <1>8, <1>9

\* A recomputed batch, with the rest of the rows untouched, agrees with its tasks.
LEMMA RecomputedKeeps ==
    ASSUME TablesInv, NEW b \in Batches, NEW cancel \in BOOLEAN,
           task' \in [Tasks -> Task],
           batch[b].status # "NONE",
           \A k \in Tasks \ TasksOf(b) : task'[k] = task[k],
           \A k \in TasksOf(b) : task'[k].status # "NONE",
           cancel => \A k \in TasksOf(b) : task'[k].status # "PENDING",
           \A k \in TasksOf(b) :
              /\ task'[k].status \notin Open => task'[k].due /\ ~task'[k].live
              /\ task'[k].claim <= task'[k].dispatch
              /\ task'[k].status # "CANCELED" => task'[k].dispatch <= MaxGeneration
              /\ task'[k].status = "RUNNING" =>
                   task'[k].claim > 0 /\ (task'[k].retry < MaxRetry \/ task'[k].retry = 0),
           Recompute(b, task', cancel)
    PROVE  TablesInv'
  <1> USE DEF TablesInv
  <1>1. /\ batch' \in [Batches -> Batch]
        /\ \A c \in Batches \ {b} : batch'[c] = batch[c]
        /\ batch'[b].cancel = cancel /\ batch'[b].status # "NONE"
        /\ Agrees(b)'
    BY RecomputedBatch DEF TablesTyped, Agrees
  <1>2. \A k \in Tasks : BatchOf[k] \in Batches /\ (k \in TasksOf(b) <=> BatchOf[k] = b)
    BY ImageAssumption DEF TasksOf
  <1>3. TablesTyped'
    BY <1>1 DEF TablesTyped
  <1>4. RowsShaped'
    BY <1>1, <1>2 DEF RowsShaped
  <1>5. BatchesShaped'
    BY <1>1, <1>2 DEF BatchesShaped, TasksOf
  <1>6. BatchAgrees'
    <2>1. ASSUME NEW c \in Batches \ {b}, batch[c].status # "NONE"
          PROVE  Agrees(c)'
      <3>1. \A k \in TasksOf(c) : task'[k] = task[k]
        BY <1>2 DEF TasksOf
      <3>2. batch'[c] = batch[c]
        BY <1>1
      <3>3. QED BY <2>1, <3>1, <3>2, AgreementKept
    <2>2. QED BY <1>1, <2>1 DEF BatchAgrees, Agrees
  <1>7. QED BY <1>3, <1>4, <1>5, <1>6

LEMMA EndedKeeps ==
    ASSUME TablesInv, NEW k \in Tasks, Ended(k)
    PROVE  TablesInv'
  <1> USE DEF TablesInv
  <1> DEFINE b == BatchOf[k]
  <1>1. PICK r \in Task :
          /\ EndRow(k, r)
          /\ task[k].status \in Open
          /\ task' = [task EXCEPT ![k] = r]
          /\ Recompute(b, task', Cancelled(k))
    BY DEF Ended
  <1>2. \A j \in Tasks : task'[j] = IF j = k THEN r ELSE task[j]
    BY <1>1 DEF TablesTyped
  <1>3. b \in Batches /\ k \in TasksOf(b) /\ TasksOf(b) \subseteq Tasks
    BY ImageAssumption DEF TasksOf
  <1>4. Cancelled(k) \in BOOLEAN /\ Cancelled(k) = batch[b].cancel
    BY <1>3 DEF Cancelled, TablesTyped, Batch
  <1>5. task' \in [Tasks -> Task]
    BY <1>1 DEF TablesTyped
  <1>6. batch[b].status # "NONE" /\ \A j \in TasksOf(b) : task[j].status # "NONE"
    BY <1>1, <1>3 DEF RowsShaped, Open, TasksOf
  <1>7. \A j \in Tasks \ TasksOf(b) : task'[j] = task[j]
    BY <1>2, <1>3
  <1>8. /\ \A j \in TasksOf(b) : task'[j].status # "NONE"
        /\ Cancelled(k) => \A j \in TasksOf(b) : task'[j].status # "PENDING"
    BY <1>1, <1>2, <1>3, <1>4, <1>6 DEF EndRow, TerminalTask, BatchesShaped
  <1>9. r.claim \in Nat /\ r.dispatch \in Nat /\ task[k].dispatch \in Nat
    BY ImageAssumption DEF TablesTyped, Task, Generations
  <1>10. \A j \in TasksOf(b) :
           /\ task'[j].status \notin Open => task'[j].due /\ ~task'[j].live
           /\ task'[j].claim <= task'[j].dispatch
           /\ task'[j].status # "CANCELED" => task'[j].dispatch <= MaxGeneration
           /\ task'[j].status = "RUNNING" =>
                task'[j].claim > 0 /\ (task'[j].retry < MaxRetry \/ task'[j].retry = 0)
    BY <1>1, <1>2, <1>3, <1>9 DEF RowsShaped, EndRow, TerminalTask, Open
  <1>11. QED
    BY <1>1, <1>3, <1>4, <1>5, <1>6, <1>7, <1>8, <1>10, RecomputedKeeps

LEMMA CancelKeeps ==
    ASSUME TablesInv, NEW b \in Batches, RequestImageBatchCancel(b)
    PROVE  TablesInv'
  <1> USE DEF TablesInv
  <1>1. /\ task' = [k \in Tasks |-> IF k \in TasksOf(b) /\ task[k].status = "PENDING"
                                      THEN Canceled(task[k]) ELSE task[k]]
        /\ batch[b].status \notin TerminalBatch \cup {"NONE"}
        /\ Recompute(b, task', TRUE)
    BY DEF RequestImageBatchCancel
  <1>2. \A k \in Tasks : task[k].status = "PENDING" =>
          /\ Canceled(task[k]) \in Task
          /\ Canceled(task[k]).status = "CANCELED"
          /\ Canceled(task[k]).due /\ ~Canceled(task[k]).live
          /\ Canceled(task[k]).claim <= Canceled(task[k]).dispatch
    <2> SUFFICES ASSUME NEW k \in Tasks, task[k].status = "PENDING"
                 PROVE  /\ Canceled(task[k]) \in Task
                        /\ Canceled(task[k]).status = "CANCELED"
                        /\ Canceled(task[k]).due /\ ~Canceled(task[k]).live
                        /\ Canceled(task[k]).claim <= Canceled(task[k]).dispatch
      OBVIOUS
    <2>1. task[k] \in Task /\ task[k].claim <= task[k].dispatch
                           /\ task[k].dispatch <= MaxGeneration
      BY DEF TablesTyped, RowsShaped
    <2>2. task[k].claim \in Nat
      BY <2>1, ImageAssumption DEF Task, Generations
    <2>3. QED BY <2>1, <2>2, CanceledRow
  <1>3. TasksOf(b) \subseteq Tasks /\ \A k \in TasksOf(b) : task[k].status # "NONE"
    BY <1>1 DEF RowsShaped, TasksOf
  <1>4. \A k \in Tasks : task'[k] = IF k \in TasksOf(b) /\ task[k].status = "PENDING"
                                      THEN Canceled(task[k]) ELSE task[k]
    BY <1>1
  <1>5. task' \in [Tasks -> Task]
    BY <1>1, <1>2 DEF TablesTyped
  <1>6. /\ \A k \in Tasks \ TasksOf(b) : task'[k] = task[k]
        /\ \A k \in TasksOf(b) : task'[k].status # "NONE" /\ task'[k].status # "PENDING"
    BY <1>2, <1>3, <1>4
  <1>7. \A k \in TasksOf(b) :
           /\ task'[k].status \notin Open => task'[k].due /\ ~task'[k].live
           /\ task'[k].claim <= task'[k].dispatch
           /\ task'[k].status # "CANCELED" => task'[k].dispatch <= MaxGeneration
           /\ task'[k].status = "RUNNING" =>
                task'[k].claim > 0 /\ (task'[k].retry < MaxRetry \/ task'[k].retry = 0)
    BY <1>2, <1>3, <1>4 DEF RowsShaped, Open
  <1>8. QED BY <1>1, <1>5, <1>6, <1>7, RecomputedKeeps

LEMMA CreateKeeps ==
    ASSUME TablesInv, NEW b \in Batches, CreateImageGenerationBatch(b)
    PROVE  TablesInv'
  <1> USE DEF TablesInv
  <1> DEFINE new == [NoTask EXCEPT !.status = "PENDING", !.dispatch = 1]
  <1>1. /\ batch[b].status = "NONE"
        /\ \A k \in Tasks : task'[k] = IF k \in TasksOf(b) THEN new ELSE task[k]
        /\ task' = [k \in Tasks |-> IF k \in TasksOf(b) THEN new ELSE task[k]]
        /\ batch' = [batch EXCEPT ![b].status = "PENDING"]
    BY DEF CreateImageGenerationBatch
  <1>2. /\ new \in Task /\ new.status = "PENDING" /\ new.due /\ ~new.live
        /\ new.claim = 0 /\ new.dispatch = 1
    <2>1. NoTask \in Task
      BY ImageAssumption DEF NoTask, Task, Generations
    <2>2. 1 \in 0..MaxGeneration + 1
      BY ImageAssumption
    <2>3. QED BY <2>1, <2>2 DEF NoTask, Task
  <1> HIDE DEF new
  <1>3. /\ batch' \in [Batches -> Batch]
        /\ \A c \in Batches \ {b} : batch'[c] = batch[c]
        /\ batch'[b] = [batch[b] EXCEPT !.status = "PENDING"]
    BY <1>1 DEF TablesTyped, Batch
  <1>4. /\ batch'[b].status = "PENDING" /\ ~batch'[b].cancel
        /\ batch'[b].succeeded = 0 /\ batch'[b].failed = 0 /\ batch'[b].canceled = 0
    BY <1>1, <1>3 DEF BatchesShaped, TablesTyped, Batch
  <1>5. \A k \in Tasks : BatchOf[k] \in Batches /\ (k \in TasksOf(b) <=> BatchOf[k] = b)
    BY ImageAssumption DEF TasksOf
  <1>6. TablesTyped'
    BY <1>1, <1>2, <1>3 DEF TablesTyped
  <1>7. RowsShaped'
    BY <1>1, <1>2, <1>3, <1>4, <1>5, ImageAssumption DEF RowsShaped, Open
  <1>8. BatchesShaped'
    BY <1>1, <1>3, <1>4, <1>5 DEF BatchesShaped, TasksOf
  <1>9. Agrees(b)'
    <2>1. \A k \in TasksOf(b) : task'[k].status = "PENDING"
      BY <1>1, <1>2, <1>5 DEF TasksOf
    <2>2. \A s \in {"DONE", "FAILED", "CANCELED"} : CountOf(b, task', s) = 0
      BY <2>1, CountIsNat
    <2>3. \E k \in TasksOf(b) : task'[k].status \notin TerminalTask
      BY <2>1, ImageAssumption DEF TasksOf, TerminalTask
    <2>4. QED BY <1>4, <2>2, <2>3 DEF Agrees, TerminalBatch
  <1>10. BatchAgrees'
    <2>1. ASSUME NEW c \in Batches \ {b}, batch[c].status # "NONE"
          PROVE  Agrees(c)'
      <3>1. \A k \in TasksOf(c) : task'[k] = task[k]
        BY <1>1, <1>5 DEF TasksOf
      <3>2. batch'[c] = batch[c]
        BY <1>3
      <3>3. QED BY <2>1, <3>1, <3>2, AgreementKept
    <2>2. QED BY <1>3, <1>9, <2>1 DEF BatchAgrees, Agrees
  <1>11. QED BY <1>6, <1>7, <1>8, <1>10

LEMMA TablesStep ==
    ASSUME TablesInv, RowStep
    PROVE  TablesInv'
  <1>1. CASE UNCHANGED <<task, batch>>
    BY <1>1 DEF TablesInv, TablesTyped, RowsShaped, BatchesShaped, BatchAgrees
  <1>2. CASE \E b \in Batches : CreateImageGenerationBatch(b) \/ RequestImageBatchCancel(b)
    BY <1>2, CreateKeeps, CancelKeeps
  <1>3. CASE \E k \in Tasks : Touched(k) \/ Claimed(k) \/ Ended(k)
    BY <1>3, TouchedKeeps, ClaimedKeeps, EndedKeeps
  <1>4. QED BY <1>1, <1>2, <1>3 DEF RowStep

LEMMA TablesInit ==
    ASSUME Init PROVE TablesInv
  <1>1. /\ \A k \in Tasks : task[k] = NoTask
        /\ \A b \in Batches : batch[b] = [status |-> "NONE", cancel |-> FALSE,
                                          succeeded |-> 0, failed |-> 0, canceled |-> 0]
    BY DEF Init
  <1>2. NoTask \in Task
    BY ImageAssumption DEF NoTask, Task, Generations
  <1>3. TablesTyped
    BY <1>2 DEF Init, TablesTyped, Batch
  <1>4. \A k \in Tasks : BatchOf[k] \in Batches
    BY ImageAssumption
  <1>5. RowsShaped
    BY <1>1, <1>4, ImageAssumption DEF RowsShaped, NoTask, Open
  <1>6. BatchesShaped /\ BatchAgrees
    BY <1>1 DEF BatchesShaped, BatchAgrees
  <1>7. QED BY <1>3, <1>5, <1>6 DEF TablesInv

(***************************************************************************)
(* Every step is of one of these kinds.                                     *)
(***************************************************************************)

\* A transaction that ends the row of a worker's task under its fence.
LEMMA FencedFinishEnds ==
    ASSUME TablesInv, WorkersTyped, NEW w \in Slots, slot[w].pc # "idle",
           NEW r, LiveFence(w) => EndRow(slot[w].task, r), FencedFinish(w, r)
    PROVE  RowStep
  <1>1. slot[w].task \in Tasks
    BY DEF WorkersTyped
  <1>2. CASE LiveFence(w)
    <2>1. task[slot[w].task].status \in Open /\ EndRow(slot[w].task, r)
      BY <1>2 DEF LiveFence, Open
    <2>2. r \in Task
      BY <2>1 DEF EndRow
    <2>3. Ended(slot[w].task)
      BY <1>2, <2>1, <2>2 DEF FencedFinish, Ended
    <2>4. QED BY <1>1, <2>3 DEF RowStep
  <1>3. CASE ~LiveFence(w)
    BY <1>3 DEF FencedFinish, RowStep
  <1>4. QED BY <1>2, <1>3

LEMMA EndRows ==
    ASSUME TablesInv, NEW k \in Tasks, task[k].status \in Open
    PROVE  /\ EndRow(k, Closed(task[k], "FAILED"))
           /\ EndRow(k, Canceled(task[k]))
  <1>1. task[k] \in Task /\ task[k].dispatch <= MaxGeneration
    BY DEF TablesInv, TablesTyped, RowsShaped, Open
  <1>2. task[k].dispatch \in Nat
    BY <1>1, RearmedRow
  <1>3. EndRow(k, Closed(task[k], "FAILED"))
    BY <1>1, <1>2, ClosedRow DEF EndRow, TerminalTask
  <1>4. EndRow(k, Canceled(task[k]))
    BY <1>1, <1>2, CanceledRow DEF EndRow, TerminalTask
  <1>5. QED BY <1>3, <1>4

LEMMA DoneRowEnds ==
    ASSUME TablesInv, WorkersTyped, NEW w \in Slots, slot[w].pc = "finish",
           slot'[w].pc = "idle", LiveFence(w), ~LimitExceeded(w)
    PROVE  EndRow(slot[w].task, DoneRow(w))
  <1> DEFINE k == slot[w].task
             x == Closed(task[k], "DONE")
  <1>1. k \in Tasks /\ slot[w].manifest \in Generations
    BY DEF WorkersTyped, Slot
  <1>2. task[k] \in Task /\ task[k].dispatch <= MaxGeneration /\ task[k].dispatch \in Nat
    BY <1>1, RearmedRow DEF TablesInv, TablesTyped, RowsShaped, LiveFence
  <1>3. /\ x \in Task /\ x.status = "DONE" /\ x.due /\ ~x.live
        /\ x.claim = task[k].claim /\ x.dispatch = task[k].dispatch
    BY <1>2, ClosedRow DEF TerminalTask
  <1>4. DoneRow(w) = [x EXCEPT !.manifest = slot[w].manifest]
    BY DEF DoneRow
  <1> HIDE DEF x
  <1>5. /\ DoneRow(w) \in Task /\ DoneRow(w).status = "DONE"
        /\ DoneRow(w).due /\ ~DoneRow(w).live
        /\ DoneRow(w).claim = task[k].claim /\ DoneRow(w).dispatch = task[k].dispatch
        /\ DoneRow(w).manifest = slot[w].manifest
    BY <1>1, <1>3, <1>4 DEF Task
  <1>6. CountOf(BatchOf[k], task, "DONE") + 1 <= ArtifactByteLimit
    <2>1. CountOf(BatchOf[k], task, "DONE") \in Nat /\ ArtifactByteLimit \in Nat
      BY CountIsNat, ImageAssumption
    <2>2. QED BY <2>1 DEF LimitExceeded
  <1>7. FinishesTask(w, k, DoneRow(w))
    BY <1>5 DEF FinishesTask, LiveFence
  <1>8. QED BY <1>2, <1>5, <1>6, <1>7 DEF EndRow, TerminalTask

LEMMA ClaimWriteClaims ==
    ASSUME TablesInv, WorkersTyped, NEW w \in Slots,
           Claimable(w), ~Exhausted(slot[w].task), CapacityAvailable(slot[w].task),
           ClaimWrite(w)
    PROVE  Claimed(slot[w].task)
  <1> DEFINE k == slot[w].task
             r == [task[k] EXCEPT !.status = "RUNNING", !.claim = task[k].dispatch,
                                  !.owner = ProcOf[w], !.live = TRUE, !.due = TRUE,
                                  !.dispatched = TRUE]
  <1>1. k \in Tasks /\ task[k] \in Task
    BY DEF Claimable, Holding, WorkersTyped, TablesInv, TablesTyped
  <1>2. /\ task[k].dispatch = slot[w].gen /\ task[k].dispatch > task[k].claim
        /\ ~Cancelled(k) /\ batch[BatchOf[k]].status \notin TerminalBatch
        /\ task[k].status \in Open
    BY DEF Claimable, Open
  <1>3. task[k].dispatch \in Generations
    BY <1>2 DEF WorkersTyped, Slot
  <1>4. r \in Task
    BY <1>1, <1>3 DEF Task
  <1>5. /\ r.status = "RUNNING" /\ r.claim = r.dispatch /\ r.dispatch = task[k].dispatch
        /\ r.retry = task[k].retry
    BY <1>1 DEF Task
  <1>6. task' = [task EXCEPT ![k] = r]
    BY DEF ClaimWrite
  <1>7. batch' = [batch EXCEPT ![BatchOf[k]].status =
                    IF @ \in {"PENDING", "RUNNING"} THEN "RUNNING" ELSE @]
    BY DEF ClaimWrite
  <1>8. r.retry < MaxRetry \/ r.retry = 0
    <2>1. task[k].retry \in Nat /\ MaxRetry \in Nat
      BY <1>1, ImageAssumption DEF Task
    <2>2. QED BY <1>5, <2>1 DEF Exhausted
  <1>9. task[k].claim < r.claim
    <2>1. task[k].claim \in Nat /\ task[k].dispatch \in Nat
      BY <1>1, <1>3, ImageAssumption DEF Task, Generations
    <2>2. QED BY <1>2, <1>5, <2>1
  <1> HIDE DEF r
  <1>10. QED BY <1>2, <1>4, <1>5, <1>6, <1>7, <1>8, <1>9 DEF Claimed

\* A row armed again, still open.
LEMMA RearmedTouches ==
    ASSUME TablesInv, NEW k \in Tasks, task[k].status \in Open,
           task[k].dispatch < MaxGeneration,
           task' = [task EXCEPT ![k] = Rearmed(@)], batch' = batch
    PROVE  Touched(k)
  <1>1. task[k] \in Task /\ task[k].dispatch <= MaxGeneration
    BY DEF TablesInv, TablesTyped, RowsShaped, Open
  <1>2. /\ Rearmed(task[k]) \in Task
        /\ Rearmed(task[k]).dispatch = task[k].dispatch + 1 /\ task[k].dispatch \in Nat
        /\ Rearmed(task[k]).status = task[k].status /\ Rearmed(task[k]).claim = task[k].claim
        /\ Rearmed(task[k]).live = task[k].live /\ Rearmed(task[k]).retry = task[k].retry
    BY <1>1, RearmedRow
  <1> DEFINE r == Rearmed(task[k])
  <1>3. task' = [task EXCEPT ![k] = r]
    OBVIOUS
  <1>4. task[k].dispatch <= r.dispatch /\ r.dispatch <= MaxGeneration
    BY <1>2, ImageAssumption
  <1>5. /\ r \in Task /\ r.status = task[k].status /\ r.claim = task[k].claim
        /\ r.live = task[k].live /\ r.retry = task[k].retry
    BY <1>2
  <1> HIDE DEF r
  <1>6. QED BY <1>3, <1>4, <1>5 DEF Touched

\* One flag of an open row changes.
LEMMA FlagTouches ==
    ASSUME TablesInv, NEW k \in Tasks, task[k].status \in Open, batch' = batch,
           \/ task' = [task EXCEPT ![k].live = FALSE]
           \/ task' = [task EXCEPT ![k].due = TRUE]
           \/ task' = [task EXCEPT ![k].dispatched = TRUE]
    PROVE  Touched(k)
  <1>1. task[k] \in Task /\ task[k].dispatch <= MaxGeneration
    BY DEF TablesInv, TablesTyped, RowsShaped, Open
  <1>2. task[k].dispatch \in Nat
    BY <1>1, RearmedRow
  <1>3. ASSUME NEW r, task' = [task EXCEPT ![k] = r],
               \/ r = [task[k] EXCEPT !.live = FALSE]
               \/ r = [task[k] EXCEPT !.due = TRUE]
               \/ r = [task[k] EXCEPT !.dispatched = TRUE]
        PROVE  Touched(k)
    <2>1. /\ r \in Task /\ r.status = task[k].status /\ r.retry = task[k].retry
          /\ r.claim = task[k].claim /\ r.dispatch = task[k].dispatch
          /\ r.live \in {FALSE, task[k].live}
      <3>1. CASE r = [task[k] EXCEPT !.live = FALSE]
        BY <1>1, <3>1 DEF Task
      <3>2. CASE r = [task[k] EXCEPT !.due = TRUE]
        BY <1>1, <3>2 DEF Task
      <3>3. CASE r = [task[k] EXCEPT !.dispatched = TRUE]
        BY <1>1, <3>3 DEF Task
      <3>4. QED BY <1>3, <3>1, <3>2, <3>3
    <2>2. task[k].dispatch <= r.dispatch /\ r.dispatch <= MaxGeneration
      BY <1>1, <1>2, <2>1
    <2>3. r.live => task[k].live
      BY <2>1
    <2>4. QED BY <1>3, <2>1, <2>2, <2>3 DEF Touched
  <1>4. QED BY <1>3

LEMMA RetryRow ==
    ASSUME TablesInv, WorkersTyped, NEW w \in Slots, slot[w].pc # "idle", Retry(w)
    PROVE  RowStep
  <1> DEFINE k == slot[w].task
  <1>1. k \in Tasks /\ task[k] \in Task
    BY DEF WorkersTyped, TablesInv, TablesTyped
  <1>2. CASE LiveFence(w) /\ ~Cancelled(k) /\ task[k].retry >= MaxRetry
    <2>1. FencedFinish(w, Closed(task[k], "FAILED"))
      BY <1>2 DEF Retry
    <2>2. LiveFence(w) => EndRow(k, Closed(task[k], "FAILED"))
      BY <1>1, EndRows DEF LiveFence, Open
    <2>3. QED BY <2>1, <2>2, FencedFinishEnds
  <1>3. CASE LiveFence(w) /\ ~Cancelled(k) /\ ~(task[k].retry >= MaxRetry)
    <2> DEFINE x == Closed(task[k], "PENDING")
               y == Rearmed(x)
               r == [y EXCEPT !.due = FALSE, !.retry = @ + 1]
    <2>1. /\ task[k].dispatch < MaxGeneration /\ batch' = batch
          /\ task' = [task EXCEPT ![k] = r]
      BY <1>3 DEF Retry
    <2>2. task[k].dispatch <= MaxGeneration /\ task[k].status = "RUNNING"
      BY <1>1, <1>3 DEF TablesInv, RowsShaped, LiveFence
    <2>3. /\ x \in Task /\ x.status = "PENDING" /\ ~x.live
          /\ x.claim = task[k].claim /\ x.dispatch = task[k].dispatch
          /\ x.retry = task[k].retry
      BY <1>1, ClosedRow
    <2> HIDE DEF x
    <2>4. /\ y \in Task /\ y.status = "PENDING" /\ ~y.live
          /\ y.claim = task[k].claim /\ y.dispatch = task[k].dispatch + 1
          /\ task[k].dispatch \in Nat /\ y.retry = task[k].retry
      BY <2>2, <2>3, RearmedRow
    <2> HIDE DEF y
    <2>5. y.retry + 1 \in 0..MaxRetry
      BY <1>1, <1>3, <2>4, ImageAssumption DEF Task
    <2>6. /\ r \in Task /\ r.status = "PENDING" /\ r.live = y.live
          /\ r.claim = task[k].claim /\ r.dispatch = y.dispatch
      BY <2>4, <2>5 DEF Task
    <2> HIDE DEF r
    <2>7. task[k].dispatch <= r.dispatch /\ r.dispatch <= MaxGeneration
      BY <2>1, <2>4, <2>6, ImageAssumption
    <2>8. Touched(k)
      BY <1>3, <2>1, <2>2, <2>4, <2>6, <2>7 DEF Touched, Open
    <2>9. QED BY <1>1, <2>8 DEF RowStep
  <1>4. CASE ~(LiveFence(w) /\ ~Cancelled(k))
    BY <1>4 DEF Retry, RowStep
  <1>5. QED BY <1>2, <1>3, <1>4

LEMMA RowSteps ==
    ASSUME TablesInv, WorkersTyped, [Next]_vars
    PROVE  RowStep
  <1> DEFINE Still == UNCHANGED <<task, batch>>
  <1>1. ASSUME NEW k \in Tasks, task[k].status \in Open, Touched(k) \/ Claimed(k) \/ Ended(k)
        PROVE  RowStep
    BY <1>1 DEF RowStep
  <1>2. \A k \in Tasks : task[k].status \in Open =>
          EndRow(k, Closed(task[k], "FAILED")) /\ EndRow(k, Canceled(task[k]))
    BY EndRows
  <1>3. \A w \in Slots : LiveFence(w) => task[slot[w].task].status \in Open
    BY DEF LiveFence, Open
  <1>4. \A w \in Slots : slot[w].pc # "idle" => slot[w].task \in Tasks
    BY DEF WorkersTyped
  <1>5. CASE UNCHANGED vars
    BY <1>5 DEF vars, RowStep
  <1>6. ASSUME NEW b \in Batches, CreateImageGenerationBatch(b) \/ RequestImageBatchCancel(b)
        PROVE  RowStep
    BY <1>6 DEF RowStep
  <1>7. ASSUME NEW k \in Tasks, ListDispatchable(k) PROVE RowStep
    BY <1>7 DEF ListDispatchable, RowStep
  <1>8. ASSUME NEW k \in Tasks, SweepExpired(k) PROVE RowStep
    <2>1. task[k].status \in Open /\ task[k].status = "RUNNING"
      BY <1>8 DEF SweepExpired, Open
    <2>2. CASE Cancelled(k)
      <3>1. task' = [task EXCEPT ![k] = Canceled(task[k])] /\ Recompute(BatchOf[k], task', TRUE)
        BY <1>8, <2>2 DEF SweepExpired
      <3>2. Cancelled(k) = TRUE
        BY <2>2, ImageAssumption DEF Cancelled, TablesInv, TablesTyped, Batch
      <3>3. EndRow(k, Canceled(task[k])) /\ Canceled(task[k]) \in Task
        BY <1>2, <2>1 DEF EndRow
      <3>4. Ended(k)
        BY <2>1, <3>1, <3>2, <3>3 DEF Ended
      <3>5. QED BY <3>4 DEF RowStep
    <2>3. CASE ~Cancelled(k)
      <3>1. /\ task' = [task EXCEPT ![k] = Rearmed(@)] /\ batch' = batch
            /\ task[k].dispatch < MaxGeneration
        BY <1>8, <2>3 DEF SweepExpired
      <3>2. QED BY <2>1, <3>1, RearmedTouches DEF RowStep
    <2>4. QED BY <2>2, <2>3
  <1>9. ASSUME NEW k \in Tasks, RearmUnclaimed(k) PROVE RowStep
    <2>1. /\ task[k].status \in Open /\ task[k].dispatch < MaxGeneration
          /\ task' = [task EXCEPT ![k] = Rearmed(@)] /\ batch' = batch
      BY <1>9 DEF RearmUnclaimed, Open
    <2>2. QED BY <2>1, RearmedTouches DEF RowStep
  <1>10. ASSUME NEW k \in Tasks, LeaseExpires(k) PROVE RowStep
    <2>1. task[k].status \in Open
      BY <1>10 DEF LeaseExpires, TablesInv, RowsShaped
    <2>2. QED BY <1>10, <2>1, FlagTouches DEF LeaseExpires, RowStep
  <1>11. ASSUME NEW k \in Tasks, NextRunDue(k) PROVE RowStep
    <2>1. task[k].status \in Open
      BY <1>11 DEF NextRunDue, TablesInv, RowsShaped
    <2>2. QED BY <1>11, <2>1, FlagTouches DEF NextRunDue, RowStep
  <1>12. CASE Publish
    BY <1>12 DEF Publish, RowStep
  <1>13. CASE Mark
    <2>1. pub.task \in Tasks
      BY <1>13 DEF Mark, WorkersTyped
    <2>2. CASE task[pub.task] = pub.row /\ Dispatchable(pub.task)
      <3>1. task' = [task EXCEPT ![pub.task].dispatched = TRUE] /\ batch' = batch
        BY <1>13, <2>2 DEF Mark
      <3>2. task[pub.task].status \in Open
        BY <2>2 DEF Dispatchable, Open
      <3>3. QED BY <2>1, <3>1, <3>2, FlagTouches DEF RowStep
    <2>3. CASE ~(task[pub.task] = pub.row /\ Dispatchable(pub.task))
      BY <1>13, <2>3 DEF Mark, RowStep
    <2>4. QED BY <2>2, <2>3
  <1>14. CASE DispatcherStops
    BY <1>14 DEF DispatcherStops, RowStep
  <1>15. ASSUME NEW w \in Slots, NEW m \in Message, TakeDelivery(w, m) PROVE RowStep
    BY <1>15 DEF TakeDelivery, RowStep
  <1>16. ASSUME NEW w \in Slots, Prepare(w) \/ ClaimCommitLost(w) PROVE RowStep
    <2>1. CASE ClaimDuplicateStale(w) \/ ClaimCapacityDeferred(w)
      BY <2>1 DEF ClaimDuplicateStale, ClaimCapacityDeferred, RowStep
    <2>2. CASE ClaimExhausted(w)
      <3> DEFINE k == slot[w].task
      <3>1. k \in Tasks /\ ~Cancelled(k) /\ task[k].status \in Open
        BY <1>4, <2>2 DEF ClaimExhausted, Claimable, Holding, Open
      <3>2. /\ task' = [task EXCEPT ![k] = Closed(task[k], "FAILED")]
            /\ Recompute(BatchOf[k], task', FALSE)
        BY <2>2 DEF ClaimExhausted
      <3>3. Cancelled(k) = FALSE
        BY <3>1, ImageAssumption DEF Cancelled, TablesInv, TablesTyped, Batch
      <3>4. EndRow(k, Closed(task[k], "FAILED")) /\ Closed(task[k], "FAILED") \in Task
        BY <1>2, <3>1 DEF EndRow
      <3>5. Ended(k)
        BY <3>1, <3>2, <3>3, <3>4 DEF Ended
      <3>6. QED BY <3>1, <3>5 DEF RowStep
    <2>3. CASE Claim(w) \/ ClaimCommitLost(w)
      <3>1. /\ Claimable(w) /\ ~Exhausted(slot[w].task) /\ CapacityAvailable(slot[w].task)
            /\ ClaimWrite(w) \/ Still
        BY <2>3 DEF Claim, ClaimCommitLost
      <3>2. slot[w].task \in Tasks
        BY <1>4, <3>1 DEF Claimable, Holding
      <3>3. QED BY <3>1, <3>2, ClaimWriteClaims DEF RowStep
    <2>4. QED BY <1>16, <2>1, <2>2, <2>3 DEF Prepare
  <1>17. ASSUME NEW w \in Slots, Heartbeat(w) \/ SlotStops(w) \/ FinishUnavailable(w) PROVE RowStep
    BY <1>17 DEF Heartbeat, SlotStops, FinishUnavailable, RowStep
  <1>18. ASSUME NEW w \in Slots, RunClaim(w) \/ FinishCommitLost(w) PROVE RowStep
    <2>1. CASE StoppedByHeartbeat(w)
      <3>1. /\ slot[w].pc # "idle"
            /\ FencedFinish(w, Canceled(task[slot[w].task])) \/ Still
        BY <2>1 DEF StoppedByHeartbeat
      <3>2. LiveFence(w) => EndRow(slot[w].task, Canceled(task[slot[w].task]))
        BY <1>2, <1>3, <1>4, <3>1
      <3>3. QED BY <3>1, <3>2, FencedFinishEnds DEF RowStep
    <2>2. CASE GenerateFailed(w) \/ FinishRefused(w)
      <3>1. slot[w].pc # "idle" /\ FencedFinish(w, Closed(task[slot[w].task], "FAILED"))
        BY <2>2 DEF GenerateFailed, FinishRefused, StepDone
      <3>2. LiveFence(w) => EndRow(slot[w].task, Closed(task[slot[w].task], "FAILED"))
        BY <1>2, <1>3, <1>4, <3>1
      <3>3. QED BY <3>1, <3>2, FencedFinishEnds
    <2>3. CASE RetryClaim(w)
      BY <2>3, RetryRow DEF RetryClaim
    <2>4. CASE FinishDone(w) \/ FinishCommitLost(w)
      <3>1. /\ slot[w].pc = "finish" /\ LiveFence(w) /\ ~LimitExceeded(w)
            /\ FencedFinish(w, DoneRow(w)) \/ Still
            /\ slot' = [slot EXCEPT ![w] = SlotIdle]
        BY <2>4 DEF FinishDone, FinishCommitLost, Ack, Idle
      <3>2. slot'[w].pc = "idle"
        BY <3>1 DEF WorkersTyped, SlotIdle
      <3>3. EndRow(slot[w].task, DoneRow(w))
        BY <3>1, <3>2, DoneRowEnds
      <3>4. QED BY <3>1, <3>3, FencedFinishEnds DEF RowStep
    <2>5. CASE \/ SalvageFound(w) \/ SalvageNothing(w) \/ Generated(w) \/ PublishArtifacts(w)
               \/ DeleteClaimArtifacts(w)
      BY <2>5 DEF SalvageFound, SalvageNothing, Generated, PublishArtifacts,
         DeleteClaimArtifacts, RowStep
    <2>6. QED BY <1>18, <2>1, <2>2, <2>3, <2>4, <2>5 DEF RunClaim
  <1>19. QED
    BY <1>5, <1>6, <1>7, <1>8, <1>9, <1>10, <1>11, <1>12, <1>13, <1>14, <1>15, <1>16,
       <1>17, <1>18 DEF Next

LEMMA WorkerSteps ==
    ASSUME TablesInv, WorkersTyped, [Next]_vars
    PROVE  WorkerStep
  <1> DEFINE Still == UNCHANGED <<slot, objects>>
  <1>1. \A w \in Slots : slot[w] \in Slot /\ (slot[w].pc # "idle" => slot[w].task \in Tasks)
    BY DEF WorkersTyped
  <1>2. CASE UNCHANGED vars
    BY <1>2 DEF vars, WorkerStep
  <1>3. ASSUME NEW b \in Batches, CreateImageGenerationBatch(b) \/ RequestImageBatchCancel(b)
        PROVE  Still
    BY <1>3 DEF CreateImageGenerationBatch, RequestImageBatchCancel
  <1>4. ASSUME NEW k \in Tasks, \/ ListDispatchable(k) \/ SweepExpired(k) \/ RearmUnclaimed(k)
                                \/ LeaseExpires(k) \/ NextRunDue(k)
        PROVE  Still
    BY <1>4 DEF ListDispatchable, SweepExpired, RearmUnclaimed, LeaseExpires, NextRunDue
  <1>5. CASE Publish \/ Mark \/ DispatcherStops
    BY <1>5 DEF Publish, Mark, DispatcherStops, WorkerStep
  <1>6. ASSUME NEW w \in Slots, NEW m \in Message, TakeDelivery(w, m) PROVE WorkerStep
    BY <1>6 DEF TakeDelivery, Takes, WorkerStep
  <1>7. ASSUME NEW w \in Slots, Prepare(w) \/ ClaimCommitLost(w) PROVE WorkerStep
    <2>1. CASE \/ ClaimDuplicateStale(w) \/ ClaimExhausted(w) \/ ClaimCapacityDeferred(w)
               \/ ClaimCommitLost(w)
      BY <2>1 DEF ClaimDuplicateStale, ClaimExhausted, ClaimCapacityDeferred, ClaimCommitLost,
         Ack, NackRequeue, Idle, Frees, WorkerStep
    <2>2. CASE Claim(w)
      <3> DEFINE k == slot[w].task
      <3>1. /\ slot[w].pc = "held" /\ k \in Tasks /\ objects' = objects
            /\ slot' = [slot EXCEPT ![w].pc = "salvage", ![w].previous = task[k].claim]
        BY <1>1, <2>2 DEF Claim, Claimable, Holding
      <3>2. /\ task[k].claim < slot[w].gen /\ task[k].dispatch = slot[w].gen
        <4>1. task[k].claim \in Nat /\ slot[w].gen \in Nat
          BY <1>1, <3>1, ImageAssumption DEF TablesInv, TablesTyped, Task, Slot, Generations
        <4>2. QED BY <2>2, <4>1 DEF Claim, Claimable
      <3>3. task'[k].claim = slot[w].gen /\ task'[k].status = "RUNNING"
        BY <2>2, <3>1, <3>2 DEF Claim, ClaimWrite, TablesInv, TablesTyped, Task
      <3>4. QED BY <3>1, <3>2, <3>3 DEF Claims, WorkerStep
    <2>3. QED BY <1>7, <2>1, <2>2 DEF Prepare
  <1>8. ASSUME NEW w \in Slots, Heartbeat(w) PROVE WorkerStep
    <2>1. /\ slot[w].pc \in {"salvage", "generate", "publish"} /\ objects' = objects
          /\ \E beat \in {"canceled", "stale"} : slot' = [slot EXCEPT ![w].beat = beat]
      BY <1>8 DEF Heartbeat, Working
    <2>2. PICK beat \in {"canceled", "stale"} : slot' = [slot EXCEPT ![w].beat = beat]
      BY <2>1
    <2> DEFINE x == [slot[w] EXCEPT !.beat = beat]
    <2>3. /\ x \in Slot /\ x.pc = slot[w].pc
          /\ x.task = slot[w].task /\ x.gen = slot[w].gen /\ x.previous = slot[w].previous
      BY <1>1 DEF Slot
    <2>4. slot' = [slot EXCEPT ![w] = x]
      BY <2>2
    <2> HIDE DEF x
    <2>5. QED BY <2>1, <2>3, <2>4 DEF Works, WorkerStep
  <1>9. ASSUME NEW w \in Slots, SlotStops(w) \/ FinishUnavailable(w) \/ FinishCommitLost(w)
        PROVE  WorkerStep
    BY <1>9 DEF SlotStops, FinishUnavailable, FinishCommitLost, Ack, NackRequeue, Idle, Frees,
       Rejects, WorkerStep
  <1>10. ASSUME NEW w \in Slots, RunClaim(w) PROVE WorkerStep
    <2>1. CASE StoppedByHeartbeat(w) \/ RetryClaim(w)
      BY <2>1 DEF StoppedByHeartbeat, RetryClaim, PerhapsPublished, Publishing, Ack, Idle, Frees,
         WorkerStep
    <2>2. CASE GenerateFailed(w) \/ FinishDone(w)
      BY <2>2 DEF GenerateFailed, FinishDone, Ack, Idle, Frees, WorkerStep
    <2>3. CASE SalvageNothing(w) \/ Generated(w)
      <3>1. /\ slot[w].pc \in {"salvage", "generate", "publish"} /\ objects' = objects
            /\ \E pc \in {"generate", "publish"} : slot' = [slot EXCEPT ![w].pc = pc]
        BY <2>3 DEF SalvageNothing, Generated, StepDone
      <3>2. PICK pc \in {"generate", "publish"} : slot' = [slot EXCEPT ![w].pc = pc]
        BY <3>1
      <3> DEFINE x == [slot[w] EXCEPT !.pc = pc]
      <3>3. /\ x \in Slot /\ x.pc = pc
            /\ x.task = slot[w].task /\ x.gen = slot[w].gen /\ x.previous = slot[w].previous
        BY <1>1 DEF Slot
      <3>4. slot' = [slot EXCEPT ![w] = x]
        BY <3>2
      <3> HIDE DEF x
      <3>5. QED BY <3>1, <3>3, <3>4 DEF Works, WorkerStep
    <2>4. CASE SalvageFound(w) \/ PublishArtifacts(w)
      BY <2>4 DEF SalvageFound, PublishArtifacts, StepDone, Finds, WorkerStep
    <2>5. CASE FinishRefused(w)
      BY <2>5 DEF FinishRefused, Rejects, WorkerStep
    <2>6. CASE DeleteClaimArtifacts(w)
      BY <2>6 DEF DeleteClaimArtifacts, Ack, Idle, Deletes, WorkerStep
    <2>7. QED BY <1>10, <2>1, <2>2, <2>3, <2>4, <2>5, <2>6 DEF RunClaim
  <1>11. QED
    BY <1>2, <1>3, <1>4, <1>5, <1>6, <1>7, <1>8, <1>9, <1>10 DEF Next, WorkerStep

(***************************************************************************)
(* The shape of workers, queue and dispatcher is kept.                      *)
(***************************************************************************)
LEMMA WorkersKeep ==
    ASSUME TablesInv, WorkersTyped, [Next]_vars
    PROVE  WorkersTyped'
  <1> DEFINE SlotsTyped == /\ slot \in [Slots -> Slot] /\ objects \subseteq Message
                           /\ \A w \in Slots : slot[w].pc # "idle" => slot[w].task \in Tasks
  <1>1. \A w \in Slots : /\ slot[w] \in Slot
                         /\ slot[w].pc # "idle" => slot[w].task \in Tasks
                         /\ slot[w].pc # "idle" => <<slot[w].task, slot[w].gen>> \in Message
    BY DEF WorkersTyped, Slot, Message
  <1>2. SlotIdle \in Slot /\ SlotIdle.pc = "idle"
    BY ImageAssumption DEF SlotIdle, Slot, Generations
  <1>3. SlotsTyped'
    <2>1. ASSUME NEW w \in Slots, NEW x \in Slot, slot' = [slot EXCEPT ![w] = x],
                 x.pc # "idle" => x.task \in Tasks, objects' \subseteq Message
          PROVE  SlotsTyped'
      BY <2>1 DEF WorkersTyped
    <2>2. CASE UNCHANGED <<slot, objects>>
      BY <2>2 DEF WorkersTyped
    <2>3. ASSUME NEW w \in Slots, Frees(w) PROVE SlotsTyped'
      <3>1. objects' \subseteq Message
        BY <1>1, <2>3 DEF Frees, WorkersTyped
      <3>2. QED BY <1>2, <2>1, <2>3, <3>1 DEF Frees
    <2>4. ASSUME NEW w \in Slots, Takes(w) PROVE SlotsTyped'
      <3>1. PICK m \in Message :
              slot' = [slot EXCEPT ![w] = [SlotIdle EXCEPT !.pc = "held", !.task = m[1],
                                                           !.gen = m[2]]]
        BY <2>4 DEF Takes
      <3>2. m[1] \in Tasks /\ m[2] \in Generations
        BY DEF Message
      <3> DEFINE x == [SlotIdle EXCEPT !.pc = "held", !.task = m[1], !.gen = m[2]]
      <3>3. x \in Slot /\ x.task \in Tasks
        BY <1>2, <3>2 DEF Slot
      <3> HIDE DEF x
      <3>4. objects' \subseteq Message
        BY <2>4 DEF Takes, WorkersTyped
      <3>5. slot' = [slot EXCEPT ![w] = x]
        BY <3>1 DEF x
      <3>6. QED BY <2>1, <3>3, <3>4, <3>5
    <2>5. ASSUME NEW w \in Slots, Claims(w) PROVE SlotsTyped'
      <3> DEFINE k == slot[w].task
                 x == [slot[w] EXCEPT !.pc = "salvage", !.previous = task[k].claim]
      <3>1. k \in Tasks /\ task[k].claim \in Generations
        BY <1>1, <2>5 DEF Claims, TablesInv, TablesTyped, Task
      <3>2. x \in Slot /\ x.task = k
        BY <1>1, <3>1 DEF Slot
      <3>3. slot' = [slot EXCEPT ![w] = x] /\ objects' \subseteq Message
        BY <2>5 DEF Claims, WorkersTyped
      <3> HIDE DEF x
      <3>4. QED BY <2>1, <3>1, <3>2, <3>3
    <2>6. ASSUME NEW w \in Slots, Works(w) PROVE SlotsTyped'
      <3>1. PICK x \in Slot : slot' = [slot EXCEPT ![w] = x] /\ x.task = slot[w].task
        BY <2>6 DEF Works
      <3>2. slot[w].task \in Tasks /\ objects' \subseteq Message
        BY <1>1, <2>6 DEF Works, WorkersTyped
      <3>3. QED BY <2>1, <3>1, <3>2
    <2>7. ASSUME NEW w \in Slots, Finds(w) PROVE SlotsTyped'
      <3>1. slot[w].task \in Tasks /\ objects' \subseteq Message
        BY <1>1, <2>7 DEF Finds, WorkersTyped
      <3>2. PICK n \in {slot[w].previous, slot[w].gen} :
              slot' = [slot EXCEPT ![w].pc = "finish", ![w].manifest = n]
        BY <2>7 DEF Finds
      <3> DEFINE x == [slot[w] EXCEPT !.pc = "finish", !.manifest = n]
      <3>3. n \in Generations
        BY <1>1 DEF Slot
      <3>4. x \in Slot /\ x.task = slot[w].task
        BY <1>1, <3>3 DEF Slot
      <3>5. slot' = [slot EXCEPT ![w] = x]
        BY <3>2
      <3> HIDE DEF x
      <3>6. QED BY <2>1, <3>1, <3>4, <3>5
    <2>8. ASSUME NEW w \in Slots, Rejects(w) PROVE SlotsTyped'
      <3> DEFINE x == [slot[w] EXCEPT !.pc = "delete"]
      <3>1. x \in Slot /\ x.task = slot[w].task /\ slot[w].task \in Tasks
        BY <1>1, <2>8 DEF Rejects, Slot
      <3>2. slot' = [slot EXCEPT ![w] = x] /\ objects' \subseteq Message
        BY <2>8 DEF Rejects, WorkersTyped
      <3> HIDE DEF x
      <3>3. QED BY <2>1, <3>1, <3>2
    <2>9. ASSUME NEW w \in Slots, Deletes(w) PROVE SlotsTyped'
      <3>1. objects' \subseteq Message
        BY <2>9 DEF Deletes, WorkersTyped
      <3>2. QED BY <1>2, <2>1, <2>9, <3>1 DEF Deletes
    <2>10. QED
      BY WorkerSteps, <2>2, <2>3, <2>4, <2>5, <2>6, <2>7, <2>8, <2>9 DEF WorkerStep
  <1>4. /\ \/ queue' \subseteq queue
           \/ \E w \in Slots : slot[w].pc # "idle" /\
                queue' = queue \cup {<<slot[w].task, slot[w].gen>>}
           \/ pub.pc # "idle" /\ queue' = queue \cup {<<pub.task, pub.row.dispatch>>}
        /\ faults' \in {faults, faults + 1} /\ (faults' = faults \/ faults < MaxFaults)
    <2>1. CASE UNCHANGED vars
      BY <2>1 DEF vars
    <2>2. ASSUME NEW b \in Batches, CreateImageGenerationBatch(b) \/ RequestImageBatchCancel(b)
          PROVE  UNCHANGED <<queue, faults>>
      BY <2>2 DEF CreateImageGenerationBatch, RequestImageBatchCancel
    <2>3. ASSUME NEW k \in Tasks, \/ ListDispatchable(k) \/ SweepExpired(k) \/ RearmUnclaimed(k)
                                  \/ LeaseExpires(k) \/ NextRunDue(k)
          PROVE  queue' \subseteq queue /\ (faults' = faults \/ Fault)
      BY <2>3 DEF ListDispatchable, SweepExpired, RearmUnclaimed, LeaseExpires, NextRunDue
    <2>4. CASE Publish \/ Mark \/ DispatcherStops
      BY <2>4 DEF Publish, Mark, DispatcherStops, Fault
    <2>5. ASSUME NEW w \in Slots, NEW m \in Message, TakeDelivery(w, m)
          PROVE  queue' \subseteq queue /\ faults' = faults
      BY <2>5 DEF TakeDelivery
    <2>6. ASSUME NEW w \in Slots, Prepare(w) \/ ClaimCommitLost(w) \/ SlotStops(w)
          PROVE  /\ slot[w].pc # "idle" /\ (faults' = faults \/ Fault)
                 /\ \/ queue' = queue
                    \/ queue' = queue \cup {<<slot[w].task, slot[w].gen>>}
      BY <2>6 DEF Prepare, ClaimDuplicateStale, ClaimExhausted, ClaimCapacityDeferred, Claim,
         ClaimCommitLost, SlotStops, Claimable, Holding, Ack, NackRequeue
    <2>7. ASSUME NEW w \in Slots, \/ Heartbeat(w) \/ RunClaim(w) \/ FinishUnavailable(w)
                                  \/ FinishCommitLost(w)
          PROVE  queue' = queue /\ (faults' = faults \/ Fault)
      BY <2>7 DEF Heartbeat, RunClaim, FinishUnavailable, FinishCommitLost, StoppedByHeartbeat,
         SalvageFound, SalvageNothing, Generated, GenerateFailed, RetryClaim, PublishArtifacts,
         FinishDone, FinishRefused, DeleteClaimArtifacts, Ack
    <2>8. QED
      BY <2>1, <2>2, <2>3, <2>4, <2>5, <2>6, <2>7 DEF Next, Fault
  <1>5. \/ pub' = pub \/ pub' = PubIdle
        \/ pub.pc = "listed" /\ pub' = [pub EXCEPT !.pc = "published"]
        \/ \E k \in Tasks : /\ Dispatchable(k)
                            /\ pub' = [pc |-> "listed", task |-> k, row |-> task[k]]
    <2>1. CASE UNCHANGED vars
      BY <2>1 DEF vars
    <2>2. ASSUME NEW b \in Batches, CreateImageGenerationBatch(b) \/ RequestImageBatchCancel(b)
          PROVE  pub' = pub
      BY <2>2 DEF CreateImageGenerationBatch, RequestImageBatchCancel
    <2>3. ASSUME NEW k \in Tasks, \/ SweepExpired(k) \/ RearmUnclaimed(k)
                                  \/ LeaseExpires(k) \/ NextRunDue(k)
          PROVE  pub' = pub
      BY <2>3 DEF SweepExpired, RearmUnclaimed, LeaseExpires, NextRunDue
    <2>4. ASSUME NEW k \in Tasks, ListDispatchable(k)
          PROVE  Dispatchable(k) /\ pub' = [pc |-> "listed", task |-> k, row |-> task[k]]
      BY <2>4 DEF ListDispatchable
    <2>5. CASE Publish \/ Mark \/ DispatcherStops
      BY <2>5 DEF Publish, Mark, DispatcherStops
    <2>6. ASSUME NEW w \in Slots, NEW m \in Message, TakeDelivery(w, m)
          PROVE  pub' = pub
      BY <2>6 DEF TakeDelivery
    <2>7. ASSUME NEW w \in Slots, Prepare(w) \/ ClaimCommitLost(w) \/ SlotStops(w)
          PROVE  pub' = pub
      BY <2>7 DEF Prepare, ClaimDuplicateStale, ClaimExhausted, ClaimCapacityDeferred, Claim,
         ClaimCommitLost, SlotStops
    <2>8. ASSUME NEW w \in Slots, \/ Heartbeat(w) \/ RunClaim(w) \/ FinishUnavailable(w)
                                  \/ FinishCommitLost(w)
          PROVE  pub' = pub
      BY <2>8 DEF Heartbeat, RunClaim, FinishUnavailable, FinishCommitLost, StoppedByHeartbeat,
         SalvageFound, SalvageNothing, Generated, GenerateFailed, RetryClaim, PublishArtifacts,
         FinishDone, FinishRefused, DeleteClaimArtifacts
    <2>9. QED
      BY <2>1, <2>2, <2>3, <2>4, <2>5, <2>6, <2>7, <2>8 DEF Next
  <1> DEFINE PubTyped ==
        /\ pub \in [pc : {"idle", "listed", "published"}, task : Tasks \cup {None}, row : Task]
        /\ pub.pc # "idle" => pub.task \in Tasks /\ pub.row.dispatch <= MaxGeneration
  <1>6. PubTyped'
    <2>1. CASE pub' = pub
      BY <2>1 DEF WorkersTyped
    <2>2. CASE pub' = PubIdle
      <3>1. NoTask \in Task
        BY ImageAssumption DEF NoTask, Task, Generations
      <3>2. QED BY <2>2, <3>1 DEF PubIdle
    <2>3. CASE pub.pc = "listed" /\ pub' = [pub EXCEPT !.pc = "published"]
      BY <2>3 DEF WorkersTyped
    <2>4. ASSUME NEW k \in Tasks, Dispatchable(k),
                 pub' = [pc |-> "listed", task |-> k, row |-> task[k]]
          PROVE  PubTyped'
      BY <2>4 DEF Dispatchable, TablesInv, TablesTyped, RowsShaped
    <2>5. QED BY <1>5, <2>1, <2>2, <2>3, <2>4
  <1>7. queue' \subseteq Message
    <2>1. CASE pub.pc # "idle" /\ queue' = queue \cup {<<pub.task, pub.row.dispatch>>}
      <3>1. pub.task \in Tasks /\ pub.row \in Task /\ pub.row.dispatch <= MaxGeneration
        BY <2>1 DEF WorkersTyped
      <3>2. pub.row.dispatch \in Generations
        BY <3>1, ImageAssumption DEF Task, Generations
      <3>3. QED BY <2>1, <3>1, <3>2 DEF WorkersTyped, Message
    <2>2. QED BY <1>1, <1>4, <2>1 DEF WorkersTyped
  <1>8. faults' \in 0..MaxFaults
    BY <1>4, ImageAssumption DEF WorkersTyped
  <1>9. QED BY <1>3, <1>6, <1>7, <1>8 DEF WorkersTyped

LEMMA WorkersInit ==
    ASSUME Init PROVE WorkersTyped
  <1>1. NoTask \in Task
    BY ImageAssumption DEF NoTask, Task, Generations
  <1>2. SlotIdle \in Slot /\ SlotIdle.pc = "idle"
    BY ImageAssumption DEF SlotIdle, Slot, Generations
  <1>3. slot \in [Slots -> Slot] /\ \A w \in Slots : slot[w].pc = "idle"
    BY <1>2 DEF Init
  <1>4. QED
    BY <1>1, <1>3, ImageAssumption DEF Init, WorkersTyped, PubIdle

(***************************************************************************)
(* What a change of the tables never does.                                  *)
(***************************************************************************)
LEMMA RowsAdvance ==
    ASSUME TablesInv, RowStep, NEW k \in Tasks
    PROVE  /\ task[k].claim <= task'[k].claim
           /\ task[k].status \in TerminalTask => task'[k] = task[k]
           /\ task'[k].status = "DONE" =>
                task'[k] = task[k] \/ (/\ task'[k].claim = task[k].claim
                                      /\ \E w \in Slots : FinishesTask(w, k, task'[k]))
           /\ Cancelled(k) => task'[k].claim = task[k].claim
  <1>1. task[k] \in Task /\ task[k].claim \in Nat
    BY ImageAssumption DEF TablesInv, TablesTyped, Task, Generations
  <1>2. CASE task'[k] = task[k]
    BY <1>1, <1>2
  <1>3. ASSUME NEW b \in Batches, CreateImageGenerationBatch(b), k \in TasksOf(b)
        PROVE  task[k].claim = 0 /\ task[k].status = "NONE"
               /\ task'[k].claim = 0 /\ task'[k].status = "PENDING"
    BY <1>3 DEF CreateImageGenerationBatch, TablesInv, RowsShaped, TasksOf, NoTask
  <1>4. ASSUME NEW b \in Batches, RequestImageBatchCancel(b), task'[k] # task[k]
        PROVE  task[k].status = "PENDING" /\ task'[k] = Canceled(task[k])
    BY <1>4 DEF RequestImageBatchCancel, TasksOf
  <1>5. task[k].status = "PENDING" => Canceled(task[k]).claim = task[k].claim
                                      /\ Canceled(task[k]).status = "CANCELED"
    BY <1>1, CanceledRow DEF TablesInv, RowsShaped
  <1>6. CASE \E b \in Batches : CreateImageGenerationBatch(b) \/ RequestImageBatchCancel(b)
    <2>1. PICK b \in Batches : CreateImageGenerationBatch(b) \/ RequestImageBatchCancel(b)
      BY <1>6
    <2>2. CASE RequestImageBatchCancel(b) /\ task'[k] # task[k]
      BY <1>1, <1>4, <1>5, <2>2 DEF TerminalTask
    <2>3. CASE CreateImageGenerationBatch(b) /\ k \in TasksOf(b)
      BY <1>3, <2>3 DEF TerminalTask
    <2>4. CASE CreateImageGenerationBatch(b) /\ k \notin TasksOf(b)
      BY <1>2, <2>4 DEF CreateImageGenerationBatch
    <2>5. QED BY <1>2, <2>1, <2>2, <2>3, <2>4
  <1>7. ASSUME NEW j \in Tasks, Touched(j), task'[k] # task[k]
        PROVE  task[k].status \in Open /\ task'[k].status \in Open
               /\ task'[k].claim = task[k].claim
    BY <1>7 DEF Touched, TablesInv, TablesTyped
  <1>8. ASSUME NEW j \in Tasks, Claimed(j), task'[k] # task[k]
        PROVE  task[k].status \in Open /\ task'[k].status = "RUNNING"
               /\ task[k].claim < task'[k].claim /\ ~Cancelled(k) /\ task'[k] \in Task
    BY <1>8 DEF Claimed, TablesInv, TablesTyped
  <1>9. ASSUME NEW j \in Tasks, Ended(j), task'[k] # task[k]
        PROVE  task[k].status \in Open /\ EndRow(k, task'[k])
    BY <1>9 DEF Ended, TablesInv, TablesTyped
  <1>10. CASE \E j \in Tasks : Touched(j) /\ task'[k] # task[k]
    BY <1>1, <1>7, <1>10 DEF Open, TerminalTask
  <1>11. CASE \E j \in Tasks : Claimed(j) /\ task'[k] # task[k]
    <2>1. task[k].status \in Open /\ task'[k].status = "RUNNING"
               /\ task[k].claim < task'[k].claim /\ ~Cancelled(k) /\ task'[k] \in Task
      BY <1>8, <1>11
    <2>2. task'[k].claim \in Nat
      BY <2>1, ImageAssumption DEF Task, Generations
    <2>3. QED BY <1>1, <2>1, <2>2 DEF Open, TerminalTask
  <1>12. CASE \E j \in Tasks : Ended(j) /\ task'[k] # task[k]
    BY <1>1, <1>9, <1>12 DEF Open, TerminalTask, EndRow
  <1>13. QED
    BY <1>2, <1>6, <1>10, <1>11, <1>12 DEF RowStep

LEMMA BatchesEnd ==
    ASSUME TablesInv, RowStep, NEW b \in Batches, batch[b].status \in TerminalBatch
    PROVE  batch'[b] = batch[b]
  <1>1. ASSUME NEW c \in Batches, CreateImageGenerationBatch(c) \/ RequestImageBatchCancel(c)
        PROVE  batch'[b] = batch[b]
    BY <1>1 DEF CreateImageGenerationBatch, RequestImageBatchCancel, Recompute, TerminalBatch,
       TablesInv, TablesTyped
  <1>2. ASSUME NEW k \in Tasks, Claimed(k) PROVE batch'[b] = batch[b]
    BY <1>2 DEF Claimed, TablesInv, TablesTyped
  <1>3. ASSUME NEW k \in Tasks, Ended(k) PROVE batch'[b] = batch[b]
    <2>1. task[k].status \in Open
      BY <1>3 DEF Ended
    <2>2. BatchOf[k] # b
      BY <2>1 DEF TablesInv, BatchAgrees, TasksOf, Open, TerminalTask, TerminalBatch
    <2>3. QED BY <1>3, <2>2 DEF Ended, Recompute, TablesInv, TablesTyped
  <1>4. ASSUME NEW k \in Tasks, Touched(k) PROVE batch'[b] = batch[b]
    BY <1>4 DEF Touched
  <1>5. QED BY <1>1, <1>2, <1>3, <1>4 DEF RowStep

(***************************************************************************)
(* The limits.                                                              *)
(***************************************************************************)
LEMMA RunningRows ==
    ASSUME TablesInv, RowStep
    PROVE  \/ Running' \subseteq Running
           \/ \E k \in Tasks : Running' \subseteq Running \cup {k} /\ CapacityAvailable(k)
  <1>1. \A k \in Tasks : task[k] \in Task /\ task[k].claim <= task[k].dispatch
                          /\ task[k].claim \in Nat /\ task[k].dispatch \in Nat
    BY ImageAssumption DEF TablesInv, TablesTyped, RowsShaped, Task, Generations
  <1>2. ASSUME NEW b \in Batches, CreateImageGenerationBatch(b) PROVE Running' \subseteq Running
    BY <1>2 DEF CreateImageGenerationBatch, Running, NoTask
  <1>3. ASSUME NEW b \in Batches, RequestImageBatchCancel(b) PROVE Running' \subseteq Running
    <2>1. ASSUME NEW k \in Tasks, task[k].status = "PENDING"
          PROVE  Canceled(task[k]).status = "CANCELED"
      BY <2>1, CanceledRow DEF TablesInv, TablesTyped, RowsShaped
    <2>2. \A k \in Tasks : task'[k] = task[k] \/ task'[k].status = "CANCELED"
      BY <1>3, <2>1 DEF RequestImageBatchCancel
    <2>3. QED BY <2>2 DEF Running
  <1>4. ASSUME NEW k \in Tasks, Touched(k) PROVE Running' \subseteq Running
    <2>1. PICK r \in Task :
            /\ task' = [task EXCEPT ![k] = r]
            /\ r.status = "RUNNING" => task[k].status = "RUNNING" /\ r.retry = task[k].retry
            /\ r.claim = task[k].claim
            /\ r.live => task[k].live
            /\ task[k].dispatch <= r.dispatch /\ r.dispatch <= MaxGeneration
      BY <1>4 DEF Touched
    <2>2. r.dispatch = r.claim => task[k].dispatch = task[k].claim
      BY <1>1, <2>1
    <2>3. \A j \in Tasks : task'[j] = IF j = k THEN r ELSE task[j]
      BY <2>1 DEF TablesInv, TablesTyped
    <2>4. QED BY <2>1, <2>2, <2>3 DEF Running
  <1>5. ASSUME NEW k \in Tasks, Claimed(k)
        PROVE  Running' \subseteq Running \cup {k} /\ CapacityAvailable(k)
    <2>1. CapacityAvailable(k) /\ \A j \in Tasks : j # k => task'[j] = task[j]
      BY <1>5 DEF Claimed, TablesInv, TablesTyped
    <2>2. QED BY <2>1 DEF Running
  <1>6. ASSUME NEW k \in Tasks, Ended(k) PROVE Running' \subseteq Running
    <2>1. PICK r \in Task : r.status \in TerminalTask /\ task' = [task EXCEPT ![k] = r]
      BY <1>6 DEF Ended, EndRow
    <2>2. \A j \in Tasks : task'[j] = IF j = k THEN r ELSE task[j]
      BY <2>1 DEF TablesInv, TablesTyped
    <2>3. QED BY <2>1, <2>2 DEF Running, TerminalTask
  <1>7. CASE UNCHANGED <<task, batch>>
    BY <1>7 DEF Running
  <1>8. QED BY <1>2, <1>3, <1>4, <1>5, <1>6, <1>7 DEF RowStep

\* A set within another, or within it and one element more.
LEMMA OneMore ==
    ASSUME NEW S, IsFiniteSet(S), NEW T, NEW k, T \subseteq S \cup {k}
    PROVE  /\ IsFiniteSet(T) /\ Cardinality(T) \in Nat /\ Cardinality(S) \in Nat
           /\ Cardinality(T) <= Cardinality(S) + 1
           /\ T \subseteq S => Cardinality(T) <= Cardinality(S)
  <1>1. /\ IsFiniteSet(S \cup {k})
        /\ Cardinality(S \cup {k}) = IF k \in S THEN Cardinality(S) ELSE Cardinality(S) + 1
    BY FS_AddElement
  <1>2. IsFiniteSet(T) /\ Cardinality(T) <= Cardinality(S \cup {k})
    BY <1>1, FS_Subset
  <1>3. Cardinality(T) \in Nat /\ Cardinality(S) \in Nat /\ Cardinality(S \cup {k}) \in Nat
    BY <1>1, <1>2, FS_CardinalityType
  <1>4. T \subseteq S => Cardinality(T) <= Cardinality(S)
    BY FS_Subset
  <1>5. QED BY <1>1, <1>2, <1>3, <1>4

LEMMA DoneCounts ==
    ASSUME TablesInv, RowStep, NEW b \in Batches, CountOf(b, task, "DONE") <= ArtifactByteLimit
    PROVE  CountOf(b, task, "DONE")' <= ArtifactByteLimit
  <1> DEFINE D == {j \in TasksOf(b) : task[j].status = "DONE"}
  <1>1. IsFiniteSet(D)
    BY CountIsNat
  <1>2. ASSUME D' \subseteq D PROVE CountOf(b, task, "DONE")' <= ArtifactByteLimit
    <2>1. Cardinality(D') \in Nat /\ Cardinality(D) \in Nat /\ Cardinality(D') <= Cardinality(D)
      BY <1>1, <1>2, OneMore
    <2>2. QED BY <2>1, ImageAssumption DEF CountOf
  <1>3. ASSUME NEW k \in Tasks, Ended(k) PROVE CountOf(b, task, "DONE")' <= ArtifactByteLimit
    <2>1. PICK r \in Task :
            /\ task' = [task EXCEPT ![k] = r]
            /\ r.status = "DONE" => CountOf(BatchOf[k], task, "DONE") + 1 <= ArtifactByteLimit
      BY <1>3 DEF Ended, EndRow
    <2>2. \A j \in Tasks : task'[j] = IF j = k THEN r ELSE task[j]
      BY <2>1 DEF TablesInv, TablesTyped
    <2>3. CASE r.status = "DONE" /\ BatchOf[k] = b
      <3>1. D' \subseteq D \cup {k}
        BY <2>2 DEF TasksOf
      <3>2. Cardinality(D') \in Nat /\ Cardinality(D) \in Nat
            /\ Cardinality(D') <= Cardinality(D) + 1
        BY <1>1, <3>1, OneMore
      <3>3. QED BY <2>1, <2>3, <3>2, ImageAssumption DEF CountOf
    <2>4. CASE ~(r.status = "DONE" /\ BatchOf[k] = b)
      BY <1>2, <2>2, <2>4 DEF TasksOf
    <2>5. QED BY <2>3, <2>4
  <1>4. CASE ~\E k \in Tasks : Ended(k)
    <2>1. \A j \in Tasks : task'[j].status = "DONE" => task[j].status = "DONE"
      <3>1. ASSUME NEW c \in Batches, CreateImageGenerationBatch(c)
            PROVE  \A j \in Tasks : task'[j].status = "DONE" => task[j].status = "DONE"
        BY <3>1 DEF CreateImageGenerationBatch, NoTask
      <3>2. ASSUME NEW c \in Batches, RequestImageBatchCancel(c)
            PROVE  \A j \in Tasks : task'[j].status = "DONE" => task[j].status = "DONE"
        <4>1. ASSUME NEW j \in Tasks, task[j].status = "PENDING"
              PROVE  Canceled(task[j]).status = "CANCELED"
          BY <4>1, CanceledRow DEF TablesInv, TablesTyped, RowsShaped
        <4>2. QED BY <3>2, <4>1 DEF RequestImageBatchCancel
      <3>3. ASSUME NEW k \in Tasks, Touched(k) \/ Claimed(k)
            PROVE  \A j \in Tasks : task'[j].status = "DONE" => task[j].status = "DONE"
        BY <3>3 DEF Touched, Claimed, Open, TablesInv, TablesTyped
      <3>4. QED BY <1>4, <3>1, <3>2, <3>3 DEF RowStep
    <2>2. QED BY <1>2, <2>1 DEF TasksOf
  <1>5. QED BY <1>3, <1>4

LEMMA LimitsKept ==
    ASSUME TablesInv, RowStep, ImageLimitsHeld
    PROVE  ImageLimitsHeld'
  <1>1. IsFiniteSet(Running) /\ \A u : IsFiniteSet(RunningOf(u))
    BY FS_Subset, ImageAssumption DEF Running, RunningOf
  <1>2. \A u : \/ RunningOf(u)' \subseteq RunningOf(u)
               \/ \E k \in Tasks : /\ Running' \subseteq Running \cup {k} /\ CapacityAvailable(k)
                                    /\ u = UserOf[BatchOf[k]]
                                    /\ RunningOf(u)' \subseteq RunningOf(u) \cup {k}
    BY RunningRows DEF RunningOf
  <1>3. Cardinality(Running)' <= GlobalConcurrency
    <2>1. CASE Running' \subseteq Running
      <3>1. Cardinality(Running') <= Cardinality(Running)
            /\ Cardinality(Running') \in Nat /\ Cardinality(Running) \in Nat
        BY <1>1, <2>1, OneMore
      <3>2. QED BY <3>1, ImageAssumption DEF ImageLimitsHeld
    <2>2. ASSUME NEW k \in Tasks, Running' \subseteq Running \cup {k}, CapacityAvailable(k)
          PROVE  Cardinality(Running)' <= GlobalConcurrency
      <3>1. Cardinality(Running') <= Cardinality(Running) + 1
            /\ Cardinality(Running') \in Nat /\ Cardinality(Running) \in Nat
        BY <1>1, <2>2, OneMore
      <3>2. QED BY <2>2, <3>1, ImageAssumption DEF CapacityAvailable
    <2>3. QED BY <2>1, <2>2, RunningRows
  <1>4. ASSUME NEW u \in Users PROVE Cardinality(RunningOf(u))' <= PerUserBurstConcurrency
    <2>1. CASE RunningOf(u)' \subseteq RunningOf(u)
      <3>1. Cardinality(RunningOf(u)') <= Cardinality(RunningOf(u))
            /\ Cardinality(RunningOf(u)') \in Nat /\ Cardinality(RunningOf(u)) \in Nat
        BY <1>1, <2>1, OneMore
      <3>2. QED BY <3>1, ImageAssumption DEF ImageLimitsHeld
    <2>2. ASSUME NEW k \in Tasks, CapacityAvailable(k), u = UserOf[BatchOf[k]],
                 RunningOf(u)' \subseteq RunningOf(u) \cup {k}
          PROVE  Cardinality(RunningOf(u))' <= PerUserBurstConcurrency
      <3>1. Cardinality(RunningOf(u)') <= Cardinality(RunningOf(u)) + 1
            /\ Cardinality(RunningOf(u)') \in Nat /\ Cardinality(RunningOf(u)) \in Nat
        BY <1>1, <2>2, OneMore
      <3>2. Cardinality(RunningOf(u)) < PerUserBurstConcurrency
        BY <2>2 DEF CapacityAvailable
      <3>3. QED BY <3>1, <3>2, ImageAssumption
    <2>3. QED BY <1>2, <2>1, <2>2
  <1>5. \A b \in Batches : CountOf(b, task, "DONE")' <= ArtifactByteLimit
    BY DoneCounts DEF ImageLimitsHeld
  <1>6. QED BY <1>3, <1>4, <1>5 DEF ImageLimitsHeld

LEMMA LimitsInit ==
    ASSUME Init PROVE ImageLimitsHeld
  <1>1. \A k \in Tasks : task[k].status = "NONE"
    BY DEF Init, NoTask
  <1>2. Running = {} /\ \A u : RunningOf(u) = {}
    BY <1>1 DEF Running, RunningOf
  <1>3. \A b \in Batches : CountOf(b, task, "DONE") = 0
    BY <1>1, CountIsNat DEF TasksOf
  <1>4. QED BY <1>2, <1>3, FS_EmptySet, ImageAssumption DEF ImageLimitsHeld

(***************************************************************************)
(* Claims.                                                                  *)
(***************************************************************************)
LEMMA ClaimsInit ==
    ASSUME Init PROVE ClaimsInv
  BY DEF Init, ClaimsInv, ClaimOK, Distinct, Claiming, OwnArtifactsKept, SlotIdle, NoTask

\* What the proof reads of a worker and its task.
LEMMA ClaimFacts ==
    ASSUME TablesInv, WorkersTyped, NEW w \in Slots
    PROVE  /\ slot[w] \in Slot
           /\ slot[w].gen \in Nat /\ slot[w].previous \in Nat /\ slot[w].manifest \in Nat
           /\ Claiming(w) => slot[w].task \in Tasks
  BY ImageAssumption DEF WorkersTyped, Slot, Generations, Claiming

\* A task is finished with images by the worker that is freed in that step.
LEMMA FinisherFrees ==
    ASSUME WorkersTyped, WorkerStep, NEW w \in Slots, NEW k, NEW r, FinishesTask(w, k, r)
    PROVE  slot' = [slot EXCEPT ![w] = SlotIdle] /\ objects' = objects
  <1>1. slot \in [Slots -> Slot] /\ slot[w].pc = "finish" /\ slot'[w].pc = "idle"
    BY DEF FinishesTask, WorkersTyped
  <1>2. SlotIdle.pc = "idle"
    BY DEF SlotIdle
  <1>3. ASSUME NEW v \in Slots, NEW x, slot' = [slot EXCEPT ![v] = x]
        PROVE  v = w /\ x.pc = "idle"
    BY <1>1, <1>3
  <1>4. ~UNCHANGED <<slot, objects>>
    BY <1>1
  <1>5. ASSUME NEW v \in Slots, Takes(v) PROVE FALSE
    <2>1. PICK m \in Message :
            slot' = [slot EXCEPT ![v] = [SlotIdle EXCEPT !.pc = "held", !.task = m[1],
                                                         !.gen = m[2]]]
      BY <1>5 DEF Takes
    <2> DEFINE x == [SlotIdle EXCEPT !.pc = "held", !.task = m[1], !.gen = m[2]]
    <2>2. x.pc = "held" /\ slot' = [slot EXCEPT ![v] = x]
      BY <2>1 DEF SlotIdle
    <2> HIDE DEF x
    <2>3. QED BY <1>3, <2>2
  <1>6. ASSUME NEW v \in Slots, Claims(v) \/ Works(v) \/ Finds(v) \/ Deletes(v) PROVE FALSE
    <2>1. v = w
      BY <1>1, <1>6 DEF Claims, Works, Finds, Deletes
    <2>2. QED BY <1>1, <1>6, <2>1 DEF Claims, Works, Finds, Deletes
  <1>7. ASSUME NEW v \in Slots, Rejects(v) PROVE FALSE
    <2>1. slot' = [slot EXCEPT ![v].pc = "delete"]
      BY <1>7 DEF Rejects
    <2>2. slot'[w].pc \in {slot[w].pc, "delete"}
      BY <1>1, <2>1 DEF Slot
    <2>3. QED BY <1>1, <2>2
  <1>8. ASSUME NEW v \in Slots, Frees(v)
        PROVE  slot' = [slot EXCEPT ![w] = SlotIdle] /\ objects' = objects
    <2>1. v = w
      BY <1>1, <1>8 DEF Frees
    <2>2. QED BY <1>1, <1>8, <2>1 DEF Frees
  <1>9. QED BY <1>4, <1>5, <1>6, <1>7, <1>8 DEF WorkerStep

\* The step of a worker leaves the objects that its claim does not own.
LEMMA ObjectsKept ==
    ASSUME TablesInv, WorkersTyped, ClaimsInv, WorkerStep, NEW k \in Tasks, NEW n \in Nat,
           n = task[k].claim, <<k, n>> \in objects,
           \/ task[k].status = "DONE"
           \/ \E w \in Slots : Claiming(w) /\ slot[w].pc = "finish" /\ slot[w].task = k
                                /\ slot[w].gen = n
    PROVE  <<k, n>> \in objects'
  <1>1. ASSUME NEW v \in Slots, Deletes(v) PROVE <<k, n>> \in objects'
    <2>1. Claiming(v) /\ slot[v].pc = "delete"
      BY <1>1 DEF Deletes, Claiming
    <2>2. slot[v].gen \in Nat /\ slot[v].previous \in Nat
      BY ClaimFacts
    <2>3. CASE slot[v].task = k
      <3>1. /\ slot[v].gen <= n /\ slot[v].previous < slot[v].gen
            /\ slot[v].manifest \in {slot[v].gen, slot[v].previous}
            /\ task[k].status = "DONE" => slot[v].gen < n
        BY <2>1, <2>3 DEF ClaimsInv, ClaimOK
      <3>2. slot[v].gen # n
        BY <2>1, <2>2, <2>3, <3>1 DEF ClaimsInv, Distinct
      <3>3. slot[v].manifest # n
        BY <2>2, <3>1, <3>2
      <3>4. QED BY <1>1, <3>3 DEF Deletes
    <2>4. CASE slot[v].task # k
      BY <1>1, <2>4 DEF Deletes
    <2>5. QED BY <2>3, <2>4
  <1>2. QED
    BY <1>1 DEF WorkerStep, Frees, Takes, Claims, Works, Finds, Rejects

\* What becomes of a claim in a step.
LEMMA ClaimMoves ==
    ASSUME WorkersTyped, WorkerStep, NEW w \in Slots, Claiming(w)'
    PROVE  \/ Claims(w) /\ slot'[w].task = slot[w].task /\ slot'[w].gen = slot[w].gen
              /\ slot'[w].previous = task[slot[w].task].claim /\ slot'[w].pc = "salvage"
              /\ \A v \in Slots : v # w => slot'[v] = slot[v]
           \/ /\ Claiming(w) /\ slot'[w].task = slot[w].task
              /\ slot'[w].gen = slot[w].gen /\ slot'[w].previous = slot[w].previous
              /\ \/ slot'[w] = slot[w]
                 \/ slot'[w].pc \notin {"finish", "delete"}
                 \/ slot'[w].pc = "delete" /\ slot[w].pc = "finish"
                    /\ slot'[w].manifest = slot[w].manifest
                 \/ slot'[w].pc = "finish" /\ slot'[w].manifest = slot[w].previous
                 \/ slot'[w].pc = "finish" /\ slot'[w].manifest = slot[w].gen
                    /\ <<slot[w].task, slot[w].gen>> \in objects'
  <1>1. slot \in [Slots -> Slot] /\ slot[w] \in Slot
    BY DEF WorkersTyped
  <1>2. CASE slot'[w] = slot[w]
    BY <1>2 DEF Claiming
  <1>3. ASSUME NEW x, slot' = [slot EXCEPT ![w] = x], x.pc \in {"idle", "held"}
        PROVE  FALSE
    BY <1>1, <1>3 DEF Claiming
  <1>4. CASE Frees(w) \/ Deletes(w)
    BY <1>3, <1>4 DEF Frees, Deletes, SlotIdle
  <1>5. CASE Takes(w)
    <2>1. PICK m \in Message :
            slot' = [slot EXCEPT ![w] = [SlotIdle EXCEPT !.pc = "held", !.task = m[1],
                                                         !.gen = m[2]]]
      BY <1>5 DEF Takes
    <2> DEFINE x == [SlotIdle EXCEPT !.pc = "held", !.task = m[1], !.gen = m[2]]
    <2>2. x.pc = "held" /\ slot' = [slot EXCEPT ![w] = x]
      BY <2>1 DEF SlotIdle
    <2> HIDE DEF x
    <2>3. QED BY <1>3, <2>2
  <1>6. CASE Claims(w)
    <2> DEFINE x == [slot[w] EXCEPT !.pc = "salvage", !.previous = task[slot[w].task].claim]
    <2>1. /\ x.pc = "salvage" /\ x.task = slot[w].task /\ x.gen = slot[w].gen
          /\ x.previous = task[slot[w].task].claim
      BY <1>1 DEF Slot
    <2>2. slot' = [slot EXCEPT ![w] = x]
      BY <1>6 DEF Claims
    <2> HIDE DEF x
    <2>3. slot'[w] = x /\ \A v \in Slots : v # w => slot'[v] = slot[v]
      BY <1>1, <2>2
    <2>4. QED BY <1>6, <2>1, <2>3
  <1>7. CASE Works(w)
    <2>1. PICK x \in Slot :
            /\ slot' = [slot EXCEPT ![w] = x] /\ x.pc \in {"salvage", "generate", "publish"}
            /\ x.task = slot[w].task /\ x.gen = slot[w].gen /\ x.previous = slot[w].previous
      BY <1>7 DEF Works
    <2>2. slot'[w] = x /\ Claiming(w)
      BY <1>1, <1>7, <2>1 DEF Works, Claiming
    <2>3. QED BY <2>1, <2>2
  <1>8. CASE Finds(w)
    <2>1. PICK n : /\ slot' = [slot EXCEPT ![w].pc = "finish", ![w].manifest = n]
                   /\ \/ n = slot[w].previous
                      \/ n = slot[w].gen /\ <<slot[w].task, slot[w].gen>> \in objects'
      BY <1>8 DEF Finds
    <2> DEFINE x == [slot[w] EXCEPT !.pc = "finish", !.manifest = n]
    <2>2. /\ x.pc = "finish" /\ x.task = slot[w].task /\ x.gen = slot[w].gen
          /\ x.previous = slot[w].previous /\ x.manifest = n
      BY <1>1 DEF Slot
    <2>3. slot' = [slot EXCEPT ![w] = x]
      BY <2>1
    <2> HIDE DEF x
    <2>4. slot'[w] = x /\ Claiming(w)
      BY <1>1, <1>8, <2>3 DEF Finds, Claiming
    <2>5. QED BY <2>1, <2>2, <2>4
  <1>9. CASE Rejects(w)
    <2> DEFINE x == [slot[w] EXCEPT !.pc = "delete"]
    <2>1. /\ x.pc = "delete" /\ x.task = slot[w].task /\ x.gen = slot[w].gen
          /\ x.previous = slot[w].previous /\ x.manifest = slot[w].manifest
      BY <1>1 DEF Slot
    <2>2. slot' = [slot EXCEPT ![w] = x] /\ slot[w].pc = "finish"
      BY <1>9 DEF Rejects
    <2> HIDE DEF x
    <2>3. slot'[w] = x /\ Claiming(w)
      BY <1>1, <2>2 DEF Claiming
    <2>4. QED BY <2>1, <2>2, <2>3
  <1>10. ASSUME NEW v \in Slots, v # w, \/ Frees(v) \/ Takes(v) \/ Claims(v) \/ Works(v)
                                        \/ Finds(v) \/ Rejects(v) \/ Deletes(v)
         PROVE  slot'[w] = slot[w]
    BY <1>1, <1>10 DEF Frees, Takes, Claims, Works, Finds, Rejects, Deletes
  <1>11. QED
    BY <1>2, <1>4, <1>5, <1>6, <1>7, <1>8, <1>9, <1>10 DEF WorkerStep

\* The rows move on under a claim that goes on.
LEMMA ClaimAdvances ==
    ASSUME TablesInv, TablesInv', WorkersTyped, ClaimsInv, RowStep,
           NEW w \in Slots, Claiming(w), slot'[w].pc # "idle"
    PROVE  /\ task[slot[w].task].claim <= task'[slot[w].task].claim
           /\ slot[w].gen <= task'[slot[w].task].claim
           /\ task'[slot[w].task].status = "DONE" => slot[w].gen < task'[slot[w].task].claim
  <1> DEFINE k == slot[w].task
  <1>1. k \in Tasks /\ slot[w].gen \in Nat
    BY ClaimFacts
  <1>2. task[k].claim \in Nat /\ task'[k].claim \in Nat
    BY <1>1, ImageAssumption DEF TablesInv, TablesTyped, Task, Generations
  <1>3. task[k].claim <= task'[k].claim
    BY <1>1, RowsAdvance
  <1>4. ClaimOK(w)
    BY DEF ClaimsInv
  <1>5. slot[w].gen <= task'[k].claim
    BY <1>1, <1>2, <1>3, <1>4 DEF ClaimOK
  <1>6. task'[k].status = "DONE" => slot[w].gen < task'[k].claim
    <2>1. CASE task'[k] = task[k]
      BY <1>4, <2>1 DEF ClaimOK
    <2>2. ASSUME NEW v \in Slots, FinishesTask(v, k, task'[k]), task'[k].claim = task[k].claim
          PROVE  slot[w].gen < task'[k].claim
      <3>1. v # w
        BY <2>2 DEF FinishesTask
      <3>2. Claiming(v) /\ slot[v].task = k /\ slot[v].gen = task'[k].claim
        BY <2>2 DEF FinishesTask, Claiming
      <3>3. slot[v].gen # slot[w].gen
        BY <3>1, <3>2 DEF ClaimsInv, Distinct
      <3>4. QED BY <1>1, <1>2, <1>5, <3>2, <3>3
    <2>3. QED BY <1>1, <2>1, <2>2, RowsAdvance
  <1>7. QED BY <1>3, <1>5, <1>6

LEMMA ClaimsKeep ==
    ASSUME TablesInv, TablesInv', WorkersTyped, WorkersTyped', ClaimsInv, RowStep, WorkerStep
    PROVE  ClaimsInv'
  <1>1. ASSUME NEW w \in Slots, Claiming(w)' PROVE ClaimOK(w)'
    <2> DEFINE k == slot[w].task
    <2>1. slot'[w].pc # "idle" /\ ClaimOK(w)
      BY <1>1 DEF Claiming, ClaimsInv
    <2>2. slot[w].gen \in Nat /\ slot[w].previous \in Nat
      BY ClaimFacts
    <2>3. CASE Claims(w) /\ slot'[w].task = k /\ slot'[w].gen = slot[w].gen
               /\ slot'[w].previous = task[k].claim /\ slot'[w].pc = "salvage"
      BY <2>2, <2>3 DEF Claims, ClaimOK
    <2>4. CASE /\ Claiming(w) /\ slot'[w].task = k
               /\ slot'[w].gen = slot[w].gen /\ slot'[w].previous = slot[w].previous
      <3>1. /\ task[k].claim <= task'[k].claim /\ slot[w].gen <= task'[k].claim
            /\ task'[k].status = "DONE" => slot[w].gen < task'[k].claim
        BY <2>1, <2>4, ClaimAdvances
      <3>2. k \in Tasks /\ slot[w].gen <= task[k].claim /\ slot[w].previous < slot[w].gen
        BY <2>1, <2>4, ClaimFacts DEF ClaimOK
      <3>3. task[k].claim \in Nat /\ task'[k].claim \in Nat
        BY <3>2, ImageAssumption DEF TablesInv, TablesTyped, Task, Generations
      <3>4. CASE slot'[w] = slot[w]
        <4>1. /\ slot[w].pc = "finish" /\ slot[w].manifest = slot[w].gen
              /\ task'[k].claim = slot[w].gen
              => <<k, slot[w].gen>> \in objects'
          <5> SUFFICES ASSUME slot[w].pc = "finish", slot[w].manifest = slot[w].gen,
                              task'[k].claim = slot[w].gen
                       PROVE  <<k, slot[w].gen>> \in objects'
            OBVIOUS
          <5>1. task[k].claim = slot[w].gen
            BY <2>2, <3>1, <3>2, <3>3
          <5>2. <<k, slot[w].gen>> \in objects
            BY <2>1, <2>4, <5>1 DEF ClaimOK
          <5>3. QED BY <2>2, <2>4, <3>2, <5>1, <5>2, ObjectsKept
        <4>2. QED BY <2>1, <2>4, <3>1, <3>4, <4>1 DEF ClaimOK
      <3>5. CASE slot'[w].pc \notin {"finish", "delete"}
        BY <2>4, <3>1, <3>2, <3>5 DEF ClaimOK
      <3>6. CASE slot'[w].pc = "delete" /\ slot[w].pc = "finish"
                 /\ slot'[w].manifest = slot[w].manifest
        BY <2>1, <2>4, <3>1, <3>6 DEF ClaimOK
      <3>7. CASE slot'[w].pc = "finish" /\ slot'[w].manifest = slot[w].previous
        BY <2>2, <2>4, <3>1, <3>2, <3>7 DEF ClaimOK
      <3>8. CASE slot'[w].pc = "finish" /\ slot'[w].manifest = slot[w].gen
                 /\ <<k, slot[w].gen>> \in objects'
        BY <2>4, <3>1, <3>2, <3>8 DEF ClaimOK
      <3>9. QED BY <1>1, <2>4, <3>4, <3>5, <3>6, <3>7, <3>8, ClaimMoves DEF Claims, Claiming
    <2>5. QED BY <1>1, <2>3, <2>4, ClaimMoves
  <1>2. ASSUME NEW v \in Slots, NEW w \in Slots, v # w, Claiming(v)', Claiming(w)',
               slot'[v].task = slot'[w].task
        PROVE  slot'[v].gen # slot'[w].gen
    <2>1. ASSUME NEW x \in Slots, NEW y \in Slots, x # y, Claims(x), Claiming(y)',
                 slot'[x].gen = slot[x].gen, slot'[x].task = slot[x].task,
                 slot'[y] = slot[y], slot'[y].task = slot'[x].task
          PROVE  slot'[y].gen # slot'[x].gen
      <3>1. Claiming(y) /\ slot[y].task = slot[x].task
        BY <2>1 DEF Claiming
      <3>2. slot[y].gen \in Nat /\ slot[x].gen \in Nat /\ slot[y].task \in Tasks
        BY <3>1, ClaimFacts
      <3>3. task[slot[y].task].claim \in Nat
        BY <3>2, ImageAssumption DEF TablesInv, TablesTyped, Task, Generations
      <3>4. slot[y].gen <= task[slot[y].task].claim
        BY <3>1 DEF ClaimsInv, ClaimOK
      <3>5. task[slot[y].task].claim < slot[x].gen
        BY <2>1, <3>1 DEF Claims
      <3>6. QED BY <2>1, <3>2, <3>3, <3>4, <3>5
    <2>2. CASE Claims(v) /\ slot'[v].task = slot[v].task /\ slot'[v].gen = slot[v].gen
               /\ \A u \in Slots : u # v => slot'[u] = slot[u]
      BY <1>2, <2>1, <2>2
    <2>3. CASE Claims(w) /\ slot'[w].task = slot[w].task /\ slot'[w].gen = slot[w].gen
               /\ \A u \in Slots : u # w => slot'[u] = slot[u]
      BY <1>2, <2>1, <2>3
    <2>4. CASE /\ Claiming(v) /\ slot'[v].task = slot[v].task /\ slot'[v].gen = slot[v].gen
               /\ Claiming(w) /\ slot'[w].task = slot[w].task /\ slot'[w].gen = slot[w].gen
      BY <1>2, <2>4 DEF ClaimsInv, Distinct
    <2>5. \/ Claims(v) /\ slot'[v].task = slot[v].task /\ slot'[v].gen = slot[v].gen
            /\ \A u \in Slots : u # v => slot'[u] = slot[u]
          \/ Claiming(v) /\ slot'[v].task = slot[v].task /\ slot'[v].gen = slot[v].gen
      BY <1>2, ClaimMoves
    <2>6. \/ Claims(w) /\ slot'[w].task = slot[w].task /\ slot'[w].gen = slot[w].gen
            /\ \A u \in Slots : u # w => slot'[u] = slot[u]
          \/ Claiming(w) /\ slot'[w].task = slot[w].task /\ slot'[w].gen = slot[w].gen
      BY <1>2, ClaimMoves
    <2>7. QED BY <2>2, <2>3, <2>4, <2>5, <2>6
  <1>3. ASSUME NEW k \in Tasks, task'[k].status = "DONE", task'[k].manifest = task'[k].claim
        PROVE  <<k, task'[k].manifest>> \in objects'
    <2>1. task'[k].claim \in Nat
      BY ImageAssumption DEF TablesInv, TablesTyped, Task, Generations
    <2>2. CASE task'[k] = task[k]
      <3>1. <<k, task[k].claim>> \in objects
        BY <1>3, <2>2 DEF ClaimsInv, OwnArtifactsKept
      <3>2. QED BY <1>3, <2>1, <2>2, <3>1, ObjectsKept
    <2>3. ASSUME NEW w \in Slots, FinishesTask(w, k, task'[k]), task'[k].claim = task[k].claim
          PROVE  <<k, task'[k].manifest>> \in objects'
      <3>1. Claiming(w) /\ slot[w].pc = "finish" /\ slot[w].task = k
            /\ slot[w].gen = task[k].claim /\ slot[w].manifest = slot[w].gen
        BY <1>3, <2>3 DEF FinishesTask, Claiming
      <3>2. <<k, slot[w].gen>> \in objects
        BY <3>1 DEF ClaimsInv, ClaimOK
      <3>3. objects' = objects
        BY <2>3, FinisherFrees
      <3>4. QED BY <1>3, <2>3, <3>1, <3>2, <3>3
    <2>4. QED BY <1>3, <2>2, <2>3, RowsAdvance
  <1>4. \A w \in Slots : ClaimOK(w)'
    BY <1>1 DEF ClaimOK
  <1>5. \A v, w \in Slots : Distinct(v, w)'
    BY <1>2 DEF Distinct
  <1>6. OwnArtifactsKept'
    BY <1>3 DEF OwnArtifactsKept
  <1>7. QED BY <1>4, <1>5, <1>6 DEF ClaimsInv

(***************************************************************************)
(* The theorems.                                                            *)
(***************************************************************************)
IInv == TablesInv /\ WorkersTyped /\ ClaimsInv /\ ImageLimitsHeld

LEMMA Inductive ==
    Spec => []IInv
  <1>1. Init => IInv
    BY TablesInit, WorkersInit, ClaimsInit, LimitsInit DEF IInv
  <1>2. IInv /\ [Next]_vars => IInv'
    <2> SUFFICES ASSUME IInv, [Next]_vars PROVE IInv'
      OBVIOUS
    <2>1. RowStep /\ WorkerStep
      BY RowSteps, WorkerSteps DEF IInv
    <2>2. TablesInv'
      BY <2>1, TablesStep DEF IInv
    <2>3. WorkersTyped'
      BY WorkersKeep DEF IInv
    <2>4. ClaimsInv'
      BY <2>1, <2>2, <2>3, ClaimsKeep DEF IInv
    <2>5. ImageLimitsHeld'
      BY <2>1, LimitsKept DEF IInv
    <2>6. QED BY <2>2, <2>3, <2>4, <2>5 DEF IInv
  <1>3. QED BY <1>1, <1>2, PTL DEF Spec

(* Rows, batches, workers, queue and dispatcher keep their shape, and no claim   *)
(* runs with its retry budget used up (FinishImageGenerationTaskRetry and the    *)
(* exhausted branch of the claim).                                              *)
THEOREM ImageTypesHold ==
    Spec => []ImageTypeOK
  <1>1. IInv => ImageTypeOK
    BY DEF IInv, TablesInv, TablesTyped, RowsShaped, WorkersTyped, ImageTypeOK, Batch, Slot
  <1>2. QED BY <1>1, Inductive, PTL

(* The counters and the status of a batch are those of its tasks in every state: *)
(* every transaction that ends a task recomputes its batch, and the one that     *)
(* claims a task moves the batch by hand (imagegen_claim.go).                    *)
THEOREM BatchesAgree ==
    Spec => []BatchAgrees
  <1>1. IInv => BatchAgrees
    BY DEF IInv, TablesInv
  <1>2. QED BY <1>1, Inductive, PTL

(* The global and the per-user limit hold of the RUNNING rows, and the images of *)
(* a batch stay within its byte limit, in every state and for every limit.       *)
THEOREM LimitsHold ==
    Spec => []ImageLimitsHeld
  <1>1. IInv => ImageLimitsHeld
    BY DEF IInv
  <1>2. QED BY <1>1, Inductive, PTL

(* No worker that lost its fence deletes the prefix of a claim that finished     *)
(* (finishManifest's deletion against a FinishImageGenerationTaskDone elsewhere). *)
THEOREM FinishedClaimsKeepImages ==
    Spec => []OwnArtifactsKept
  <1>1. IInv => OwnArtifactsKept
    BY DEF IInv, ClaimsInv
  <1>2. QED BY <1>1, Inductive, PTL

(* An ended task and an ended batch never change, and a task of a batch whose    *)
(* cancellation was requested is never claimed again, whatever a late worker, a  *)
(* redelivery, the sweeper or a second cancel request does.                     *)
THEOREM EndedStaysEnded ==
    Spec => EndedIsFinal
  <1>1. IInv /\ [Next]_vars
          => [/\ \A k \in Tasks : task[k].status \in TerminalTask => task'[k] = task[k]
              /\ \A b \in Batches : batch[b].status \in TerminalBatch => batch'[b] = batch[b]
              /\ \A k \in Tasks : Cancelled(k) => task'[k].claim = task[k].claim]_vars
    <2> SUFFICES ASSUME IInv, [Next]_vars
                 PROVE  /\ \A k \in Tasks : task[k].status \in TerminalTask => task'[k] = task[k]
                        /\ \A b \in Batches :
                             batch[b].status \in TerminalBatch => batch'[b] = batch[b]
                        /\ \A k \in Tasks : Cancelled(k) => task'[k].claim = task[k].claim
      OBVIOUS
    <2>1. TablesInv /\ RowStep
      BY RowSteps DEF IInv
    <2>2. QED BY <2>1, RowsAdvance, BatchesEnd
  <1>2. QED BY <1>1, Inductive, PTL DEF Spec, EndedIsFinal

=================================================================================
