------------------------- MODULE FairRecoveryProofs -------------------------
(***************************************************************************)
(* Proofs about FairRecovery for every set of runtimes, operators, tasks    *)
(* and tokens and every bound on the faults: the journal and the control    *)
(* agree although fence, lock and session can each be lost between two      *)
(* steps, and READY is entered only over a state that was rebuilt.          *)
(***************************************************************************)
EXTENDS FairRecovery, FiniteSetTheorems, TLAPS

(***************************************************************************)
(* The inductive invariant: shapes.                                         *)
(***************************************************************************)
Token == Tokens \cup {None}
Record == [phase : {"NONE", "ACTIVE", "READY_COMMITTED", "COMPLETED"}, op : Token,
           forceDelete : BOOLEAN]

\* Where a process neither starts an operation nor owns one.
OutsidePCs == {"away", "idle", "observe", "stopped", "start", "locking", "reconcile",
               "rejoin", "open"}
\* Between the raw lock and redisBeginRecoveryScript.
HoldingPCs == {"inspect", "recheck", "check", "journal", "begin"}
\* Between that script and redisFinishRecoveryScript.
OwnerPCs == RebuildPCs \cup {"wait", "delete", "markJournal", "markRedis", "commitCheck",
                             "commit", "finishCheck", "finish"}
AllPCs == OutsidePCs \cup HoldingPCs \cup OwnerPCs \cup {"finished", "complete"}

Row == [pc : AllPCs, token : Token, epoch : Token, record : Record, cycle : Nat,
        todo : SUBSET (Tasks \cup Tenants), stale : SUBSET Tasks, diff : Nat]

RowShape(p) ==
    /\ run[p].pc = "known" => run[p].todo \subseteq Tenants
    /\ run[p].pc \in {"running", "dispatched", "listStable", "repair"} =>
         run[p].todo \subseteq Tasks
    /\ run[p].pc \in {"known", "running", "dispatched", "canonical", "listStable", "repair",
                      "mark"} => run[p].cycle # 0
    /\ run[p].pc \notin OutsidePCs \cup {"complete"} => run[p].token # None

Rows == run \in [Procs -> Row] /\ \A p \in Procs : RowShape(p)

Controls == [state : {"ABSENT", "READY", "RECOVERING"}, epoch : Token,
             kind : {"NONE", "NORMAL", "FORCE_REBUILD"}, op : Token, last : Token]
Mark == [cycle : Nat, complete : BOOLEAN, diff : Nat]
Progresses == [captured : BOOLEAN, highWater : SUBSET Tasks, mark : [Passes -> Mark],
               forceDelete : BOOLEAN]
Bounds == [stop : Nat, loss : Nat, diverge : Nat, lost : BOOLEAN]

RedisShape ==
    /\ lock \in Token /\ control \in Controls /\ progress \in Progresses
    /\ known \subseteq Tenants /\ active \subseteq Tenants
    /\ stable \subseteq Tasks /\ provisional \subseteq Tasks

WorldShape ==
    /\ task \in [Tasks -> Statuses]
    /\ publishing \subseteq Tasks /\ admitted \subseteq Tasks /\ late \subseteq Tasks
    /\ held \subseteq Tasks /\ returned \subseteq Tasks
    /\ faults \in Bounds

Shape ==
    /\ RedisShape /\ WorldShape /\ Rows
    /\ startFence \in Procs \cup {None} /\ journal \in Record

(***************************************************************************)
(* The inductive invariant: the protocol of locks, control and journal.     *)
(***************************************************************************)
\* p's token is the one in the recovery lock.
Holds(p) == lock # None /\ lock = run[p].token

\* A start under the MySQL fence that has not begun in Redis.
Starting(p) == startFence = p /\ run[p].pc \in HoldingPCs

ControlOK ==
    /\ ControlWellFormed
    /\ control.state = "ABSENT" => control.last = None

\* The journal and the control speak of the same operation.
JournalOK ==
    /\ journal.phase = "NONE" <=> journal.op = None
    /\ journal.phase = "ACTIVE" => control.last # journal.op
    /\ journal.phase \in {"READY_COMMITTED", "COMPLETED"} => journal.forceDelete
    /\ control.kind = "FORCE_REBUILD" => control.op = journal.op
    /\ JournalGuardsReady
    /\ ForceIsResumable

\* What a process has read of the journal is never ahead of it.
RecordBehind(p) ==
    LET r == run[p].record IN
    /\ r.phase \in {"READY_COMMITTED", "COMPLETED"} => r.forceDelete
    /\ r.op = journal.op =>
         /\ r.phase = "READY_COMMITTED" => journal.phase \in {"READY_COMMITTED", "COMPLETED"}
         /\ r.phase = "COMPLETED" => journal.phase = "COMPLETED"
         /\ r.forceDelete => journal.forceDelete

\* How far an operator has come with its record.
RecordAt(p) ==
    LET r == run[p].record IN
    /\ p \in Operators /\ run[p].pc \in {"begin"} \cup OwnerPCs =>
         r.phase # "NONE" /\ r.op # None
    /\ p \in Operators /\ run[p].pc \in OwnerPCs \ {"wait", "delete", "markJournal"} =>
         r.forceDelete
    /\ p \in Operators /\ run[p].pc \in {"finishCheck", "finish", "finished"} =>
         r.phase = "READY_COMMITTED"
    /\ run[p].pc = "complete" => r.phase = "READY_COMMITTED"

\* An operator that is about to write the journal.
StartOK(p) ==
    p \in Operators /\ Starting(p) /\ run[p].pc \in {"check", "journal"} =>
        /\ control.state # "READY"
        /\ Unfinished(run[p].record)
        /\ run[p].record.op \notin {None, control.last}
        /\ run[p].record.op # journal.op => control.kind # "FORCE_REBUILD"

\* A process that holds the lock at its Begin, and a runtime until its Finish.
BeginOK(p) ==
    Holds(p) =>
      /\ p \in Runtimes /\ run[p].pc \in {"begin"} \cup OwnerPCs => ~Unfinished(journal)
      /\ p \in Operators /\ run[p].pc = "begin" =>
           /\ run[p].record.op = journal.op /\ control.last # journal.op
           /\ ~faults.lost => Unfinished(journal)

\* Only an operation that Redis knows to be finished is completed.
CompleteOK(p) ==
    /\ run[p].pc = "complete" \/ (p \in Operators /\ run[p].pc = "finished")
    /\ ~faults.lost /\ run[p].record.op = journal.op
    => control.last = journal.op

RowOK(p) == RecordBehind(p) /\ RecordAt(p) /\ StartOK(p) /\ BeginOK(p) /\ CompleteOK(p)

\* Tokens are not shared; while p starts under the fence nobody else can begin
\* or go on; an operation that p has not written yet is known to nobody.
PairOK(p, q) ==
    /\ run[p].token = run[q].token => run[p].token = None
    /\ Starting(p) /\ Holds(q) => run[q].pc \in {"inspect", "recheck", "complete"}
    /\ /\ p \in Operators /\ Starting(p) /\ run[p].pc \in {"check", "journal"}
       /\ run[p].record.op # journal.op
       => run[q].record.op # run[p].record.op

ProtocolInv ==
    /\ ControlOK /\ JournalOK
    /\ \A p \in Procs : RowOK(p)
    /\ \A p \in Procs : \A q \in Procs \ {p} : PairOK(p, q)

(***************************************************************************)
(* The inductive invariant: what has been rebuilt.                          *)
(***************************************************************************)
\* After the drain, and after the expired leases.
DrainedPCs == OwnerPCs \ {"wait", "delete", "markJournal", "markRedis", "drain"}
ReapedPCs == DrainedPCs \ {"leases"}
CapturedPCs == ReapedPCs \ {"highWater"}
RestoredPCs == CapturedPCs \ {"reset", "known", "running", "dispatched"}

\* Messages that were in their queues throughout the last pass and since.
Waiting == In("published") \ (held \cup returned)
Claimed == In("running") \ late

\* A captured high water covers every task that has a message or a claim.
HighWaterOK ==
    control.state = "RECOVERING" /\ progress.captured =>
        publishing = {} /\ In("published") \cup In("running") \subseteq progress.highWater

Rebuilt(p) ==
    LET row == run[p]
        highTenants == TenantsOf(progress.highWater)
        again == row.pc = "known" /\ row.cycle # 1
    IN
    /\ row.pc \in DrainedPCs => publishing = {}
    /\ row.pc \in ReapedPCs => provisional = {}
    /\ row.pc \in CapturedPCs => progress.captured
    /\ row.pc = "known" => highTenants \subseteq known \cup row.todo
    /\ row.pc \in CapturedPCs \ {"reset", "known"} => highTenants \subseteq known
    /\ row.pc = "running" => Claimed \subseteq stable \cup row.todo
    /\ row.pc \in RestoredPCs \cup {"dispatched"} \/ again => Claimed \subseteq stable
    /\ row.pc = "listStable" => Claimed \subseteq row.todo
    /\ row.pc = "repair" => Claimed \cap row.stale = {}
    /\ row.pc = "dispatched" =>
         \A x \in Waiting : x \in row.todo \/ TenantOf[x] \in active \cap known
    /\ row.pc \in RestoredPCs \/ again => TenantsOf(Waiting) \subseteq active \cap known

\* p may still change what is being rebuilt.
Owns(p) == FenceOK(p) /\ run[p].pc \in OwnerPCs

RebuildInv == HighWaterOK /\ \A p \in Procs : Owns(p) => Rebuilt(p)

RecoveryInv == Shape /\ ProtocolInv /\ RebuildInv

(***************************************************************************)
(* What a step does to the row of its process.                              *)
(***************************************************************************)
\* Only p's row may differ.
OnlyRow(p) == \A q \in Procs \ {p} : run'[q] = run[q]

\* p has gone away from whatever it was doing.
Gone(p) ==
    /\ OnlyRow(p) /\ run'[p].pc \in {"idle", "stopped"}
    /\ run'[p].token = None /\ run'[p].record = NoRecord

\* p goes on and keeps what it knows.
Moved(p, label) ==
    /\ OnlyRow(p) /\ run'[p].pc = label
    /\ run'[p].token = run[p].token /\ run'[p].record = run[p].record
    /\ run'[p].epoch = run[p].epoch

LEMMA Apart == None \notin Procs /\ None \notin Tokens /\ None \in Token
  BY RecoveryAssumption DEF None, Procs, Token

\* The row of a process that does nothing.
LEMMA IdleRow ==
    /\ IdleRun \in Row /\ [IdleRun EXCEPT !.pc = "stopped"] \in Row
    /\ [IdleRun EXCEPT !.pc = "away"] \in Row
  <1>1. NoRecord \in Record /\ None \in Token
    BY DEF NoRecord, Record, Token
  <1>2. IdleRun \in Row
    BY <1>1 DEF IdleRun, Row, AllPCs, OutsidePCs
  <1>3. QED BY <1>1 DEF IdleRun, Row, AllPCs, OutsidePCs

LEMMA GoneFacts ==
    ASSUME Rows, NEW p \in Procs, BecomesIdle(p) \/ Stops(p) \/ LeavesStart(p)
    PROVE  Rows' /\ Gone(p)
  <1>1. PICK r \in {IdleRun, [IdleRun EXCEPT !.pc = "stopped"]} : run' = [run EXCEPT ![p] = r]
    BY DEF BecomesIdle, Stops, LeavesStart
  <1>2. r \in Row /\ r.pc \in {"idle", "stopped"} /\ r.token = None /\ r.record = NoRecord
    BY IdleRow DEF IdleRun
  <1>3. run' \in [Procs -> Row] /\ run'[p] = r /\ OnlyRow(p)
    BY <1>1, <1>2 DEF Rows, OnlyRow
  <1>4. \A q \in Procs : RowShape(q)'
    BY <1>2, <1>3 DEF Rows, RowShape, OnlyRow, OutsidePCs
  <1>5. QED BY <1>2, <1>3, <1>4 DEF Rows, Gone

\* Every row is updated at one place: enough to look at that row.
LEMMA RowsFromOne ==
    ASSUME Rows, NEW p \in Procs, NEW r \in Row, run' = [run EXCEPT ![p] = r],
           r.pc = "known" => r.todo \subseteq Tenants,
           r.pc \in {"running", "dispatched", "listStable", "repair"} => r.todo \subseteq Tasks,
           r.pc \in {"known", "running", "dispatched", "canonical", "listStable", "repair",
                     "mark"} => r.cycle # 0,
           r.pc \notin OutsidePCs \cup {"complete"} => r.token # None
    PROVE  Rows' /\ OnlyRow(p) /\ run'[p] = r
  <1>1. run' \in [Procs -> Row] /\ run'[p] = r /\ OnlyRow(p)
    BY DEF Rows, OnlyRow
  <1>2. \A q \in Procs : RowShape(q)'
    BY <1>1 DEF Rows, RowShape, OnlyRow
  <1>3. QED BY <1>1, <1>2 DEF Rows

\* Goto, to a place where neither a list nor a cycle is read, or from one like it.
LEMMA GotoFacts ==
    ASSUME Rows, NEW p \in Procs, NEW label \in AllPCs, Goto(p, label),
           \/ label \notin {"known", "running", "dispatched", "canonical", "listStable",
                            "repair", "mark"}
           \/ /\ label \in {"canonical", "mark"}
              /\ run[p].pc \in {"dispatched", "repair"},
           label \notin OutsidePCs \cup {"complete"} =>
             run[p].pc \notin OutsidePCs \cup {"complete"}
    PROVE  Rows' /\ Moved(p, label)
  <1> DEFINE r == [run[p] EXCEPT !.pc = label]
  <1>1. r \in Row /\ run' = [run EXCEPT ![p] = r]
    BY DEF Rows, Row, Goto
  <1>2. /\ r.pc = label /\ r.token = run[p].token /\ r.record = run[p].record
        /\ r.epoch = run[p].epoch /\ r.cycle = run[p].cycle
    BY DEF Rows, Row
  <1>3. Rows' /\ OnlyRow(p) /\ run'[p] = r
    <2>1. RowShape(p)
      BY DEF Rows
    <2> HIDE DEF r
    <2>2. QED BY <1>1, <1>2, <2>1, RowsFromOne DEF RowShape
  <1>4. QED BY <1>2, <1>3 DEF Moved

(***************************************************************************)
(* Two kinds of step of one process: it goes to a place outside any         *)
(* operation, or on inside the one it owns.                                 *)
(***************************************************************************)
\* What the protocol reads and neither kind touches.
Quiet ==
    /\ control' = control /\ journal' = journal
    /\ progress'.forceDelete => progress.forceDelete \/ journal.forceDelete
    /\ faults'.lost = faults.lost

GoesOutside(p) ==
    /\ OnlyRow(p) /\ run'[p].pc \in OutsidePCs
    /\ run'[p].token \in {run[p].token, None}
    /\ run[p].pc \in {"inspect", "recheck", "complete"} => run'[p].token = None
    /\ run'[p].record \in {run[p].record, journal, NoRecord}
    /\ lock' \in {lock, None} /\ startFence' \in {startFence, None, p}
    /\ Quiet

GoesOn(p) ==
    /\ OnlyRow(p) /\ run[p].pc \in OwnerPCs /\ run'[p].pc \in OwnerPCs
    /\ run'[p].token = run[p].token /\ run'[p].record = run[p].record
    /\ p \in Operators =>
         /\ run'[p].pc \notin {"wait", "delete", "markJournal"} =>
              run[p].pc \notin {"wait", "delete", "markJournal"}
         /\ run'[p].pc \in {"finishCheck", "finish"} => run[p].pc \in {"finishCheck", "finish"}
    /\ UNCHANGED <<lock, startFence>> /\ Quiet

LEMMA ShapeKept ==
    ASSUME Shape, Rows', lock' \in {lock, None}, startFence' \in Procs \cup {None},
           UNCHANGED <<control, progress, redisData, journal, worldVars, faults>>
    PROVE  Shape' /\ Quiet
  <1>1. RedisShape'
    BY Apart DEF Shape, RedisShape, redisData
  <1>2. WorldShape'
    BY DEF Shape, WorldShape, worldVars, In
  <1>3. QED BY <1>1, <1>2 DEF Shape, Quiet

\* A process that goes away, with or without its locks.
LEMMA GoesAway ==
    ASSUME Shape, NEW p \in Procs, BecomesIdle(p) \/ Stops(p) \/ LeavesStart(p),
           lock' \in {lock, None}, startFence' \in {startFence, None},
           UNCHANGED <<control, progress, redisData, journal, worldVars, faults>>
    PROVE  Shape' /\ GoesOutside(p)
  <1>1. Rows' /\ Gone(p)
    BY GoneFacts DEF Shape
  <1>2. Shape' /\ Quiet
    BY <1>1, ShapeKept DEF Shape
  <1>3. QED BY <1>1, <1>2 DEF GoesOutside, Gone, OutsidePCs

\* A process that goes to a place outside.
LEMMA GoesTo ==
    ASSUME Shape, NEW p \in Procs, NEW label \in OutsidePCs, Goto(p, label),
           run[p].pc \in {"idle", "observe", "start", "finished"},
           lock' \in {lock, None}, startFence' \in {startFence, None, p},
           UNCHANGED <<control, progress, redisData, journal, worldVars, faults>>
    PROVE  Shape' /\ GoesOutside(p)
  <1>1. Rows' /\ Moved(p, label)
    BY GotoFacts DEF Shape, AllPCs, OutsidePCs
  <1>2. Shape' /\ Quiet
    BY <1>1, ShapeKept DEF Shape
  <1>3. QED BY <1>1, <1>2 DEF GoesOutside, Moved

LEMMA Unchanged ==
    ASSUME UNCHANGED redisVars
    PROVE  UNCHANGED <<lock, control, progress, redisData>>
  BY DEF redisVars, redisData

LEMMA RefusedFacts ==
    ASSUME NEW p \in Procs, StartRefused(p)
    PROVE  lock' \in {lock, None} /\ startFence' \in {startFence, None}
  BY DEF StartRefused, ReleaseStartFence, ReleaseRawLock

LEMMA ReadJournalStep ==
    ASSUME Shape, NEW p \in Runtimes, ReadJournal(p)
    PROVE  Shape' /\ GoesOutside(p)
  <1> p \in Procs BY DEF Procs
  <1>u. UNCHANGED <<lock, control, progress, redisData, startFence, journal, worldVars, faults>>
    BY Unchanged DEF ReadJournal
  <1>1. CASE journal.phase = "ACTIVE"
    <2>1. Stops(p)
      BY <1>1 DEF ReadJournal
    <2>2. QED BY <2>1, <1>u, GoesAway
  <1>2. CASE journal.phase # "ACTIVE"
    <2> DEFINE r == [run[p] EXCEPT !.pc = "observe", !.record = journal]
    <2>1. run' = [run EXCEPT ![p] = r]
      BY <1>2 DEF ReadJournal, Shape, Rows, Row
    <2>2. r \in Row /\ r.pc = "observe" /\ r.token = run[p].token /\ r.record = journal
      BY DEF Shape, Rows, Row, AllPCs, OutsidePCs
    <2>3. Rows' /\ OnlyRow(p) /\ run'[p] = r
      <3> HIDE DEF r
      <3>1. QED BY <2>1, <2>2, RowsFromOne DEF Shape, OutsidePCs
    <2>4. Shape' /\ Quiet
      BY <1>u, <2>3, ShapeKept DEF Shape
    <2>5. QED BY <1>u, <2>2, <2>3, <2>4 DEF ReadJournal, GoesOutside, OutsidePCs
  <1>3. QED BY <1>1, <1>2

LEMMA ObserveStep ==
    ASSUME Shape, NEW p \in Runtimes, Observe(p)
    PROVE  Shape' /\ GoesOutside(p)
  <1> p \in Procs BY DEF Procs
  <1>u. UNCHANGED <<lock, control, progress, redisData, startFence, journal, worldVars, faults>>
    BY Unchanged DEF Observe
  <1>1. CASE control.state = "READY"
    <2> DEFINE pc == IF run[p].record.phase = "READY_COMMITTED" THEN "start" ELSE "reconcile"
               r == [run[p] EXCEPT !.pc = pc, !.epoch = control.epoch]
    <2>1. run' = [run EXCEPT ![p] = r]
      BY <1>1 DEF Observe, Shape, Rows, Row
    <2>2. r \in Row /\ r.pc = pc /\ r.token = run[p].token /\ r.record = run[p].record
      BY DEF Shape, Rows, Row, AllPCs, OutsidePCs, RedisShape, Controls
    <2>3. Rows' /\ OnlyRow(p) /\ run'[p] = r
      <3>1. pc \in {"start", "reconcile"}
        OBVIOUS
      <3> HIDE DEF r, pc
      <3>2. QED BY <2>1, <2>2, <3>1, RowsFromOne DEF Shape, OutsidePCs
    <2>4. Shape' /\ Quiet
      BY <1>u, <2>3, ShapeKept DEF Shape
    <2>5. QED BY <1>u, <2>2, <2>3, <2>4 DEF Observe, GoesOutside, OutsidePCs
  <1>2. CASE control.state # "READY" /\ run[p].record.phase = "READY_COMMITTED"
    <2>1. Stops(p)
      BY <1>2 DEF Observe
    <2>2. QED BY <2>1, <1>u, GoesAway
  <1>3. CASE control.state # "READY" /\ run[p].record.phase # "READY_COMMITTED"
    <2>1. Goto(p, "start")
      BY <1>3 DEF Observe
    <2>2. QED BY <2>1, <1>u, GoesTo DEF Observe, OutsidePCs
  <1>4. QED BY <1>1, <1>2, <1>3

LEMMA StartFenceBusyStep ==
    ASSUME Shape, NEW p \in Procs, StartFenceBusy(p)
    PROVE  Shape' /\ GoesOutside(p)
  BY Unchanged, GoesAway DEF StartFenceBusy

LEMMA AcquireStartFenceStep ==
    ASSUME Shape, NEW p \in Procs, AcquireStartFence(p)
    PROVE  Shape' /\ GoesOutside(p)
  <1>u. UNCHANGED <<lock, control, progress, redisData, journal, worldVars, faults>>
    BY Unchanged DEF AcquireStartFence
  <1>1. CASE Stops(p) /\ UNCHANGED startFence
    BY <1>1, <1>u, GoesAway
  <1>2. CASE Goto(p, "locking") /\ startFence' = p
    BY <1>2, <1>u, GoesTo DEF AcquireStartFence, OutsidePCs
  <1>3. QED BY <1>1, <1>2 DEF AcquireStartFence

LEMMA StartLostStep ==
    ASSUME Shape, NEW p \in Procs, StartLost(p)
    PROVE  Shape' /\ GoesOutside(p)
  BY RefusedFacts, GoesAway DEF StartLost

LEMMA ApplyStep ==
    ASSUME Shape, NEW o \in Operators, Apply(o)
    PROVE  Shape' /\ GoesOutside(o)
  BY Unchanged, GoesTo DEF Apply, OutsidePCs, Procs

LEMMA FenceLostStep ==
    ASSUME Shape, NEW p \in Procs, FenceLost(p)
    PROVE  Shape' /\ GoesOutside(p)
  BY Unchanged, GoesAway DEF FenceLost

LEMMA RestartRuntimeStep ==
    ASSUME Shape, NEW p \in Runtimes, RestartRuntime(p)
    PROVE  Shape' /\ GoesOutside(p)
  BY Unchanged, GoesAway DEF RestartRuntime, Procs

(***************************************************************************)
(* The steps of a rebuild.                                                  *)
(***************************************************************************)
LEMMA ShapeOfData ==
    ASSUME Shape, Rows', RedisShape', returned' \in {returned, {}},
           UNCHANGED <<startFence, journal, task, publishing, admitted, held, late, faults>>
    PROVE  Shape'
  <1>1. WorldShape'
    BY DEF Shape, WorldShape
  <1>2. QED BY <1>1 DEF Shape

\* On to a place where neither a list nor a cycle is read.
LEMMA OwnerGoto ==
    ASSUME Shape, NEW p \in Procs, NEW label \in OwnerPCs, run[p].pc \in OwnerPCs,
           Goto(p, label),
           \/ label \notin {"known", "running", "dispatched", "canonical", "listStable",
                            "repair", "mark"}
           \/ /\ label \in {"canonical", "mark"}
              /\ run[p].pc \in {"dispatched", "repair"}
    PROVE  Rows' /\ Moved(p, label)
  <1>1. label \in AllPCs /\ run[p].pc \notin OutsidePCs \cup {"complete"}
    BY DEF AllPCs, OwnerPCs, RebuildPCs, OutsidePCs
  <1>2. QED BY <1>1, GotoFacts DEF Shape

\* On with a new row: r differs in pc, cycle and lists.
LEMMA OwnerRow ==
    ASSUME Shape, NEW p \in Procs, run[p].pc \in OwnerPCs, NEW r \in Row,
           run' = [run EXCEPT ![p] = r],
           r.token = run[p].token, r.record = run[p].record, r.epoch = run[p].epoch,
           r.pc \in OwnerPCs,
           r.pc = "known" => r.todo \subseteq Tenants,
           r.pc \in {"running", "dispatched", "listStable", "repair"} => r.todo \subseteq Tasks,
           r.pc \in {"known", "running", "dispatched", "canonical", "listStable", "repair",
                     "mark"} => r.cycle # 0
    PROVE  Rows' /\ Moved(p, r.pc) /\ run'[p] = r
  <1>1. run[p].token # None
    <2>1. RowShape(p)
      BY DEF Shape, Rows
    <2>2. run[p].pc \notin OutsidePCs \cup {"complete"}
      BY DEF OwnerPCs, RebuildPCs, OutsidePCs
    <2>3. QED BY <2>1, <2>2 DEF RowShape
  <1>2. Rows' /\ OnlyRow(p) /\ run'[p] = r
    BY <1>1, RowsFromOne DEF Shape
  <1>3. QED BY <1>2 DEF Moved

LEMMA DrainAttemptsStep ==
    ASSUME Shape, NEW p \in Procs, DrainAttempts(p)
    PROVE  Shape' /\ GoesOn(p) /\ Moved(p, "leases")
  <1>1. Rows' /\ Moved(p, "leases")
    BY OwnerGoto DEF DrainAttempts, OwnerPCs, RebuildPCs
  <1>2. Shape' /\ Quiet
    BY <1>1, Unchanged, ShapeKept DEF DrainAttempts, Shape
  <1>3. QED BY <1>1, <1>2, Unchanged DEF DrainAttempts, GoesOn, Moved, OwnerPCs, RebuildPCs

LEMMA LoadCanonicalStableStep ==
    ASSUME Shape, NEW p \in Procs, LoadCanonicalStable(p)
    PROVE  /\ Shape' /\ GoesOn(p) /\ Moved(p, "listStable")
           /\ run'[p].todo = In("running") \cap progress.highWater
  <1> DEFINE r == [run[p] EXCEPT !.pc = "listStable",
                                 !.todo = In("running") \cap progress.highWater]
  <1>1. run' = [run EXCEPT ![p] = r]
    BY DEF LoadCanonicalStable, Shape, Rows, Row
  <1>2. /\ r \in Row /\ r.pc = "listStable" /\ r.token = run[p].token
        /\ r.record = run[p].record /\ r.epoch = run[p].epoch /\ r.cycle = run[p].cycle
        /\ r.todo = In("running") \cap progress.highWater /\ r.todo \subseteq Tasks
    BY DEF Shape, Rows, Row, AllPCs, OwnerPCs, RebuildPCs, In
  <1>3. run[p].pc = "canonical" /\ run[p].pc \in OwnerPCs /\ run[p].cycle # 0
    BY DEF LoadCanonicalStable, OwnerPCs, RebuildPCs, Shape, Rows, RowShape
  <1>4. Rows' /\ Moved(p, "listStable") /\ run'[p] = r
    <2> HIDE DEF r
    <2>1. QED BY <1>1, <1>2, <1>3, OwnerRow DEF OwnerPCs, RebuildPCs
  <1>5. Shape' /\ Quiet
    BY <1>4, Unchanged, ShapeKept DEF LoadCanonicalStable, Shape
  <1>6. QED
    BY <1>2, <1>3, <1>4, <1>5, Unchanged
    DEF LoadCanonicalStable, GoesOn, Moved, OwnerPCs, RebuildPCs

LEMMA LoadRedisStableStep ==
    ASSUME Shape, NEW p \in Procs, LoadRedisStable(p)
    PROVE  /\ Shape' /\ GoesOn(p) /\ Moved(p, "repair")
           /\ run'[p].todo = run[p].todo /\ run'[p].stale = stable \ run[p].todo
  <1> DEFINE canonical == run[p].todo
             d == Cardinality(stable \ canonical) + Cardinality(canonical \ stable)
             r == [run[p] EXCEPT !.pc = "repair", !.stale = stable \ canonical, !.diff = d]
  <1>1. run' = [run EXCEPT ![p] = r]
    BY DEF LoadRedisStable, Shape, Rows, Row
  <1>2. run[p].pc = "listStable" /\ run[p].pc \in OwnerPCs /\ run[p].cycle # 0
        /\ run[p].todo \subseteq Tasks
    BY DEF LoadRedisStable, OwnerPCs, RebuildPCs, Shape, Rows, RowShape
  <1>3. d \in Nat
    <2>1. IsFiniteSet(stable \ canonical) /\ IsFiniteSet(canonical \ stable)
      BY <1>2, FS_Subset, RecoveryAssumption DEF Shape, RedisShape
    <2>2. QED BY <2>1, FS_CardinalityType
  <1>4. /\ r \in Row /\ r.pc = "repair" /\ r.token = run[p].token
        /\ r.record = run[p].record /\ r.epoch = run[p].epoch /\ r.cycle = run[p].cycle
        /\ r.todo = run[p].todo /\ r.stale = stable \ run[p].todo
    <2> HIDE DEF d
    <2>1. QED BY <1>3 DEF Shape, Rows, Row, AllPCs, OwnerPCs, RebuildPCs, RedisShape
  <1>5. Rows' /\ Moved(p, "repair") /\ run'[p] = r
    <2> HIDE DEF r, d
    <2>1. QED BY <1>1, <1>2, <1>4, OwnerRow DEF OwnerPCs, RebuildPCs
  <1>6. Shape' /\ Quiet
    BY <1>5, Unchanged, ShapeKept DEF LoadRedisStable, Shape
  <1>7. run'[p].todo = run[p].todo /\ run'[p].stale = stable \ run[p].todo
    <2> HIDE DEF r
    <2>1. QED BY <1>4, <1>5
  <1>8. QED
    BY <1>2, <1>5, <1>6, <1>7, Unchanged
    DEF LoadRedisStable, GoesOn, Moved, OwnerPCs, RebuildPCs

LEMMA DrainRecoveryLeasesStep ==
    ASSUME Shape, NEW p \in Procs, DrainRecoveryLeases(p)
    PROVE  /\ Shape' /\ GoesOn(p) /\ provisional' \subseteq provisional
           /\ \/ Moved(p, "leases")
              \/ Moved(p, "highWater") /\ provisional' = {}
  <1>1. provisional' \subseteq provisional
    BY DEF DrainRecoveryLeases
  <1>2. RedisShape'
    BY <1>1 DEF DrainRecoveryLeases, Shape, RedisShape
  <1>3. CASE provisional = {}
    <2>1. Rows' /\ Moved(p, "highWater")
      BY <1>3, OwnerGoto DEF DrainRecoveryLeases, OwnerPCs, RebuildPCs
    <2>2. Shape'
      BY <1>2, <2>1, ShapeOfData DEF worldVars, DrainRecoveryLeases
    <2>3. QED BY <1>1, <1>3, <2>1, <2>2 DEF DrainRecoveryLeases, GoesOn, Moved, Quiet, OwnerPCs, RebuildPCs
  <1>4. CASE provisional # {}
    <2>1. run' = run /\ Rows' /\ Moved(p, "leases")
      BY <1>4 DEF DrainRecoveryLeases, Shape, Rows, RowShape, Moved, OnlyRow
    <2>2. Shape'
      BY <1>2, <2>1, ShapeOfData DEF worldVars, DrainRecoveryLeases
    <2>3. QED BY <1>1, <2>1, <2>2 DEF DrainRecoveryLeases, GoesOn, Moved, Quiet, OwnerPCs, RebuildPCs
  <1>5. QED BY <1>3, <1>4

LEMMA SetRecoveryHighWaterStep ==
    ASSUME Shape, NEW p \in Procs, SetRecoveryHighWater(p)
    PROVE  /\ Shape' /\ GoesOn(p) /\ Moved(p, "reset")
           /\ progress'.captured
           /\ \/ progress'.highWater = progress.highWater /\ progress.captured
              \/ progress'.highWater = Existing
  <1>1. Rows' /\ Moved(p, "reset")
    BY OwnerGoto DEF SetRecoveryHighWater, OwnerPCs, RebuildPCs
  <1>2. /\ progress' \in Progresses /\ progress'.captured
        /\ progress'.forceDelete = progress.forceDelete
        /\ \/ progress'.highWater = progress.highWater /\ progress.captured
           \/ progress'.highWater = Existing
    <2>1. NoProgress \in Progresses /\ Existing \in SUBSET Tasks
      BY DEF NoProgress, NoMark, Progresses, Mark, Existing
    <2>2. CASE progress.captured
      BY <2>2 DEF SetRecoveryHighWater, Shape, RedisShape
    <2>3. CASE ~progress.captured
      BY <2>1, <2>3 DEF SetRecoveryHighWater, Shape, RedisShape, Progresses
    <2>4. QED BY <2>2, <2>3
  <1>3. RedisShape'
    BY <1>2 DEF SetRecoveryHighWater, Shape, RedisShape, redisData
  <1>4. Shape'
    BY <1>1, <1>3, ShapeOfData DEF worldVars, SetRecoveryHighWater
  <1>5. QED
    BY <1>1, <1>2, <1>4 DEF SetRecoveryHighWater, GoesOn, Moved, Quiet, OwnerPCs, RebuildPCs

(***************************************************************************)
(* Reset, restore, repair.                                                  *)
(***************************************************************************)
LEMMA TenantsOfTasks ==
    ASSUME NEW S \in SUBSET Tasks
    PROVE  TenantsOf(S) \subseteq Tenants
  BY RecoveryAssumption DEF TenantsOf

LEMMA ResetResourceStep ==
    ASSUME Shape, NEW p \in Procs, ResetResource(p)
    PROVE  /\ Shape'
           /\ \/ GoesOutside(p)
              \/ /\ GoesOn(p) /\ Moved(p, "known")
                 /\ run'[p].cycle = 1 /\ run'[p].todo = TenantsOf(progress.highWater)
  <1>1. RedisShape'
    BY DEF ResetResource, Shape, RedisShape
  <1>2. CASE provisional = {}
    <2> DEFINE r == [run[p] EXCEPT !.pc = "known", !.cycle = 1,
                                   !.todo = TenantsOf(progress.highWater)]
    <2>1. run' = [run EXCEPT ![p] = r]
      BY <1>2 DEF ResetResource, Shape, Rows, Row
    <2>2. TenantsOf(progress.highWater) \subseteq Tenants
      BY TenantsOfTasks DEF ResetResource, Shape, RedisShape, Progresses
    <2>3. /\ r \in Row /\ r.pc = "known" /\ r.token = run[p].token
          /\ r.record = run[p].record /\ r.epoch = run[p].epoch /\ r.cycle = 1
          /\ r.todo = TenantsOf(progress.highWater)
      BY <2>2 DEF Shape, Rows, Row, AllPCs, OwnerPCs, RebuildPCs
    <2>4. Rows' /\ Moved(p, "known") /\ run'[p] = r
      <3>1. run[p].pc \in OwnerPCs
        BY DEF ResetResource, OwnerPCs, RebuildPCs
      <3>2. r.cycle # 0 /\ r.todo \subseteq Tenants
        BY <2>2, <2>3
      <3>3. r.pc \in OwnerPCs /\ r.pc \notin {"running", "dispatched", "listStable", "repair"}
        BY <2>3 DEF OwnerPCs, RebuildPCs
      <3> HIDE DEF r
      <3>4. QED BY <2>1, <2>3, <3>1, <3>2, <3>3, OwnerRow
    <2>5. Shape'
      BY <1>1, <2>4, ShapeOfData DEF worldVars, ResetResource
    <2>6. QED BY <2>3, <2>4, <2>5 DEF ResetResource, GoesOn, Moved, Quiet, OwnerPCs, RebuildPCs
  <1>3. CASE provisional # {}
    <2>1. Rows' /\ Gone(p)
      BY <1>3, GoneFacts DEF ResetResource, Shape
    <2>2. Shape'
      BY <1>1, <2>1, ShapeOfData DEF worldVars, ResetResource
    <2>3. QED BY <2>1, <2>2 DEF ResetResource, GoesOutside, Gone, Quiet, OutsidePCs
  <1>4. QED BY <1>2, <1>3

\* A pass mark that is accepted or not.
LEMMA MarkedFacts ==
    ASSUME Shape, NEW pass \in Passes, NEW cycle \in Nat, NEW diff \in Nat,
           progress' = Marked(pass, cycle, diff)
    PROVE  /\ progress' \in Progresses /\ progress'.forceDelete = progress.forceDelete
           /\ progress'.captured = progress.captured
           /\ progress'.highWater = progress.highWater
  BY DEF Shape, RedisShape, Progresses, Mark, Marked

LEMMA RestoreKnownStep ==
    ASSUME Shape, NEW p \in Procs, RestoreKnown(p)
    PROVE  /\ Shape'
           /\ \/ GoesOutside(p)
              \/ /\ GoesOn(p) /\ Moved(p, "known") /\ run'[p].cycle = run[p].cycle
                 /\ \E t \in run[p].todo : known' = known \cup {t} /\ run'[p].todo = run[p].todo \ {t}
                 /\ progress' = progress /\ returned' = returned
              \/ /\ GoesOn(p) /\ run[p].todo = {} /\ known' = known
                 /\ run'[p].cycle = run[p].cycle
                 /\ progress'.captured = progress.captured
                 /\ progress'.highWater = progress.highWater
                 /\ \/ /\ Moved(p, "running") /\ run[p].cycle = 1
                       /\ run'[p].todo = In("running") \cap progress.highWater
                    \/ /\ Moved(p, "dispatched") /\ run[p].cycle # 1
                       /\ run'[p].todo = Dispatched
  <1>1. /\ run[p].pc = "known" /\ run[p].pc \in OwnerPCs /\ run[p].cycle # 0
        /\ run[p].todo \subseteq Tenants /\ run[p].cycle \in Nat
    BY DEF RestoreKnown, OwnerPCs, RebuildPCs, Shape, Rows, RowShape, Row
  <1>2. CASE run[p].todo # {}
    <2>1. PICK t \in run[p].todo : /\ known' = known \cup {t}
                                   /\ run' = [run EXCEPT ![p].todo = @ \ {t}]
      BY <1>2 DEF RestoreKnown
    <2> DEFINE r == [run[p] EXCEPT !.todo = @ \ {t}]
    <2>2. run' = [run EXCEPT ![p] = r]
      BY <2>1 DEF RestoreKnown, Shape, Rows, Row
    <2>3. /\ r \in Row /\ r.pc = "known" /\ r.token = run[p].token
          /\ r.record = run[p].record /\ r.epoch = run[p].epoch /\ r.cycle = run[p].cycle
          /\ r.todo = run[p].todo \ {t}
      BY <1>1 DEF Shape, Rows, Row
    <2>4. Rows' /\ Moved(p, "known") /\ run'[p] = r
      <3> HIDE DEF r
      <3>1. QED BY <1>1, <2>2, <2>3, OwnerRow
    <2>5. RedisShape' /\ progress' = progress /\ returned' = returned
      BY <1>1, <1>2, <2>1 DEF RestoreKnown, Shape, RedisShape
    <2>6. Shape'
      BY <2>4, <2>5, ShapeOfData DEF worldVars, RestoreKnown
    <2>7. GoesOn(p)
      BY <1>1, <2>4, <2>5 DEF RestoreKnown, GoesOn, Moved, Quiet
    <2>8. run'[p].cycle = run[p].cycle /\ run'[p].todo = run[p].todo \ {t}
      <3> HIDE DEF r
      <3>1. QED BY <2>3, <2>4
    <2>9. QED BY <2>1, <2>4, <2>5, <2>6, <2>7, <2>8
  <1>3. CASE run[p].todo = {} /\ MarkAccepted("known", run[p].cycle, 0)
    <2> DEFINE first == run[p].cycle = 1
               pc == IF first THEN "running" ELSE "dispatched"
               todo == IF first THEN In("running") \cap progress.highWater
                       ELSE Dispatched
               r == [run[p] EXCEPT !.pc = pc, !.todo = todo]
    <2>1. run' = [run EXCEPT ![p] = r] /\ progress' = Marked("known", run[p].cycle, 0)
      BY <1>3 DEF RestoreKnown, MarkRecoveryPass, Shape, Rows, Row
    <2>2. todo \subseteq Tasks
      BY DEF RestoreKnown, In, Dispatched
    <2>3. /\ r \in Row /\ r.pc = pc /\ r.token = run[p].token /\ r.record = run[p].record
          /\ r.epoch = run[p].epoch /\ r.cycle = run[p].cycle /\ r.todo = todo
      <3>1. pc \in {"running", "dispatched"}
        OBVIOUS
      <3> HIDE DEF pc, todo
      <3>2. QED BY <2>2, <3>1 DEF Shape, Rows, Row, AllPCs, OwnerPCs, RebuildPCs
    <2>4. Rows' /\ Moved(p, pc) /\ run'[p] = r
      <3>1. pc \in {"running", "dispatched"}
        OBVIOUS
      <3> HIDE DEF r, pc, todo
      <3>2. QED BY <1>1, <2>1, <2>2, <2>3, <3>1, OwnerRow DEF OwnerPCs, RebuildPCs
    <2>5. /\ progress' \in Progresses /\ progress'.forceDelete = progress.forceDelete
          /\ progress'.captured = progress.captured
          /\ progress'.highWater = progress.highWater
      <3>1. "known" \in Passes /\ 0 \in Nat
        BY DEF Passes
      <3>2. QED BY <1>1, <2>1, <3>1, MarkedFacts
    <2>6. RedisShape' /\ known' = known
      BY <1>3, <2>5 DEF RestoreKnown, Shape, RedisShape
    <2>7. Shape'
      BY <2>4, <2>6, ShapeOfData DEF worldVars, RestoreKnown
    <2>8. pc \in {"running", "dispatched"}
      OBVIOUS
    <2>9. GoesOn(p)
      <3> HIDE DEF pc, r, todo
      <3>1. QED BY <1>1, <2>4, <2>5, <2>8 DEF RestoreKnown, GoesOn, Moved, Quiet, OwnerPCs, RebuildPCs
    <2>10. run'[p].cycle = run[p].cycle /\ run'[p].todo = todo
      <3> HIDE DEF r, pc, todo
      <3>1. QED BY <2>3, <2>4
    <2>11. QED BY <1>3, <2>4, <2>5, <2>6, <2>7, <2>9, <2>10
  <1>4. CASE run[p].todo = {} /\ ~MarkAccepted("known", run[p].cycle, 0)
    <2>1. BecomesIdle(p) /\ UNCHANGED <<lock, control, progress, redisData, startFence,
                                        journal, task, publishing, admitted, held, late, faults>>
          /\ returned' \in {returned, {}}
      BY <1>4 DEF RestoreKnown, MarkRecoveryPass, redisData
    <2>2. Rows' /\ Gone(p)
      BY <2>1, GoneFacts DEF Shape
    <2>3. RedisShape'
      BY <2>1 DEF Shape, RedisShape, redisData
    <2>4. Shape'
      BY <2>1, <2>2, <2>3, ShapeOfData DEF worldVars
    <2>5. QED BY <2>1, <2>2, <2>4 DEF GoesOutside, Gone, Quiet, OutsidePCs
  <1>5. QED BY <1>2, <1>3, <1>4

LEMMA RestoreRunningStep ==
    ASSUME Shape, NEW p \in Procs, RestoreRunning(p)
    PROVE  /\ Shape' /\ GoesOn(p)
           /\ \/ /\ Moved(p, "running")
                 /\ \E x \in run[p].todo : stable' = stable \cup {x} /\ run'[p].todo = run[p].todo \ {x}
              \/ /\ Moved(p, "dispatched") /\ run[p].todo = {} /\ stable' = stable
                 /\ run'[p].todo = Dispatched
  <1>1. /\ run[p].pc = "running" /\ run[p].pc \in OwnerPCs /\ run[p].cycle # 0
        /\ run[p].todo \subseteq Tasks
    BY DEF RestoreRunning, OwnerPCs, RebuildPCs, Shape, Rows, RowShape, Row
  <1>2. CASE run[p].todo # {}
    <2>1. PICK x \in run[p].todo : /\ stable' = stable \cup {x}
                                   /\ run' = [run EXCEPT ![p].todo = @ \ {x}]
      BY <1>2 DEF RestoreRunning
    <2> DEFINE r == [run[p] EXCEPT !.todo = @ \ {x}]
    <2>2. run' = [run EXCEPT ![p] = r]
      BY <2>1 DEF RestoreRunning, Shape, Rows, Row
    <2>3. /\ r \in Row /\ r.pc = "running" /\ r.token = run[p].token
          /\ r.record = run[p].record /\ r.epoch = run[p].epoch /\ r.cycle = run[p].cycle
          /\ r.todo = run[p].todo \ {x}
      BY <1>1 DEF Shape, Rows, Row
    <2>4. Rows' /\ Moved(p, "running") /\ run'[p] = r
      <3> HIDE DEF r
      <3>1. QED BY <1>1, <2>2, <2>3, OwnerRow
    <2>5. RedisShape'
      BY <1>1, <2>1 DEF RestoreRunning, Shape, RedisShape
    <2>6. Shape'
      BY <2>4, <2>5, ShapeOfData DEF worldVars, RestoreRunning
    <2>7. run'[p].todo = run[p].todo \ {x}
      <3> HIDE DEF r
      <3>1. QED BY <2>3, <2>4
    <2>8. QED BY <1>1, <2>1, <2>4, <2>6, <2>7 DEF RestoreRunning, GoesOn, Moved, Quiet
  <1>3. CASE run[p].todo = {}
    <2> DEFINE todo == Dispatched
               r == [run[p] EXCEPT !.pc = "dispatched", !.todo = todo]
    <2>1. run' = [run EXCEPT ![p] = r]
      BY <1>3 DEF RestoreRunning, Shape, Rows, Row
    <2>2. todo \subseteq Tasks
      BY DEF RestoreRunning, In, Dispatched
    <2>3. /\ r \in Row /\ r.pc = "dispatched" /\ r.token = run[p].token
          /\ r.record = run[p].record /\ r.epoch = run[p].epoch /\ r.cycle = run[p].cycle
          /\ r.todo = todo
      <3> HIDE DEF todo
      <3>1. QED BY <2>2 DEF Shape, Rows, Row, AllPCs, OwnerPCs, RebuildPCs
    <2>4. Rows' /\ Moved(p, "dispatched") /\ run'[p] = r
      <3> HIDE DEF r, todo
      <3>1. QED BY <1>1, <2>1, <2>2, <2>3, OwnerRow DEF OwnerPCs, RebuildPCs
    <2>5. RedisShape'
      BY <1>3 DEF RestoreRunning, Shape, RedisShape
    <2>6. Shape'
      BY <2>4, <2>5, ShapeOfData DEF worldVars, RestoreRunning
    <2>7. run'[p].todo = todo
      <3> HIDE DEF r, todo
      <3>1. QED BY <2>3, <2>4
    <2>8. GoesOn(p)
      BY <1>1, <2>4 DEF RestoreRunning, GoesOn, Moved, Quiet, OwnerPCs, RebuildPCs
    <2>9. stable' = stable
      BY <1>3 DEF RestoreRunning
    <2>10. QED BY <1>3, <2>4, <2>6, <2>7, <2>8, <2>9
  <1>4. QED BY <1>2, <1>3

LEMMA RestoreDispatchedStep ==
    ASSUME Shape, NEW p \in Procs, RestoreDispatched(p)
    PROVE  /\ Shape'
           /\ \/ GoesOutside(p)
              \/ /\ GoesOn(p) /\ Moved(p, "dispatched") /\ run'[p].cycle = run[p].cycle
                 /\ \E x \in run[p].todo :
                      /\ run'[p].todo = run[p].todo \ {x}
                      /\ active \subseteq active' /\ known \subseteq known'
                      /\ ReadyDepthPositive(TenantOf[x]) => TenantOf[x] \in active' \cap known'
                 /\ progress' = progress
              \/ /\ GoesOn(p) /\ run[p].todo = {} /\ known' = known /\ active' = active
                 /\ progress'.captured = progress.captured
                 /\ progress'.highWater = progress.highWater
                 /\ \E label \in {"canonical", "commitCheck", "finish"} : Moved(p, label)
  <1>1. /\ run[p].pc = "dispatched" /\ run[p].pc \in OwnerPCs /\ run[p].cycle # 0
        /\ run[p].todo \subseteq Tasks /\ run[p].cycle \in Nat
    BY DEF RestoreDispatched, OwnerPCs, RebuildPCs, Shape, Rows, RowShape, Row
  <1>2. CASE run[p].todo # {}
    <2>1. PICK x \in run[p].todo :
              /\ IF ReadyDepthPositive(TenantOf[x])
                   THEN /\ active' = active \cup {TenantOf[x]}
                        /\ known' = known \cup {TenantOf[x]}
                   ELSE UNCHANGED <<known, active>>
              /\ run' = [run EXCEPT ![p].todo = @ \ {x}]
      BY <1>2 DEF RestoreDispatched
    <2> DEFINE r == [run[p] EXCEPT !.todo = @ \ {x}]
    <2>2. run' = [run EXCEPT ![p] = r]
      BY <2>1 DEF Shape, Rows, Row
    <2>3. /\ r \in Row /\ r.pc = "dispatched" /\ r.token = run[p].token
          /\ r.record = run[p].record /\ r.epoch = run[p].epoch /\ r.cycle = run[p].cycle
          /\ r.todo = run[p].todo \ {x}
      BY <1>1 DEF Shape, Rows, Row
    <2>4. Rows' /\ Moved(p, "dispatched") /\ run'[p] = r
      <3> HIDE DEF r
      <3>1. QED BY <1>1, <2>2, <2>3, OwnerRow
    <2>5. TenantOf[x] \in Tenants
      BY <1>1, RecoveryAssumption
    <2>6. RedisShape' /\ progress' = progress
      <3>1. known' \subseteq Tenants /\ active' \subseteq Tenants
        BY <2>1, <2>5 DEF Shape, RedisShape
      <3>2. UNCHANGED <<lock, control, progress, stable, provisional>>
        BY <1>2 DEF RestoreDispatched
      <3>3. QED BY <3>1, <3>2 DEF Shape, RedisShape
    <2>7. Shape'
      BY <2>4, <2>6, ShapeOfData DEF worldVars, RestoreDispatched
    <2>8. GoesOn(p)
      <3>1. UNCHANGED <<lock, control, startFence, journal, faults>>
        BY DEF RestoreDispatched
      <3>2. QED BY <1>1, <2>4, <2>6, <3>1 DEF GoesOn, Moved, Quiet
    <2>9. run'[p].cycle = run[p].cycle /\ run'[p].todo = run[p].todo \ {x}
      <3> HIDE DEF r
      <3>1. QED BY <2>3, <2>4
    <2>10. /\ active \subseteq active' /\ known \subseteq known'
           /\ ReadyDepthPositive(TenantOf[x]) => TenantOf[x] \in active' \cap known'
      BY <2>1
    <2>11. QED BY <2>4, <2>6, <2>7, <2>8, <2>9, <2>10
  <1>3. CASE run[p].todo = {} /\ MarkAccepted("dispatched", run[p].cycle, 0)
    <2>1. PICK label \in {"canonical", "commitCheck", "finish"} : Goto(p, label)
      <3>1. Goto(p, CASE run[p].cycle = 1 -> "canonical"
                      [] run[p].cycle > 1 /\ p \in Operators -> "commitCheck"
                      [] run[p].cycle > 1 /\ p \in Runtimes -> "finish")
        BY <1>3 DEF RestoreDispatched, MarkRecoveryPass
      <3>2. run[p].cycle = 1 \/ run[p].cycle > 1
        BY <1>1
      <3>3. CASE run[p].cycle = 1
        BY <3>1, <3>3
      <3>4. CASE run[p].cycle > 1 /\ p \in Operators
        BY <3>1, <3>4, RecoveryAssumption
      <3>5. CASE run[p].cycle > 1 /\ p \in Runtimes
        BY <3>1, <3>5, RecoveryAssumption
      <3>6. QED BY <3>2, <3>3, <3>4, <3>5 DEF Procs
    <2>2. progress' = Marked("dispatched", run[p].cycle, 0)
      BY <1>3 DEF MarkRecoveryPass, RestoreDispatched
    <2>3. Rows' /\ Moved(p, label)
      BY <1>1, <2>1, OwnerGoto DEF OwnerPCs, RebuildPCs
    <2>4. /\ progress' \in Progresses /\ progress'.forceDelete = progress.forceDelete
          /\ progress'.captured = progress.captured
          /\ progress'.highWater = progress.highWater
      <3>1. "dispatched" \in Passes /\ 0 \in Nat
        BY DEF Passes
      <3>2. QED BY <1>1, <2>2, <3>1, MarkedFacts
    <2>5. /\ UNCHANGED <<lock, control, known, active, stable, provisional, startFence,
                         journal, worldVars, faults>>
      BY <1>3 DEF RestoreDispatched
    <2>6. RedisShape'
      BY <2>4, <2>5 DEF Shape, RedisShape
    <2>7. Shape'
      BY <2>3, <2>5, <2>6, ShapeOfData DEF worldVars
    <2>8. /\ label \in OwnerPCs /\ label \notin {"finishCheck"}
          /\ p \in Operators => label # "finish"
      <3>1. label \in OwnerPCs
        BY DEF OwnerPCs, RebuildPCs
      <3>2. ASSUME p \in Operators
            PROVE  label # "finish"
        <4>1. run'[p].pc = CASE run[p].cycle = 1 -> "canonical"
                      [] run[p].cycle > 1 /\ p \in Operators -> "commitCheck"
                      [] run[p].cycle > 1 /\ p \in Runtimes -> "finish"
          BY <1>3 DEF RestoreDispatched, MarkRecoveryPass, Goto, Shape, Rows, Row
        <4>2. p \notin Runtimes /\ (run[p].cycle = 1 \/ run[p].cycle > 1)
          BY <1>1, <3>2, RecoveryAssumption
        <4>3. run'[p].pc # "finish"
          BY <3>2, <4>1, <4>2
        <4>4. QED BY <2>3, <4>3 DEF Moved
      <3>3. QED BY <3>1, <3>2
    <2>9. GoesOn(p)
      BY <1>1, <2>3, <2>4, <2>5, <2>8 DEF GoesOn, Moved, Quiet
    <2>10. QED BY <1>3, <2>3, <2>4, <2>5, <2>7, <2>9
  <1>4. CASE run[p].todo = {} /\ ~MarkAccepted("dispatched", run[p].cycle, 0)
    <2>1. BecomesIdle(p) /\ UNCHANGED <<lock, control, progress, redisData, startFence,
                                        journal, worldVars, faults>>
      BY <1>4 DEF RestoreDispatched, MarkRecoveryPass, redisData
    <2>2. QED BY <2>1, GoesAway
  <1>5. QED BY <1>2, <1>3, <1>4

LEMMA RepairStableStep ==
    ASSUME Shape, NEW p \in Procs, RepairStable(p)
    PROVE  /\ Shape' /\ GoesOn(p)
           /\ \/ /\ Moved(p, "repair")
                 /\ \E x \in run[p].stale : stable' = stable \ {x} /\ run'[p].stale = run[p].stale \ {x}
              \/ /\ Moved(p, "repair") /\ stable \subseteq stable' /\ run'[p].stale = {}
              \/ /\ Moved(p, "mark") /\ stable' = stable
  <1>1. /\ run[p].pc = "repair" /\ run[p].pc \in OwnerPCs /\ run[p].cycle # 0
        /\ run[p].todo \subseteq Tasks /\ run[p].stale \subseteq Tasks
    BY DEF RepairStable, OwnerPCs, RebuildPCs, Shape, Rows, RowShape, Row
  <1>u. UNCHANGED <<lock, control, progress, known, active, provisional, startFence, journal,
                    worldVars, faults>>
    BY DEF RepairStable
  <1>2. CASE run[p].stale # {}
    <2>1. PICK x \in run[p].stale : /\ stable' = stable \ {x}
                                    /\ run' = [run EXCEPT ![p].stale = @ \ {x}]
      BY <1>2 DEF RepairStable
    <2> DEFINE r == [run[p] EXCEPT !.stale = @ \ {x}]
    <2>2. run' = [run EXCEPT ![p] = r]
      BY <2>1 DEF Shape, Rows, Row
    <2>3. /\ r \in Row /\ r.pc = "repair" /\ r.token = run[p].token
          /\ r.record = run[p].record /\ r.epoch = run[p].epoch /\ r.cycle = run[p].cycle
          /\ r.todo = run[p].todo /\ r.stale = run[p].stale \ {x}
      BY <1>1 DEF Shape, Rows, Row
    <2>4. Rows' /\ Moved(p, "repair") /\ run'[p] = r
      <3> HIDE DEF r
      <3>1. QED BY <1>1, <2>2, <2>3, OwnerRow
    <2>5. RedisShape'
      BY <1>1, <1>u, <2>1 DEF Shape, RedisShape
    <2>6. Shape'
      BY <1>u, <2>4, <2>5, ShapeOfData DEF worldVars
    <2>7. run'[p].stale = run[p].stale \ {x}
      <3> HIDE DEF r
      <3>1. QED BY <2>3, <2>4
    <2>8. GoesOn(p)
      BY <1>1, <1>u, <2>4 DEF GoesOn, Moved, Quiet
    <2>9. QED BY <2>1, <2>4, <2>6, <2>7, <2>8
  <1>3. CASE run[p].stale = {} /\ run[p].todo # {}
    <2>1. PICK x \in run[p].todo : /\ stable' = stable \cup {x}
                                   /\ run' = [run EXCEPT ![p].todo = @ \ {x}]
      BY <1>3 DEF RepairStable
    <2> DEFINE r == [run[p] EXCEPT !.todo = @ \ {x}]
    <2>2. run' = [run EXCEPT ![p] = r]
      BY <2>1 DEF Shape, Rows, Row
    <2>3. /\ r \in Row /\ r.pc = "repair" /\ r.token = run[p].token
          /\ r.record = run[p].record /\ r.epoch = run[p].epoch /\ r.cycle = run[p].cycle
          /\ r.todo = run[p].todo \ {x} /\ r.stale = run[p].stale
      BY <1>1 DEF Shape, Rows, Row
    <2>4. Rows' /\ Moved(p, "repair") /\ run'[p] = r
      <3> HIDE DEF r
      <3>1. QED BY <1>1, <2>2, <2>3, OwnerRow
    <2>5. RedisShape'
      BY <1>1, <1>u, <2>1 DEF Shape, RedisShape
    <2>6. Shape'
      BY <1>u, <2>4, <2>5, ShapeOfData DEF worldVars
    <2>7. run'[p].stale = {}
      <3> HIDE DEF r
      <3>1. QED BY <1>3, <2>3, <2>4
    <2>8. GoesOn(p)
      BY <1>1, <1>u, <2>4 DEF GoesOn, Moved, Quiet
    <2>9. QED BY <2>1, <2>4, <2>6, <2>7, <2>8
  <1>4. CASE run[p].stale = {} /\ run[p].todo = {}
    <2>1. Goto(p, "mark") /\ UNCHANGED stable
      BY <1>4 DEF RepairStable
    <2>2. Rows' /\ Moved(p, "mark")
      BY <1>1, <2>1, OwnerGoto DEF OwnerPCs, RebuildPCs
    <2>3. RedisShape'
      BY <1>u, <2>1 DEF Shape, RedisShape
    <2>4. Shape'
      BY <1>u, <2>2, <2>3, ShapeOfData DEF worldVars
    <2>5. GoesOn(p)
      BY <1>1, <1>u, <2>2 DEF GoesOn, Moved, Quiet, OwnerPCs, RebuildPCs
    <2>6. QED BY <2>1, <2>2, <2>4, <2>5
  <1>5. QED BY <1>2, <1>3, <1>4

LEMMA MarkRunningStep ==
    ASSUME Shape, NEW p \in Procs, MarkRunning(p)
    PROVE  /\ Shape'
           /\ \/ GoesOutside(p)
              \/ /\ GoesOn(p) /\ run[p].cycle # 0 /\ run'[p].cycle = run[p].cycle + 1
                 /\ progress'.captured = progress.captured
                 /\ progress'.highWater = progress.highWater
                 /\ \/ Moved(p, "known") /\ run'[p].todo = TenantsOf(progress.highWater)
                    \/ Moved(p, "canonical")
  <1>1. /\ run[p].pc = "mark" /\ run[p].pc \in OwnerPCs /\ run[p].cycle # 0
        /\ run[p].cycle \in Nat /\ run[p].diff \in Nat
    BY DEF MarkRunning, OwnerPCs, RebuildPCs, Shape, Rows, RowShape, Row
  <1>u. UNCHANGED <<lock, control, redisData, startFence, journal, worldVars, faults>>
    BY DEF MarkRunning
  <1>2. CASE MarkAccepted("running", run[p].cycle, run[p].diff)
    <2> DEFINE clean == run[p].diff = 0
               pc == IF clean THEN "known" ELSE "canonical"
               todo == IF clean THEN TenantsOf(progress.highWater) ELSE {}
               r == [run[p] EXCEPT !.cycle = @ + 1, !.pc = pc, !.todo = todo]
    <2>1. /\ run' = [run EXCEPT ![p] = r]
          /\ progress' = Marked("running", run[p].cycle, run[p].diff)
      BY <1>2 DEF MarkRunning, MarkRecoveryPass, Shape, Rows, Row
    <2>2. todo \subseteq Tenants
      BY TenantsOfTasks DEF Shape, RedisShape, Progresses
    <2>3. pc \in {"known", "canonical"}
      OBVIOUS
    <2>4. /\ r \in Row /\ r.pc = pc /\ r.token = run[p].token /\ r.record = run[p].record
          /\ r.epoch = run[p].epoch /\ r.cycle = run[p].cycle + 1 /\ r.todo = todo
      <3> HIDE DEF pc, todo
      <3>1. run[p] \in Row
        BY DEF Shape, Rows
      <3>2. run[p].cycle + 1 \in Nat
        BY <1>1
      <3>3. todo \in SUBSET (Tasks \cup Tenants)
        BY <2>2
      <3>4. pc \in AllPCs
        BY <2>3 DEF AllPCs, OwnerPCs, RebuildPCs
      <3>5. QED BY <3>1, <3>2, <3>3, <3>4 DEF Row
    <2>5. Rows' /\ Moved(p, pc) /\ run'[p] = r
      <3> HIDE DEF r, pc, todo
      <3>1. r.cycle # 0 /\ r.pc \in OwnerPCs
            /\ r.pc \notin {"running", "dispatched", "listStable", "repair"}
        BY <1>1, <2>3, <2>4 DEF OwnerPCs, RebuildPCs
      <3>2. QED BY <1>1, <2>1, <2>2, <2>4, <3>1, OwnerRow
    <2>6. /\ progress' \in Progresses /\ progress'.forceDelete = progress.forceDelete
          /\ progress'.captured = progress.captured
          /\ progress'.highWater = progress.highWater
      <3>1. "running" \in Passes
        BY DEF Passes
      <3>2. QED BY <1>1, <2>1, <3>1, MarkedFacts
    <2>7. RedisShape'
      BY <1>u, <2>6 DEF Shape, RedisShape, redisData
    <2>8. Shape'
      BY <1>u, <2>5, <2>7, ShapeOfData DEF worldVars
    <2>9. GoesOn(p)
      <3> HIDE DEF pc, todo, r
      <3>1. QED BY <1>1, <1>u, <2>3, <2>5, <2>6 DEF GoesOn, Moved, Quiet, OwnerPCs, RebuildPCs
    <2>10. run'[p].cycle = run[p].cycle + 1 /\ run'[p].todo = todo
      <3> HIDE DEF r, pc, todo
      <3>1. QED BY <2>4, <2>5
    <2>11. QED BY <1>1, <2>5, <2>6, <2>8, <2>9, <2>10
  <1>3. CASE ~MarkAccepted("running", run[p].cycle, run[p].diff)
    <2>1. BecomesIdle(p) /\ UNCHANGED progress
      BY <1>3 DEF MarkRunning, MarkRecoveryPass
    <2>2. QED BY <1>u, <2>1, GoesAway
  <1>4. QED BY <1>2, <1>3

(***************************************************************************)
(* The steps of an operator between Begin and Finish, and of the rest that  *)
(* leave an operation.                                                      *)
(***************************************************************************)
LEMMA WaitForForceDeadlineStep ==
    ASSUME Shape, NEW o \in Procs, WaitForForceDeadline(o)
    PROVE  Shape' /\ (GoesOutside(o) \/ (GoesOn(o) /\ Moved(o, "delete")))
  <1>u. UNCHANGED <<lock, control, progress, redisData, startFence, journal, worldVars, faults>>
    BY Unchanged DEF WaitForForceDeadline
  <1>1. CASE lock = run[o].token
    <2>1. Goto(o, "delete") /\ run[o].pc = "wait"
      BY <1>1 DEF WaitForForceDeadline
    <2>2. Rows' /\ Moved(o, "delete")
      BY <2>1, OwnerGoto DEF OwnerPCs
    <2>3. Shape' /\ Quiet
      BY <1>u, <2>2, ShapeKept DEF Shape
    <2>4. QED BY <1>u, <2>1, <2>2, <2>3 DEF GoesOn, Moved, OwnerPCs
  <1>2. CASE lock # run[o].token
    BY <1>2, <1>u, GoesAway DEF WaitForForceDeadline
  <1>3. QED BY <1>1, <1>2

\* MarkForceDeleteJournal is another kind of step: it may write the journal.
LEMMA DeleteForceOwnedKeysStep ==
    ASSUME Shape, NEW o \in Procs, DeleteForceOwnedKeys(o)
    PROVE  Shape' /\ GoesOn(o) /\ Moved(o, "markJournal")
  <1>1. Rows' /\ Moved(o, "markJournal")
    BY OwnerGoto DEF DeleteForceOwnedKeys, OwnerPCs
  <1>2. RedisShape'
    BY DEF DeleteForceOwnedKeys, Shape, RedisShape
  <1>3. Shape'
    BY <1>1, <1>2, ShapeOfData DEF worldVars, DeleteForceOwnedKeys
  <1>4. QED BY <1>1, <1>3 DEF DeleteForceOwnedKeys, GoesOn, Moved, Quiet, OwnerPCs

LEMMA RenewBeforeJournalStep ==
    ASSUME Shape, NEW o \in Procs, RenewBeforeJournal(o)
    PROVE  /\ Shape' /\ GoesOn(o)
           /\ Moved(o, IF run[o].pc = "commitCheck" THEN "commit" ELSE "finish")
  <1>1. CASE run[o].pc = "commitCheck"
    <2>1. Rows' /\ Moved(o, "commit")
      BY <1>1, OwnerGoto DEF RenewBeforeJournal, OwnerPCs
    <2>2. Shape' /\ Quiet
      BY <2>1, Unchanged, ShapeKept DEF RenewBeforeJournal, Shape
    <2>3. QED BY <1>1, <2>1, <2>2, Unchanged DEF RenewBeforeJournal, GoesOn, Moved, OwnerPCs
  <1>2. CASE run[o].pc = "finishCheck"
    <2>1. Rows' /\ Moved(o, "finish")
      BY <1>2, OwnerGoto DEF RenewBeforeJournal, OwnerPCs
    <2>2. Shape' /\ Quiet
      BY <2>1, Unchanged, ShapeKept DEF RenewBeforeJournal, Shape
    <2>3. QED BY <1>2, <2>1, <2>2, Unchanged DEF RenewBeforeJournal, GoesOn, Moved, OwnerPCs
  <1>3. QED BY <1>1, <1>2 DEF RenewBeforeJournal

LEMMA ReconcileReadyStep ==
    ASSUME Shape, NEW p \in Procs, ReconcileReady(p)
    PROVE  Shape' /\ GoesOutside(p)
  <1>u. UNCHANGED <<lock, control, progress, provisional, startFence, journal, worldVars, faults>>
    BY DEF ReconcileReady
  <1>1. Rows' /\ GoesOutside(p)
    <2>1. CASE Goto(p, "open")
      <3>1. Rows' /\ Moved(p, "open")
        BY <2>1, GotoFacts DEF Shape, AllPCs, OutsidePCs
      <3>2. QED BY <1>u, <3>1 DEF ReconcileReady, GoesOutside, Moved, Quiet, OutsidePCs
    <2>2. CASE BecomesIdle(p)
      <3>1. Rows' /\ Gone(p)
        BY <2>2, GoneFacts DEF Shape
      <3>2. QED BY <1>u, <3>1 DEF GoesOutside, Gone, Quiet, OutsidePCs
    <2>3. QED BY <2>1, <2>2 DEF ReconcileReady
  <1>2. RedisShape'
    <2>1. /\ TenantsOf(Existing) \subseteq Tenants
          /\ TenantsOf(In("published") \ held) \subseteq Tenants
          /\ In("running") \subseteq Tasks
      BY TenantsOfTasks DEF Existing, In
    <2>2. known' \subseteq Tenants /\ stable' \subseteq Tasks /\ active' \subseteq Tenants
      BY <2>1 DEF ReconcileReady, Shape, RedisShape
    <2>3. QED BY <1>u, <2>2 DEF Shape, RedisShape
  <1>3. QED BY <1>u, <1>1, <1>2, ShapeOfData DEF worldVars

LEMMA FindDivergenceStep ==
    ASSUME Shape, NEW p \in Runtimes, FindDivergence(p)
    PROVE  Shape' /\ GoesOutside(p)
  <1> p \in Procs BY DEF Procs
  <1>u. UNCHANGED <<lock, control, progress, redisData, startFence, journal, worldVars>>
    BY Unchanged DEF FindDivergence
  <1>1. faults' \in Bounds /\ faults'.lost = faults.lost
    BY DEF FindDivergence, Shape, WorldShape, Bounds
  <1>2. WorldShape' /\ RedisShape'
    BY <1>u, <1>1 DEF Shape, WorldShape, RedisShape, worldVars, redisData
  <1>3. Rows' /\ GoesOutside(p)
    <2>1. CASE Goto(p, "start")
      <3>1. Rows' /\ Moved(p, "start")
        BY <2>1, GotoFacts DEF Shape, AllPCs, OutsidePCs
      <3>2. QED BY <1>u, <1>1, <3>1 DEF FindDivergence, GoesOutside, Moved, Quiet, OutsidePCs
    <2>2. CASE Stops(p)
      <3>1. Rows' /\ Gone(p)
        BY <2>2, GoneFacts DEF Shape
      <3>2. QED BY <1>u, <1>1, <3>1 DEF GoesOutside, Gone, Quiet, OutsidePCs
    <2>3. QED BY <2>1, <2>2 DEF FindDivergence
  <1>4. QED BY <1>u, <1>2, <1>3 DEF Shape

LEMMA StopProcessStep ==
    ASSUME Shape, NEW p \in Procs, StopProcess(p)
    PROVE  Shape' /\ GoesOutside(p)
  <1>u. UNCHANGED <<lock, control, progress, redisData, journal, worldVars>>
    BY Unchanged DEF StopProcess
  <1>1. faults' \in Bounds /\ faults'.lost = faults.lost
    BY DEF StopProcess, Shape, WorldShape, Bounds
  <1>2. WorldShape' /\ RedisShape'
    BY <1>u, <1>1 DEF Shape, WorldShape, RedisShape, worldVars, redisData
  <1>3. Rows' /\ Gone(p)
    BY GoneFacts DEF StopProcess, Shape
  <1>4. startFence' \in {startFence, None}
    BY DEF StopProcess, ReleaseStartFence
  <1>5. QED
    BY <1>u, <1>1, <1>2, <1>3, <1>4 DEF GoesOutside, Gone, Quiet, OutsidePCs, Shape

(***************************************************************************)
(* The protocol over the two kinds of step.                                 *)
(***************************************************************************)
\* The control and the journal over a step that touches neither.
LEMMA QuietKeeps ==
    ASSUME ProtocolInv, Quiet
    PROVE  ControlOK' /\ JournalOK'
  BY DEF ProtocolInv, Quiet, ControlOK, ControlWellFormed, JournalOK, Unfinished,
         JournalGuardsReady, ForceIsResumable, MarkerAhead

\* The row of another process: its locks can only have been lost.
LEMMA OtherRow ==
    ASSUME NEW q \in Procs, RowOK(q), Quiet, run'[q] = run[q],
           Starting(q)' => Starting(q), Holds(q)' => Holds(q)
    PROVE  RowOK(q)'
  <1>1. RecordBehind(q)' /\ RecordAt(q)' /\ CompleteOK(q)'
    BY DEF RowOK, RecordBehind, RecordAt, CompleteOK, Quiet
  <1>2. StartOK(q)'
    BY DEF RowOK, StartOK, Quiet, Unfinished
  <1>3. BeginOK(q)'
    BY DEF RowOK, BeginOK, Quiet, Unfinished
  <1>4. QED BY <1>1, <1>2, <1>3 DEF RowOK

\* A pair of other processes.
LEMMA OtherPair ==
    ASSUME NEW a \in Procs, NEW b \in Procs, PairOK(a, b), journal' = journal,
           run'[a] = run[a], run'[b] = run[b],
           Starting(a)' => Starting(a), Holds(b)' => Holds(b)
    PROVE  PairOK(a, b)'
  BY DEF PairOK

LEMMA OutsideKeepsProtocol ==
    ASSUME Shape, ProtocolInv, NEW p \in Procs, GoesOutside(p)
    PROVE  ProtocolInv'
  <1>1. ControlOK' /\ JournalOK'
    BY QuietKeeps DEF GoesOutside
  <1>2. /\ \A q \in Procs \ {p} : run'[q] = run[q] /\ (Starting(q)' => Starting(q))
        /\ \A q \in Procs : Holds(q)' => Holds(q)
    BY Apart DEF GoesOutside, OnlyRow, Starting, Holds
  <1>3. ~Starting(p)' /\ run'[p].pc \notin HoldingPCs \cup OwnerPCs \cup {"complete", "finished"}
    BY DEF GoesOutside, Starting, OutsidePCs, HoldingPCs, OwnerPCs, RebuildPCs
  <1>4. \A q \in Procs \ {p} : RowOK(q)'
    BY <1>2, OtherRow DEF GoesOutside, ProtocolInv
  <1>5. RowOK(p)'
    <2>1. RecordBehind(p)'
      <3>1. run'[p].record \in {run[p].record, journal, NoRecord} /\ journal' = journal
        BY DEF GoesOutside, Quiet
      <3>2. RecordBehind(p) /\ JournalOK
        BY DEF ProtocolInv, RowOK
      <3>3. NoRecord.phase = "NONE" /\ NoRecord.forceDelete = FALSE
        BY DEF NoRecord
      <3>4. QED BY <3>1, <3>2, <3>3 DEF RecordBehind, JournalOK
    <2>2. RecordAt(p)' /\ StartOK(p)' /\ BeginOK(p)' /\ CompleteOK(p)'
      BY <1>3 DEF RecordAt, StartOK, BeginOK, CompleteOK, HoldingPCs, OwnerPCs
    <2>3. QED BY <2>1, <2>2 DEF RowOK
  <1>6. ASSUME NEW a \in Procs, NEW b \in Procs \ {a}
        PROVE  PairOK(a, b)'
    <2>1. PairOK(a, b) /\ PairOK(b, a)
      BY <1>6 DEF ProtocolInv
    <2>2. CASE a # p /\ b # p
      BY <1>2, <2>1, <2>2, OtherPair DEF GoesOutside, Quiet
    <2>3. CASE a = p
      BY <1>2, <1>3, <2>1, <2>3 DEF PairOK, GoesOutside
    <2>4. CASE b = p
      <3>1. run'[a] = run[a] /\ (Starting(a)' => Starting(a))
        BY <1>2, <2>4, <1>6
      <3>2. run'[a].token = run'[b].token => run'[a].token = None
        BY <2>1, <2>4, <3>1 DEF PairOK, GoesOutside
      <3>3. ~(Starting(a)' /\ Holds(b)')
        <4> SUFFICES ASSUME Starting(a)', Holds(b)' PROVE FALSE
          OBVIOUS
        <4>1. run[b].pc \in {"inspect", "recheck", "complete"}
          BY <1>2, <2>1, <3>1 DEF PairOK
        <4>2. run'[b].token = None
          BY <2>4, <4>1 DEF GoesOutside
        <4>3. QED BY <4>2 DEF Holds
      <3>4. ASSUME a \in Operators, Starting(a)', run'[a].pc \in {"check", "journal"},
                   run'[a].record.op # journal'.op
            PROVE  run'[b].record.op # run'[a].record.op
        <4>1. Starting(a) /\ run[a].pc \in {"check", "journal"} /\ journal' = journal
              /\ run[a].record.op # journal.op
          BY <3>1, <3>4 DEF GoesOutside, Quiet
        <4>2. run[b].record.op # run[a].record.op /\ run[a].record.op # None
          BY <2>1, <3>4, <4>1 DEF PairOK, ProtocolInv, RowOK, StartOK
        <4>3. QED BY <2>4, <3>1, <4>1, <4>2 DEF GoesOutside, NoRecord
      <3>5. QED BY <3>2, <3>3, <3>4 DEF PairOK
    <2>5. QED BY <2>2, <2>3, <2>4
  <1>7. QED BY <1>1, <1>4, <1>5, <1>6 DEF ProtocolInv

LEMMA OnKeepsProtocol ==
    ASSUME Shape, ProtocolInv, NEW p \in Procs, GoesOn(p)
    PROVE  ProtocolInv'
  <1>1. ControlOK' /\ JournalOK'
    BY QuietKeeps DEF GoesOn
  <1>2. /\ \A q \in Procs \ {p} : run'[q] = run[q] /\ Starting(q)' = Starting(q)
        /\ \A q \in Procs : Holds(q)' = Holds(q)
    BY DEF GoesOn, OnlyRow, Starting, Holds
  <1>3. /\ run[p].pc \notin HoldingPCs \cup {"complete", "finished"}
        /\ run'[p].pc \notin HoldingPCs \cup {"complete", "finished"}
    BY DEF GoesOn, HoldingPCs, OwnerPCs, RebuildPCs
  <1>4. \A q \in Procs \ {p} : RowOK(q)'
    BY <1>2, OtherRow DEF GoesOn, ProtocolInv
  <1>5. RowOK(p)'
    <2>1. RowOK(p)
      BY DEF ProtocolInv
    <2>2. RecordBehind(p)'
      BY <2>1 DEF RowOK, RecordBehind, GoesOn, Quiet
    <2>3. RecordAt(p)'
      BY <1>3, <2>1 DEF RowOK, RecordAt, GoesOn
    <2>4. StartOK(p)' /\ CompleteOK(p)'
      BY <1>3 DEF StartOK, CompleteOK, Starting, HoldingPCs
    <2>5. BeginOK(p)'
      BY <1>2, <1>3, <2>1 DEF RowOK, BeginOK, GoesOn, Quiet, Unfinished, HoldingPCs
    <2>6. QED BY <2>2, <2>3, <2>4, <2>5 DEF RowOK
  <1>6. ASSUME NEW a \in Procs, NEW b \in Procs \ {a}
        PROVE  PairOK(a, b)'
    <2>1. PairOK(a, b)
      BY <1>6 DEF ProtocolInv
    <2>2. CASE a # p /\ b # p
      BY <1>2, <2>1, <2>2, OtherPair DEF GoesOn, Quiet
    <2>3. CASE a = p
      <3>1. ~Starting(a)'
        BY <1>3, <2>3 DEF Starting
      <3>2. QED BY <1>2, <2>1, <2>3, <3>1 DEF PairOK, GoesOn
    <2>4. CASE b = p
      <3>1. run'[a] = run[a] /\ Starting(a)' = Starting(a) /\ Holds(b)' = Holds(b)
            /\ run'[b].token = run[b].token /\ run'[b].record = run[b].record
            /\ journal' = journal
        BY <1>2, <1>6, <2>4 DEF GoesOn, Quiet
      <3>2. run[b].pc \notin {"inspect", "recheck", "complete"}
        BY <1>3, <2>4 DEF HoldingPCs
      <3>3. QED BY <2>1, <3>1, <3>2 DEF PairOK
    <2>5. QED BY <2>2, <2>3, <2>4
  <1>7. QED BY <1>1, <1>4, <1>5, <1>6 DEF ProtocolInv

(***************************************************************************)
(* The steps of a start.                                                    *)
(***************************************************************************)
\* One process goes on or learns something; nothing else changes.
LEMMA MyRowKeeps ==
    ASSUME ProtocolInv, NEW p \in Procs, OnlyRow(p), Quiet, UNCHANGED <<lock, startFence>>,
           run'[p].token = run[p].token, RowOK(p)', Starting(p)' => Starting(p),
           \A q \in Procs \ {p} :
             /\ Starting(q) /\ Holds(p) => run'[p].pc \in {"inspect", "recheck", "complete"}
             /\ /\ q \in Operators /\ Starting(q) /\ run[q].pc \in {"check", "journal"}
                /\ run[q].record.op # journal.op
                => run'[p].record.op # run[q].record.op
             /\ /\ p \in Operators /\ Starting(p)' /\ run'[p].pc \in {"check", "journal"}
                /\ run'[p].record.op # journal.op
                => run[q].record.op # run'[p].record.op
    PROVE  ProtocolInv'
  <1>1. ControlOK' /\ JournalOK'
    BY QuietKeeps
  <1>2. /\ \A q \in Procs \ {p} : run'[q] = run[q] /\ Starting(q)' = Starting(q)
        /\ \A q \in Procs : Holds(q)' = Holds(q)
        /\ journal' = journal
    BY DEF OnlyRow, Starting, Holds, Quiet
  <1>3. \A q \in Procs \ {p} : RowOK(q)'
    BY <1>2, OtherRow DEF ProtocolInv
  <1>4. ASSUME NEW a \in Procs, NEW b \in Procs \ {a}
        PROVE  PairOK(a, b)'
    <2>1. PairOK(a, b)
      BY <1>4 DEF ProtocolInv
    <2>2. CASE a # p /\ b # p
      BY <1>2, <2>1, <2>2, OtherPair
    <2>3. CASE a = p
      <3>1. run'[b] = run[b] /\ Holds(b)' = Holds(b) /\ run'[a].token = run[a].token
        BY <1>2, <1>4, <2>3
      <3>2. Starting(a)' => Starting(a)
        BY <2>3
      <3>3. /\ a \in Operators /\ Starting(a)' /\ run'[a].pc \in {"check", "journal"}
            /\ run'[a].record.op # journal'.op
            => run'[b].record.op # run'[a].record.op
        BY <1>2, <1>4, <2>3
      <3>4. QED BY <2>1, <3>1, <3>2, <3>3 DEF PairOK
    <2>4. CASE b = p
      <3>1. run'[a] = run[a] /\ Starting(a)' = Starting(a) /\ Holds(b)' = Holds(b)
            /\ run'[b].token = run[b].token
        BY <1>2, <1>4, <2>4
      <3>2. Starting(a) /\ Holds(b) => run'[b].pc \in {"inspect", "recheck", "complete"}
        BY <1>4, <2>4
      <3>3. /\ a \in Operators /\ Starting(a)' /\ run'[a].pc \in {"check", "journal"}
            /\ run'[a].record.op # journal'.op
            => run'[b].record.op # run'[a].record.op
        BY <1>2, <1>4, <2>4, <3>1
      <3>4. QED BY <2>1, <3>1, <3>2, <3>3 DEF PairOK
    <2>5. QED BY <2>2, <2>3, <2>4
  <1>5. QED BY <1>1, <1>3, <1>4 DEF ProtocolInv

\* A new token is in nobody's hands.
LEMMA NextTokenFresh ==
    ASSUME FreshTokens # {}
    PROVE  /\ NextToken \in Tokens
           /\ NextToken \notin {lock, control.epoch, control.op, control.last, journal.op}
           /\ \A q \in Procs : NextToken \notin {run[q].token, run[q].epoch, run[q].record.op}
  <1>1. NextToken \in FreshTokens
    BY DEF NextToken
  <1>2. QED BY <1>1 DEF FreshTokens, TokensInUse

LEMMA AcquireRawLockStep ==
    ASSUME Shape, ProtocolInv, NEW p \in Procs, AcquireRawLock(p)
    PROVE  Shape' /\ ProtocolInv'
  <1>u. /\ UNCHANGED <<control, progress, redisData, journal, worldVars, faults>>
        /\ FreshTokens # {} /\ run[p].pc = "locking"
    BY DEF AcquireRawLock
  <1>1. CASE lock # None
    <2>1. LeavesStart(p) /\ ReleaseStartFence(p) /\ UNCHANGED lock
      BY <1>1 DEF AcquireRawLock
    <2>2. Shape' /\ GoesOutside(p)
      BY <1>u, <2>1, GoesAway DEF ReleaseStartFence
    <2>3. QED BY <2>2, OutsideKeepsProtocol
  <1>2. CASE lock = None
    <2> DEFINE r == [run[p] EXCEPT !.pc = "inspect", !.token = NextToken]
    <2>1. run' = [run EXCEPT ![p] = r] /\ lock' = NextToken /\ UNCHANGED startFence
      BY <1>2 DEF AcquireRawLock, Shape, Rows, Row
    <2>2. NextToken \in Tokens /\ NextToken # None
      BY <1>u, NextTokenFresh, Apart
    <2>3. r \in Row /\ r.pc = "inspect" /\ r.token = NextToken /\ r.record = run[p].record
      BY <2>2 DEF Shape, Rows, Row, AllPCs, HoldingPCs, Token
    <2>4. Rows' /\ OnlyRow(p) /\ run'[p] = r
      <3> HIDE DEF r
      <3>1. QED BY <2>1, <2>2, <2>3, RowsFromOne DEF Shape
    <2>5. run'[p].pc = "inspect" /\ run'[p].token = NextToken /\ run'[p].record = run[p].record
      BY <2>3, <2>4
    <2> HIDE DEF r
    <2>6. Shape'
      <3>1. RedisShape' /\ WorldShape'
        BY <1>u, <2>1, <2>2 DEF Shape, RedisShape, WorldShape, redisData, worldVars, Token
      <3>2. QED BY <1>u, <2>1, <2>4, <3>1 DEF Shape
    <2>7. Quiet
      BY <1>u DEF Quiet
    <2>8. ControlOK' /\ JournalOK'
      BY <2>7, QuietKeeps
    <2>9. \A q \in Procs \ {p} : /\ run'[q] = run[q] /\ Starting(q)' = Starting(q)
                                 /\ ~Holds(q)'
      BY <1>u, <2>1, <2>4, NextTokenFresh DEF OnlyRow, Starting, Holds
    <2>10. \A q \in Procs \ {p} : RowOK(q)'
      BY <2>7, <2>9, OtherRow DEF ProtocolInv
    <2>11. RowOK(p)'
      <3>1. RecordBehind(p)'
        BY <2>5, <2>7 DEF ProtocolInv, RowOK, RecordBehind, Quiet
      <3>2. RecordAt(p)' /\ StartOK(p)' /\ BeginOK(p)' /\ CompleteOK(p)'
        BY <2>5 DEF RecordAt, StartOK, BeginOK, CompleteOK, OwnerPCs, RebuildPCs
      <3>3. QED BY <3>1, <3>2 DEF RowOK
    <2>12. ASSUME NEW a \in Procs, NEW b \in Procs \ {a}
           PROVE  PairOK(a, b)'
      <3>1. PairOK(a, b) /\ journal' = journal
        BY <1>u, <2>12 DEF ProtocolInv
      <3>2. run'[a].token = run'[b].token => run'[a].token = None
        BY <1>u, <2>5, <2>9, <2>12, <3>1, NextTokenFresh DEF PairOK
      <3>3. Starting(a)' /\ Holds(b)' => run'[b].pc \in {"inspect", "recheck", "complete"}
        BY <2>5, <2>9
      <3>4. /\ a \in Operators /\ Starting(a)' /\ run'[a].pc \in {"check", "journal"}
            /\ run'[a].record.op # journal'.op
            => run'[b].record.op # run'[a].record.op
        <4>1. CASE a = p
          BY <2>5, <4>1
        <4>2. CASE a # p
          BY <2>5, <2>9, <2>12, <3>1, <4>2 DEF PairOK
        <4>3. QED BY <4>1, <4>2
      <3>5. QED BY <3>2, <3>3, <3>4 DEF PairOK
    <2>13. QED BY <2>6, <2>8, <2>10, <2>11, <2>12 DEF ProtocolInv
  <1>3. QED BY <1>1, <1>2

LEMMA InspectRecoveryStartStep ==
    ASSUME Shape, ProtocolInv, NEW p \in Procs, InspectRecoveryStart(p)
    PROVE  Shape' /\ ProtocolInv'
  <1>u. UNCHANGED <<control, progress, redisData, journal, worldVars, faults>>
    BY DEF InspectRecoveryStart
  <1>1. CASE Stops(p) /\ StartRefused(p)
    BY <1>1, <1>u, RefusedFacts, GoesAway, OutsideKeepsProtocol
  <1>2. ASSUME UNCHANGED <<lock, startFence>>, NEW label \in {"recheck", "complete"},
               Goto(p, label),
               label = "complete" =>
                 /\ run[p].record.phase = "READY_COMMITTED" /\ control.last = run[p].record.op
        PROVE  Shape' /\ ProtocolInv'
    <2>0. run[p].pc = "inspect" /\ p \in Runtimes /\ p \notin Operators
      BY RecoveryAssumption DEF InspectRecoveryStart
    <2>1. Rows' /\ Moved(p, label)
      BY <1>2, <2>0, GotoFacts DEF Shape, AllPCs, HoldingPCs, OutsidePCs
    <2>2. Shape' /\ Quiet
      BY <1>u, <1>2, <2>1, ShapeKept DEF Shape
    <2>3. RowOK(p)'
      <3>1. RecordBehind(p)'
        BY <1>u, <2>1 DEF Moved, ProtocolInv, RowOK, RecordBehind
      <3>2. RecordAt(p)' /\ StartOK(p)' /\ BeginOK(p)' /\ CompleteOK(p)'
        BY <1>u, <1>2, <2>0, <2>1
        DEF Moved, RecordAt, StartOK, BeginOK, CompleteOK, OwnerPCs, RebuildPCs
      <3>3. QED BY <3>1, <3>2 DEF RowOK
    <2>4. \A q \in Procs \ {p} : PairOK(q, p)
      BY DEF ProtocolInv
    <2>5. Starting(p)' => Starting(p)
      BY <1>2, <2>0 DEF Starting, HoldingPCs
    <2>6. ProtocolInv'
      BY <1>2, <2>0, <2>1, <2>2, <2>3, <2>4, <2>5, MyRowKeeps DEF Moved, PairOK
    <2>7. QED BY <2>2, <2>6
  <1>3. QED BY <1>1, <1>2 DEF InspectRecoveryStart, ControlTerminal

LEMMA RecheckJournalStep ==
    ASSUME Shape, ProtocolInv, NEW p \in Runtimes, RecheckJournal(p)
    PROVE  Shape' /\ ProtocolInv'
  <1> p \in Procs BY DEF Procs
  <1>u. UNCHANGED <<control, progress, redisData, journal, worldVars, faults>>
    BY DEF RecheckJournal
  <1>1. CASE Unfinished(journal)
    <2>1. Stops(p) /\ StartRefused(p)
      BY <1>1 DEF RecheckJournal
    <2>2. QED BY <1>u, <2>1, RefusedFacts, GoesAway, OutsideKeepsProtocol
  <1>2. CASE ~Unfinished(journal)
    <2>0. /\ run[p].pc = "recheck" /\ startFence = p /\ p \notin Operators
          /\ Goto(p, "begin") /\ UNCHANGED <<lock, startFence>>
      BY <1>2, RecoveryAssumption DEF RecheckJournal
    <2>1. Rows' /\ Moved(p, "begin")
      BY <2>0, GotoFacts DEF Shape, AllPCs, HoldingPCs, OutsidePCs
    <2>2. Shape' /\ Quiet
      BY <1>u, <2>0, <2>1, ShapeKept DEF Shape
    <2>3. RowOK(p)'
      <3>1. RecordBehind(p)'
        BY <1>u, <2>1 DEF Moved, ProtocolInv, RowOK, RecordBehind
      <3>2. RecordAt(p)' /\ StartOK(p)' /\ BeginOK(p)' /\ CompleteOK(p)'
        BY <1>u, <1>2, <2>0, <2>1
        DEF Moved, RecordAt, StartOK, BeginOK, CompleteOK, Unfinished
      <3>3. QED BY <3>1, <3>2 DEF RowOK
    <2>4. \A q \in Procs \ {p} : PairOK(q, p) /\ ~Starting(q)
      BY <2>0 DEF ProtocolInv, Starting
    <2>5. Starting(p)' => Starting(p)
      BY <2>0 DEF Starting, HoldingPCs
    <2>6. ProtocolInv'
      BY <2>0, <2>1, <2>2, <2>3, <2>4, <2>5, MyRowKeeps DEF Moved
    <2>7. QED BY <2>2, <2>6
  <1>3. QED BY <1>1, <1>2

(***************************************************************************)
(* The steps of an operator up to its Begin.                                *)
(***************************************************************************)
\* A start takes up another record, or makes one.
LEMMA TakesRecord ==
    ASSUME Shape, NEW p \in Procs, run[p].pc \in {"inspect", "journal"},
           NEW label \in {"check", "begin", "complete"}, NEW rec \in Record,
           run' = [run EXCEPT ![p].pc = label, ![p].record = rec],
           UNCHANGED <<lock, control, progress, redisData, startFence, journal, worldVars, faults>>
    PROVE  /\ Shape' /\ Quiet /\ OnlyRow(p)
           /\ run'[p].pc = label /\ run'[p].token = run[p].token /\ run'[p].record = rec
  <1> DEFINE r == [run[p] EXCEPT !.pc = label, !.record = rec]
  <1>1. run' = [run EXCEPT ![p] = r]
    BY DEF Shape, Rows, Row
  <1>2. r \in Row /\ r.pc = label /\ r.token = run[p].token /\ r.record = rec
    BY DEF Shape, Rows, Row, AllPCs, HoldingPCs
  <1>3. run[p].token # None
    BY DEF Shape, Rows, RowShape, OutsidePCs
  <1>4. Rows' /\ OnlyRow(p) /\ run'[p] = r
    <2> HIDE DEF r
    <2>1. QED BY <1>1, <1>2, <1>3, RowsFromOne DEF Shape
  <1>5. run'[p].pc = label /\ run'[p].token = run[p].token /\ run'[p].record = rec
    <2> HIDE DEF r
    <2>1. QED BY <1>2, <1>4
  <1>6. Shape' /\ Quiet
    BY <1>4, ShapeKept DEF Shape
  <1>7. QED BY <1>4, <1>5, <1>6

\* The operations that forceStartAllowed resumes.
LEMMA ResumeFacts ==
    ASSUME ProtocolInv, ForceResume
    PROVE  /\ control.state # "READY" /\ Unfinished(journal)
           /\ journal.op \notin {None, control.last}
  <1>1. ControlOK /\ JournalOK
    BY DEF ProtocolInv
  <1>2. control.state # "READY" /\ Unfinished(journal) /\ journal.op # None
    BY <1>1 DEF ForceResume, Unfinished, JournalOK
  <1>3. journal.op # control.last
    BY <1>1, <1>2 DEF ForceResume, Unfinished, JournalOK, ControlOK, ControlWellFormed
  <1>4. QED BY <1>2, <1>3

LEMMA ForceStartAllowedStep ==
    ASSUME Shape, ProtocolInv, NEW o \in Operators, ForceStartAllowed(o)
    PROVE  Shape' /\ ProtocolInv'
  <1> o \in Procs BY DEF Procs
  <1>u. /\ UNCHANGED <<control, progress, redisData, journal, worldVars, faults>>
        /\ run[o].pc = "inspect" /\ startFence = o /\ FreshTokens # {} /\ Starting(o)
    BY DEF ForceStartAllowed, Starting, HoldingPCs
  <1>q. \A q \in Procs \ {o} : ~Starting(q) /\ PairOK(o, q)
    BY <1>u DEF Starting, ProtocolInv
  <1>1. CASE BecomesIdle(o) /\ StartRefused(o)
    BY <1>1, <1>u, RefusedFacts, GoesAway, OutsideKeepsProtocol
  <1>2. CASE /\ run' = [run EXCEPT ![o].pc = "complete", ![o].record = journal]
             /\ UNCHANGED <<lock, startFence>>
             /\ journal.phase = "READY_COMMITTED" /\ ControlTerminal(journal)
    <2>1. /\ Shape' /\ Quiet /\ OnlyRow(o) /\ run'[o].pc = "complete"
          /\ run'[o].token = run[o].token /\ run'[o].record = journal
      BY <1>2, <1>u, TakesRecord DEF Shape
    <2>2. RowOK(o)'
      <3>1. RecordBehind(o)'
        BY <1>u, <2>1 DEF ProtocolInv, JournalOK, RecordBehind
      <3>2. RecordAt(o)' /\ StartOK(o)' /\ BeginOK(o)' /\ CompleteOK(o)'
        BY <1>2, <1>u, <2>1
        DEF RecordAt, StartOK, BeginOK, CompleteOK, OwnerPCs, RebuildPCs, ControlTerminal
      <3>3. QED BY <3>1, <3>2 DEF RowOK
    <2>3. ProtocolInv'
      BY <1>2, <1>u, <1>q, <2>1, <2>2, MyRowKeeps
    <2>4. QED BY <2>1, <2>3
  <1>3. CASE /\ run' = [run EXCEPT ![o].pc = "check",
                            ![o].record = [NoRecord EXCEPT !.phase = "ACTIVE",
                                                           !.op = NextToken]]
             /\ UNCHANGED <<lock, startFence>> /\ ForceFresh
    <2> DEFINE rec == [NoRecord EXCEPT !.phase = "ACTIVE", !.op = NextToken]
    <2>1. /\ rec \in Record /\ rec.phase = "ACTIVE" /\ rec.op = NextToken
          /\ rec.forceDelete = FALSE
      BY <1>u, NextTokenFresh DEF NoRecord, Record, Token
    <2>2. /\ Shape' /\ Quiet /\ OnlyRow(o) /\ run'[o].pc = "check"
          /\ run'[o].token = run[o].token /\ run'[o].record = rec
      <3> HIDE DEF rec
      <3>1. run' = [run EXCEPT ![o].pc = "check", ![o].record = rec]
        BY <1>3 DEF rec
      <3>2. QED BY <1>3, <1>u, <2>1, <3>1, TakesRecord
    <2> HIDE DEF rec
    <2>3. rec.op \notin {None, control.last, journal.op}
      BY <1>u, <2>1, NextTokenFresh, Apart
    <2>4. RowOK(o)'
      <3>1. RecordBehind(o)' /\ RecordAt(o)' /\ BeginOK(o)' /\ CompleteOK(o)'
        BY <1>u, <2>1, <2>2, <2>3
        DEF RecordBehind, RecordAt, BeginOK, CompleteOK, OwnerPCs, RebuildPCs
      <3>2. StartOK(o)'
        BY <1>3, <1>u, <2>1, <2>2, <2>3 DEF StartOK, ForceFresh, Unfinished
      <3>3. QED BY <3>1, <3>2 DEF RowOK
    <2>5. \A q \in Procs \ {o} : run[q].record.op # rec.op
      BY <1>u, <2>1, NextTokenFresh
    <2>6. ProtocolInv'
      BY <1>3, <1>u, <1>q, <2>2, <2>4, <2>5, MyRowKeeps
    <2>7. QED BY <2>2, <2>6
  <1>4. CASE /\ run' = [run EXCEPT ![o].pc = "check", ![o].record = journal]
             /\ UNCHANGED <<lock, startFence>> /\ ForceResume
    <2>1. /\ Shape' /\ Quiet /\ OnlyRow(o) /\ run'[o].pc = "check"
          /\ run'[o].token = run[o].token /\ run'[o].record = journal
      BY <1>4, <1>u, TakesRecord DEF Shape
    <2>2. RowOK(o)'
      <3>1. RecordBehind(o)'
        BY <1>u, <2>1 DEF ProtocolInv, JournalOK, RecordBehind
      <3>2. RecordAt(o)' /\ BeginOK(o)' /\ CompleteOK(o)'
        BY <1>u, <2>1 DEF RecordAt, BeginOK, CompleteOK, OwnerPCs, RebuildPCs
      <3>3. StartOK(o)'
        BY <1>4, <1>u, <2>1, ResumeFacts DEF StartOK, Unfinished
      <3>4. QED BY <3>1, <3>2, <3>3 DEF RowOK
    <2>3. ProtocolInv'
      <3>1. run'[o].record.op = journal.op /\ Starting(o)
        BY <1>u, <2>1
      <3>2. QED BY <1>4, <1>u, <1>q, <2>1, <2>2, <3>1, MyRowKeeps
    <2>4. QED BY <2>1, <2>3
  <1>5. QED
    <2>1. CASE journal.phase = "READY_COMMITTED" /\ ControlTerminal(journal)
      <3>1. ~ForceFresh
        BY <2>1 DEF ForceFresh, ControlTerminal
      <3>2. ~ForceResume
        BY <2>1 DEF ForceResume, ControlTerminal
      <3>3. QED BY <1>2, <2>1, <3>1, <3>2 DEF ForceStartAllowed
    <2>2. CASE ForceFresh /\ ~(journal.phase = "READY_COMMITTED" /\ ControlTerminal(journal))
      <3>1. ~ForceResume
        BY <2>2 DEF ForceFresh, ForceResume, Unfinished
      <3>2. QED BY <1>3, <2>2, <3>1 DEF ForceStartAllowed
    <2>3. CASE /\ ForceResume /\ ~ForceFresh
               /\ ~(journal.phase = "READY_COMMITTED" /\ ControlTerminal(journal))
      BY <1>4, <2>3 DEF ForceStartAllowed
    <2>4. CASE /\ ~ForceResume /\ ~ForceFresh
               /\ ~(journal.phase = "READY_COMMITTED" /\ ControlTerminal(journal))
      BY <1>1, <2>4 DEF ForceStartAllowed
    <2>5. QED BY <2>1, <2>2, <2>3, <2>4

LEMMA CheckRecoveryLockStep ==
    ASSUME Shape, ProtocolInv, NEW o \in Operators, CheckRecoveryLock(o)
    PROVE  Shape' /\ ProtocolInv'
  <1> o \in Procs BY DEF Procs
  <1>u. /\ UNCHANGED <<lock, control, progress, redisData, startFence, journal, worldVars, faults>>
        /\ run[o].pc = "check" /\ Goto(o, "journal")
    BY Unchanged DEF CheckRecoveryLock
  <1>1. Rows' /\ Moved(o, "journal")
    BY <1>u, GotoFacts DEF Shape, AllPCs, HoldingPCs, OutsidePCs
  <1>2. Shape' /\ Quiet
    BY <1>u, <1>1, ShapeKept DEF Shape
  <1>3. RowOK(o)'
    <2>1. RowOK(o)
      BY DEF ProtocolInv
    <2>2. RecordBehind(o)'
      BY <1>u, <1>1, <2>1 DEF RowOK, RecordBehind, Moved
    <2>3. RecordAt(o)' /\ BeginOK(o)' /\ CompleteOK(o)'
      BY <1>1 DEF RecordAt, BeginOK, CompleteOK, OwnerPCs, RebuildPCs, Moved
    <2>4. StartOK(o)'
      BY <1>u, <1>1, <2>1 DEF RowOK, StartOK, Moved, Starting, HoldingPCs, Unfinished
    <2>5. QED BY <2>2, <2>3, <2>4 DEF RowOK
  <1>4. Starting(o)' <=> Starting(o)
    BY <1>u, <1>1 DEF Moved, Starting, HoldingPCs
  <1>5. \A q \in Procs \ {o} : PairOK(q, o) /\ PairOK(o, q)
    BY DEF ProtocolInv
  <1>6. ProtocolInv'
    BY <1>u, <1>1, <1>2, <1>3, <1>4, <1>5, MyRowKeeps DEF PairOK, Moved
  <1>7. QED BY <1>2, <1>6

LEMMA BeginSpecialStep ==
    ASSUME Shape, ProtocolInv, NEW o \in Operators, BeginSpecial(o)
    PROVE  Shape' /\ ProtocolInv'
  <1> o \in Procs BY DEF Procs
  <1>u. /\ UNCHANGED <<control, progress, redisData, worldVars, faults>>
        /\ run[o].pc = "journal" /\ startFence = o /\ Starting(o)
    BY DEF BeginSpecial, Starting, HoldingPCs
  <1>s. /\ control.state # "READY" /\ Unfinished(run[o].record)
        /\ run[o].record.op \notin {None, control.last}
        /\ run[o].record.op # journal.op => control.kind # "FORCE_REBUILD"
    BY <1>u DEF ProtocolInv, RowOK, StartOK
  <1>q. \A q \in Procs \ {o} : ~Starting(q) /\ PairOK(o, q)
    BY <1>u DEF Starting, ProtocolInv
  <1>1. CASE BecomesIdle(o) /\ StartRefused(o) /\ UNCHANGED journal
    BY <1>1, <1>u, RefusedFacts, GoesAway, OutsideKeepsProtocol
  <1>2. CASE /\ run' = [run EXCEPT ![o].pc = "begin", ![o].record = journal]
             /\ UNCHANGED <<lock, startFence, journal>>
             /\ Unfinished(journal) /\ journal.op = run[o].record.op
    <2>1. /\ Shape' /\ Quiet /\ OnlyRow(o) /\ run'[o].pc = "begin"
          /\ run'[o].token = run[o].token /\ run'[o].record = journal
      BY <1>2, <1>u, TakesRecord DEF Shape
    <2>2. RowOK(o)'
      <3>1. RecordBehind(o)'
        BY <1>2, <2>1 DEF ProtocolInv, JournalOK, RecordBehind
      <3>2. RecordAt(o)' /\ StartOK(o)' /\ CompleteOK(o)'
        BY <1>2, <1>s, <2>1
        DEF RecordAt, StartOK, CompleteOK, OwnerPCs, RebuildPCs, Unfinished
      <3>3. BeginOK(o)'
        BY <1>2, <1>s, <1>u, <2>1, RecoveryAssumption DEF BeginOK, Unfinished
      <3>4. QED BY <3>1, <3>2, <3>3 DEF RowOK
    <2>3. ProtocolInv'
      BY <1>2, <1>u, <1>q, <2>1, <2>2, MyRowKeeps
    <2>4. QED BY <2>1, <2>3
  <1>3. CASE /\ ~Unfinished(journal) /\ journal.op # run[o].record.op
             /\ journal' = run[o].record /\ Goto(o, "begin")
             /\ UNCHANGED <<lock, startFence>>
    <2>1. Rows' /\ Moved(o, "begin")
      BY <1>3, <1>u, GotoFacts DEF Shape, AllPCs, HoldingPCs, OutsidePCs
    <2>2. Shape'
      <3>1. journal' \in Record
        BY <1>3 DEF Shape, Rows, Row
      <3>2. RedisShape' /\ WorldShape'
        BY <1>3, <1>u DEF Shape, RedisShape, WorldShape, redisData, worldVars
      <3>3. QED BY <1>3, <2>1, <3>1, <3>2 DEF Shape
    <2>3. ControlOK' /\ JournalOK'
      <3>1. ControlOK'
        BY <1>u DEF ProtocolInv, ControlOK, ControlWellFormed
      <3>2. RecordBehind(o)
        BY DEF ProtocolInv, RowOK
      <3>3. JournalOK'
        BY <1>3, <1>s, <1>u, <3>2
        DEF JournalOK, Unfinished, JournalGuardsReady, ForceIsResumable, RecordBehind
      <3>4. QED BY <3>1, <3>3
    <2>4. \A q \in Procs \ {o} :
             /\ run'[q] = run[q] /\ ~Starting(q)' /\ Holds(q)' = Holds(q)
             /\ run[q].record.op # journal'.op
             /\ Holds(q) => run[q].pc \in {"inspect", "recheck", "complete"}
      <3>1. \A q \in Procs \ {o} : run'[q] = run[q]
        BY <2>1 DEF Moved, OnlyRow
      <3>2. QED BY <1>3, <1>q, <1>u, <3>1 DEF Starting, Holds, PairOK
    <2>5. \A q \in Procs \ {o} : RowOK(q)'
      <3>1. SUFFICES ASSUME NEW q \in Procs \ {o} PROVE RowOK(q)'
        OBVIOUS
      <3>2. RowOK(q)
        BY DEF ProtocolInv
      <3>3. RecordBehind(q)' /\ RecordAt(q)' /\ CompleteOK(q)'
        BY <2>4, <3>2 DEF RowOK, RecordBehind, RecordAt, CompleteOK
      <3>4. StartOK(q)'
        BY <2>4 DEF StartOK
      <3>5. BeginOK(q)'
        BY <2>4 DEF BeginOK, OwnerPCs, RebuildPCs
      <3>6. QED BY <3>3, <3>4, <3>5 DEF RowOK
    <2>6. RowOK(o)'
      <3>1. run'[o].pc = "begin" /\ run'[o].record = run[o].record /\ journal' = run[o].record
            /\ o \notin Runtimes
        BY <1>3, <2>1, RecoveryAssumption DEF Moved
      <3>2. RecordBehind(o)'
        BY <3>1 DEF ProtocolInv, RowOK, RecordBehind
      <3>3. RecordAt(o)' /\ StartOK(o)' /\ CompleteOK(o)'
        BY <1>s, <3>1
        DEF RecordAt, StartOK, CompleteOK, OwnerPCs, RebuildPCs, Unfinished
      <3>4. BeginOK(o)'
        BY <1>s, <1>u, <3>1 DEF BeginOK, Unfinished
      <3>5. QED BY <3>2, <3>3, <3>4 DEF RowOK
    <2>7. ASSUME NEW a \in Procs, NEW b \in Procs \ {a}
          PROVE  PairOK(a, b)'
      <3>1. PairOK(a, b)
        BY <2>7 DEF ProtocolInv
      <3>2. run'[a].token = run[a].token /\ run'[b].token = run[b].token
        BY <2>1, <2>4 DEF Moved
      <3>3. CASE a = o
        BY <2>1, <2>4, <2>7, <3>1, <3>2, <3>3 DEF PairOK, Moved
      <3>4. CASE a # o
        BY <2>4, <3>1, <3>2, <3>4 DEF PairOK
      <3>5. QED BY <3>3, <3>4
    <2>8. QED BY <2>2, <2>3, <2>5, <2>6, <2>7 DEF ProtocolInv
  <1>4. QED BY <1>1, <1>2, <1>3 DEF BeginSpecial

(***************************************************************************)
(* redisBeginRecoveryScript.                                                *)
(***************************************************************************)
\* Nobody else is starting under the fence while p holds the lock at such a place.
LEMMA NobodyStarts ==
    ASSUME ProtocolInv, NEW p \in Procs, Holds(p), run[p].pc \in OwnerPCs \cup {"begin"}
    PROVE  \A q \in Procs \ {p} : ~Starting(q)
  <1>1. run[p].pc \notin {"inspect", "recheck", "complete"}
    BY DEF OwnerPCs, RebuildPCs
  <1>2. QED BY <1>1 DEF ProtocolInv, PairOK

\* What the script does when it accepts.
Begins(p) ==
    /\ run[p].pc = "begin" /\ lock = run[p].token
    /\ BeginInitializes(p) \/ BeginTakesOver(p)
    /\ control' = [state |-> "RECOVERING", epoch |-> run[p].token,
                   kind |-> KindOf(p), op |-> OpOf(p), last |-> control.last]
    /\ progress' = IF BeginInitializes(p) THEN NoProgress ELSE progress
    /\ late' = {}
    /\ OnlyRow(p)
    /\ \/ Moved(p, IF p \in Operators THEN "wait" ELSE "drain") /\ startFence = p
       \/ Gone(p)
    /\ startFence' \in {startFence, None} /\ ~Starting(p)'
    /\ UNCHANGED <<lock, redisData, journal, task, publishing, admitted, held, returned, faults>>

LEMMA BeginsShape ==
    ASSUME Shape, NEW p \in Procs, BeginRecovery(p)
    PROVE  Shape' /\ (GoesOutside(p) \/ Begins(p))
  <1>u. /\ UNCHANGED <<redisData, journal, task, publishing, admitted, held, returned, faults>>
        /\ run[p].pc = "begin" /\ lock = run[p].token
    BY DEF BeginRecovery
  <1>1. CASE ~(BeginInitializes(p) \/ BeginTakesOver(p))
    <2>1. LeavesStart(p) /\ StartRefused(p) /\ UNCHANGED <<control, progress, late>>
      BY <1>1 DEF BeginRecovery
    <2>2. QED BY <1>u, <2>1, RefusedFacts, GoesAway DEF worldVars
  <1>2. CASE BeginInitializes(p) \/ BeginTakesOver(p)
    <2>1. /\ control' = [state |-> "RECOVERING", epoch |-> run[p].token,
                         kind |-> KindOf(p), op |-> OpOf(p), last |-> control.last]
          /\ progress' = IF BeginInitializes(p) THEN NoProgress ELSE progress
          /\ late' = {} /\ lock' = lock
          /\ IF startFence = p
               THEN Goto(p, IF p \in Operators THEN "wait" ELSE "drain")
               ELSE LeavesStart(p)
          /\ startFence' \in {startFence, None} /\ startFence' # p
      BY <1>2, Apart DEF BeginRecovery, ReleaseStartFence
    <2>2. Rows' /\ OnlyRow(p) /\ run'[p].pc \notin HoldingPCs
          /\ \/ Moved(p, IF p \in Operators THEN "wait" ELSE "drain") /\ startFence = p
             \/ Gone(p)
      <3>1. CASE startFence = p
        <4> DEFINE label == IF p \in Operators THEN "wait" ELSE "drain"
        <4>1. label \in {"wait", "drain"} /\ Goto(p, label)
          BY <2>1, <3>1
        <4> HIDE DEF label
        <4>2. Rows' /\ Moved(p, label)
          BY <1>u, <4>1, GotoFacts DEF Shape, AllPCs, OwnerPCs, RebuildPCs, OutsidePCs
        <4>3. QED BY <3>1, <4>1, <4>2 DEF label, Moved, HoldingPCs
      <3>2. CASE startFence # p
        <4>1. Rows' /\ Gone(p)
          BY <2>1, <3>2, GoneFacts DEF Shape
        <4>2. QED BY <4>1 DEF Gone, HoldingPCs
      <3>3. QED BY <3>1, <3>2
    <2>3. RedisShape' /\ WorldShape'
      <3>1. control' \in Controls
        <4>1. KindOf(p) \in {"NORMAL", "FORCE_REBUILD"} /\ OpOf(p) \in Token
          BY Apart DEF KindOf, OpOf, Shape, Rows, Row, Record
        <4>2. run[p].token \in Token /\ control.last \in Token
          BY DEF Shape, Rows, Row, RedisShape, Controls
        <4>3. QED BY <2>1, <4>1, <4>2 DEF Controls
      <3>2. progress' \in Progresses
        BY <2>1 DEF Shape, RedisShape, NoProgress, NoMark, Progresses, Mark
      <3>3. QED
        BY <1>u, <2>1, <3>1, <3>2 DEF Shape, RedisShape, WorldShape, redisData
    <2>4. Shape'
      BY <1>u, <2>1, <2>2, <2>3 DEF Shape
    <2>5. ~Starting(p)'
      BY <2>2 DEF Starting
    <2>6. QED BY <1>2, <1>u, <2>1, <2>2, <2>4, <2>5 DEF Begins
  <1>3. QED BY <1>1, <1>2

LEMMA BeginsProtocol ==
    ASSUME Shape, ProtocolInv, NEW p \in Procs, Begins(p)
    PROVE  ProtocolInv'
  <1>1. Holds(p)
    BY DEF Begins, Holds, Shape, Rows, RowShape, OutsidePCs
  <1>2. /\ RowOK(p) /\ RecordAt(p) /\ BeginOK(p) /\ JournalOK /\ ControlOK
        /\ p \in Runtimes \/ p \in Operators
    BY DEF ProtocolInv, RowOK, Procs
  <1>3. /\ p \in Operators =>
             /\ run[p].record.op = journal.op /\ journal.op \notin {None, control.last}
             /\ ~faults.lost => Unfinished(journal)
        /\ p \in Runtimes => ~Unfinished(journal)
    BY <1>1, <1>2 DEF Begins, BeginOK, RecordAt
  <1>4. /\ p \in Operators => KindOf(p) = "FORCE_REBUILD" /\ OpOf(p) = journal.op
        /\ p \notin Operators => KindOf(p) = "NORMAL" /\ OpOf(p) = None
    BY <1>3 DEF KindOf, OpOf
  <1>5. /\ control'.state = "RECOVERING" /\ control'.epoch = run[p].token
        /\ control'.kind = KindOf(p) /\ control'.op = OpOf(p) /\ control'.last = control.last
        /\ journal' = journal /\ faults' = faults /\ lock' = lock
    BY DEF Begins
  <1>6. ControlOK'
    BY <1>1, <1>3, <1>4, <1>5 DEF ControlOK, ControlWellFormed, Holds
  <1>7. JournalOK'
    <2>1. p \in Operators /\ ~faults.lost => ~MarkerAhead'
      <3>1. CASE BeginInitializes(p)
        BY <3>1 DEF Begins, NoProgress, MarkerAhead
      <3>2. CASE ~BeginInitializes(p)
        BY <1>2, <1>4, <1>5, <3>2
        DEF Begins, BeginTakesOver, MarkerAhead, JournalOK, ForceIsResumable
      <3>3. QED BY <3>1, <3>2
    <2>2. QED
      BY <1>2, <1>3, <1>4, <1>5, <2>1
      DEF JournalOK, Unfinished, JournalGuardsReady, ForceIsResumable
  <1>8. \A q \in Procs \ {p} : /\ run'[q] = run[q] /\ ~Starting(q)'
                               /\ Holds(q)' = Holds(q)
    <2>1. \A q \in Procs \ {p} : ~Starting(q)
      BY <1>1, NobodyStarts DEF Begins
    <2>2. QED BY <1>5, <2>1, Apart DEF Begins, OnlyRow, Starting, Holds
  <1>9. \A q \in Procs \ {p} : RowOK(q)'
    <2>1. SUFFICES ASSUME NEW q \in Procs \ {p} PROVE RowOK(q)'
      OBVIOUS
    <2>2. RowOK(q)
      BY DEF ProtocolInv
    <2>3. RecordBehind(q)' /\ RecordAt(q)' /\ CompleteOK(q)' /\ BeginOK(q)'
      BY <1>5, <1>8, <2>2 DEF RowOK, RecordBehind, RecordAt, CompleteOK, BeginOK, Unfinished
    <2>4. StartOK(q)'
      BY <1>8 DEF StartOK
    <2>5. QED BY <2>3, <2>4 DEF RowOK
  <1>10. RowOK(p)'
    <2>1. StartOK(p)'
      BY DEF Begins, StartOK
    <2>2. CASE Gone(p)
      BY <1>2, <1>5, <2>1, <2>2
      DEF Gone, RowOK, RecordBehind, RecordAt, BeginOK, CompleteOK, OwnerPCs, RebuildPCs, NoRecord
    <2>3. CASE Moved(p, IF p \in Operators THEN "wait" ELSE "drain")
      <3>1. /\ run'[p].pc = (IF p \in Operators THEN "wait" ELSE "drain")
            /\ run'[p].record = run[p].record
        BY <2>3 DEF Moved
      <3>2. RecordBehind(p)'
        BY <1>2, <1>5, <3>1 DEF RowOK, RecordBehind
      <3>3. RecordAt(p)'
        BY <1>2, <3>1 DEF Begins, RecordAt
      <3>4. BeginOK(p)' /\ CompleteOK(p)'
        BY <1>3, <1>5, <3>1 DEF BeginOK, CompleteOK, Unfinished
      <3>5. QED BY <2>1, <3>2, <3>3, <3>4 DEF RowOK
    <2>4. QED BY <2>2, <2>3 DEF Begins
  <1>11. ASSUME NEW a \in Procs, NEW b \in Procs \ {a}
         PROVE  PairOK(a, b)'
    <2>1. PairOK(a, b) /\ PairOK(b, a)
      BY <1>11 DEF ProtocolInv
    <2>2. ~Starting(a)'
      BY <1>8 DEF Begins
    <2>3. \A q \in {a, b} : run'[q].token \in {run[q].token, None}
      BY <1>8, <1>11 DEF Begins, Moved, Gone
    <2>4. QED BY <2>1, <2>2, <2>3 DEF PairOK
  <1>12. QED BY <1>6, <1>7, <1>9, <1>10, <1>11 DEF ProtocolInv

LEMMA BeginRecoveryStep ==
    ASSUME Shape, ProtocolInv, NEW p \in Procs, BeginRecovery(p)
    PROVE  Shape' /\ ProtocolInv'
  BY BeginsShape, BeginsProtocol, OutsideKeepsProtocol

(***************************************************************************)
(* Writes of the journal by the operation it holds.                         *)
(***************************************************************************)
\* The row moves forward, and a process that takes part goes on or away.
Advances(p) ==
    /\ OnlyRow(p) /\ run[p].pc \in OwnerPCs \cup {"complete"}
    /\ run'[p].pc \notin HoldingPCs
    /\ run'[p].token \in {run[p].token, None}
    /\ run'[p].token = None \/ run[p].pc \in OwnerPCs
    /\ run'[p].record.op \in {run[p].record.op, journal.op, None}
    /\ lock' \in {lock, None} /\ startFence' \in {startFence, None}
    /\ UNCHANGED <<control, progress, faults>>
    /\ journal'.op = journal.op /\ (journal'.phase = "NONE" <=> journal.phase = "NONE")
    /\ Unfinished(journal') => Unfinished(journal)
    /\ journal'.phase = "ACTIVE" => journal.phase = "ACTIVE"
    /\ journal.phase = "READY_COMMITTED" => journal'.phase \in {"READY_COMMITTED", "COMPLETED"}
    /\ journal.phase = "COMPLETED" => journal'.phase = "COMPLETED"
    /\ journal.forceDelete => journal'.forceDelete
    /\ journal'.phase \in {"READY_COMMITTED", "COMPLETED"} => journal'.forceDelete
    /\ Unfinished(journal) /\ ~faults.lost /\ control.last # journal.op => Unfinished(journal')

LEMMA AdvancesProtocol ==
    ASSUME Shape, ProtocolInv, NEW p \in Procs, Advances(p), RowOK(p)'
    PROVE  ProtocolInv'
  <1>1. ControlOK'
    BY DEF ProtocolInv, Advances, ControlOK, ControlWellFormed
  <1>2. JournalOK'
    <2>1. JournalOK /\ ControlOK
      BY DEF ProtocolInv
    <2>2. /\ journal'.phase = "NONE" <=> journal'.op = None
          /\ journal'.phase = "ACTIVE" => control'.last # journal'.op
          /\ journal'.phase \in {"READY_COMMITTED", "COMPLETED"} => journal'.forceDelete
          /\ control'.kind = "FORCE_REBUILD" => control'.op = journal'.op
      BY <2>1 DEF JournalOK, Advances
    <2>3. JournalGuardsReady'
      BY <2>1 DEF JournalOK, Advances, JournalGuardsReady, Unfinished
    <2>4. ForceIsResumable'
      <3> SUFFICES ASSUME control.kind = "FORCE_REBUILD", ~faults.lost
                   PROVE  /\ Unfinished(journal') /\ journal'.op = control.op
                          /\ ~(progress.forceDelete /\ ~journal'.forceDelete)
        BY DEF ForceIsResumable, Advances, MarkerAhead, Unfinished
      <3>1. Unfinished(journal) /\ control.op = journal.op /\ ~MarkerAhead
        BY <2>1 DEF JournalOK, ForceIsResumable, Unfinished
      <3>2. control.last # journal.op
        BY <2>1, <3>1 DEF ControlOK, ControlWellFormed
      <3>3. QED BY <3>1, <3>2 DEF Advances, MarkerAhead
    <2>5. QED BY <2>2, <2>3, <2>4 DEF JournalOK, Unfinished
  <1>3. /\ \A q \in Procs \ {p} : run'[q] = run[q] /\ (Starting(q)' => Starting(q))
        /\ \A q \in Procs : Holds(q)' => Holds(q)
        /\ ~Starting(p)'
    BY Apart DEF Advances, OnlyRow, Starting, Holds
  <1>4. \A q \in Procs \ {p} : RowOK(q)'
    <2>1. SUFFICES ASSUME NEW q \in Procs \ {p} PROVE RowOK(q)'
      OBVIOUS
    <2>2. RowOK(q)
      BY DEF ProtocolInv
    <2>3. RecordBehind(q)' /\ RecordAt(q)' /\ CompleteOK(q)'
      BY <1>3, <2>2 DEF RowOK, RecordBehind, RecordAt, CompleteOK, Advances
    <2>4. StartOK(q)'
      BY <1>3, <2>2 DEF RowOK, StartOK, Advances, Unfinished
    <2>5. BeginOK(q)'
      BY <1>3, <2>2 DEF RowOK, BeginOK, Advances, Unfinished
    <2>6. QED BY <2>3, <2>4, <2>5 DEF RowOK
  <1>5. ASSUME NEW a \in Procs, NEW b \in Procs \ {a}
        PROVE  PairOK(a, b)'
    <2>1. PairOK(a, b) /\ RowOK(a)
      BY <1>5 DEF ProtocolInv
    <2>2. CASE a # p /\ b # p
      BY <1>3, <1>5, <2>1, <2>2 DEF PairOK, Advances
    <2>3. CASE a = p
      BY <1>3, <1>5, <2>1, <2>3 DEF PairOK, Advances
    <2>4. CASE b = p
      <3>1. run'[a] = run[a] /\ (Starting(a)' => Starting(a)) /\ (Holds(b)' => Holds(b))
        BY <1>3, <1>5, <2>4
      <3>2. run'[a].token = run'[b].token => run'[a].token = None
        BY <2>1, <2>4, <3>1 DEF PairOK, Advances
      <3>3. ~(Starting(a)' /\ Holds(b)')
        <4> SUFFICES ASSUME Starting(a)', Holds(b)' PROVE FALSE
          OBVIOUS
        <4>1. run[b].pc \in {"inspect", "recheck", "complete"}
          BY <2>1, <3>1 DEF PairOK
        <4>2. run'[b].token = None
          BY <2>4, <4>1 DEF Advances, OwnerPCs, RebuildPCs
        <4>3. QED BY <4>2 DEF Holds
      <3>4. ASSUME a \in Operators, Starting(a)', run'[a].pc \in {"check", "journal"},
                   run'[a].record.op # journal'.op
            PROVE  run'[b].record.op # run'[a].record.op
        <4>1. Starting(a) /\ run[a].pc \in {"check", "journal"}
              /\ run[a].record.op # journal.op
          BY <3>1, <3>4 DEF Advances
        <4>2. run[b].record.op # run[a].record.op /\ run[a].record.op # None
          BY <2>1, <3>4, <4>1 DEF PairOK, RowOK, StartOK
        <4>3. QED BY <2>4, <3>1, <4>1, <4>2 DEF Advances
      <3>5. QED BY <3>2, <3>3, <3>4 DEF PairOK
    <2>5. QED BY <2>2, <2>3, <2>4
  <1>6. QED BY <1>1, <1>2, <1>4, <1>5 DEF ProtocolInv

\* What a journal CAS returns when it does not fail.
LEMMA UpdatedFacts ==
    ASSUME NEW p, NEW done, NEW changed, Updated(p, done, changed) # NoRecord
    PROVE  \/ /\ Updated(p, done, changed) = journal
              /\ journal.op = run[p].record.op /\ done
           \/ /\ Updated(p, done, changed) = changed /\ journal = run[p].record
              /\ ~(journal.op = run[p].record.op /\ done)
  BY DEF Updated

\* The owner of an operation goes on with the row of its CAS.
LEMMA JournalStepFacts ==
    ASSUME Shape, ProtocolInv, NEW o \in Operators, NEW row \in Record,
           NEW label \in OwnerPCs, run[o].pc \in OwnerPCs,
           label \in {"markRedis", "finishCheck"},
           UNCHANGED <<lock, control, progress, redisData, startFence, worldVars, faults>>,
           journal' = row, run' = [run EXCEPT ![o].pc = label, ![o].record = row]
    PROVE  /\ Shape' /\ OnlyRow(o) /\ run'[o].pc = label
           /\ run'[o].token = run[o].token /\ run'[o].record = row
  <1> o \in Procs BY DEF Procs
  <1> DEFINE r == [run[o] EXCEPT !.pc = label, !.record = row]
  <1>1. run' = [run EXCEPT ![o] = r]
    BY DEF Shape, Rows, Row
  <1>2. r \in Row /\ r.pc = label /\ r.token = run[o].token /\ r.record = row
    BY DEF Shape, Rows, Row, AllPCs
  <1>3. run[o].token # None
    <2>1. run[o].pc \notin OutsidePCs \cup {"complete"}
      BY DEF OwnerPCs, RebuildPCs, OutsidePCs
    <2>2. QED BY <2>1 DEF Shape, Rows, RowShape
  <1>4. Rows' /\ OnlyRow(o) /\ run'[o] = r
    <2> HIDE DEF r
    <2>1. QED BY <1>1, <1>2, <1>3, RowsFromOne DEF Shape
  <1>5. RedisShape' /\ WorldShape'
    BY DEF Shape, RedisShape, WorldShape, redisData, worldVars
  <1>6. run'[o].pc = label /\ run'[o].token = run[o].token /\ run'[o].record = row
    <2> HIDE DEF r
    <2>1. QED BY <1>2, <1>4
  <1>7. QED BY <1>4, <1>5, <1>6 DEF Shape

LEMMA MarkForceDeleteJournalStep ==
    ASSUME Shape, ProtocolInv, NEW o \in Operators, MarkForceDeleteJournal(o)
    PROVE  Shape' /\ ProtocolInv'
  <1> o \in Procs BY DEF Procs
  <1>u. /\ UNCHANGED <<lock, control, progress, redisData, startFence, worldVars, faults>>
        /\ run[o].pc = "markJournal" /\ o \notin Runtimes
    BY Unchanged, RecoveryAssumption DEF MarkForceDeleteJournal
  <1>r. /\ RowOK(o) /\ JournalOK /\ run[o].record.phase # "NONE" /\ run[o].record.op # None
    BY <1>u DEF ProtocolInv, RowOK, RecordAt, OwnerPCs
  <1> DEFINE row == Updated(o, journal.forceDelete, [journal EXCEPT !.forceDelete = TRUE])
  <1>1. CASE run[o].record.phase = "ACTIVE" /\ row = NoRecord
    <2>1. BecomesIdle(o) /\ UNCHANGED journal
      BY <1>1 DEF MarkForceDeleteJournal, JournalStep
    <2>2. QED BY <1>u, <2>1, GoesAway, OutsideKeepsProtocol
  <1>2. CASE run[o].record.phase = "ACTIVE" /\ row # NoRecord
    <2>1. journal' = row /\ run' = [run EXCEPT ![o].pc = "markRedis", ![o].record = row]
      BY <1>2 DEF MarkForceDeleteJournal, JournalStep
    <2>2. /\ row \in Record /\ row.op = journal.op /\ row.phase = journal.phase
          /\ row.forceDelete /\ journal.op = run[o].record.op
          /\ row.phase # "NONE"
      <3> HIDE DEF row
      <3>1. \/ row = journal /\ journal.op = run[o].record.op /\ journal.forceDelete
            \/ row = [journal EXCEPT !.forceDelete = TRUE] /\ journal = run[o].record
        BY <1>2, UpdatedFacts DEF row
      <3>2. journal \in Record
        BY DEF Shape
      <3>3. journal.phase # "NONE"
        <4>1. CASE journal = run[o].record
          BY <1>r, <4>1
        <4>2. CASE row = journal /\ journal.op = run[o].record.op /\ journal.forceDelete
          BY <1>r, <4>2 DEF JournalOK
        <4>3. QED BY <3>1, <4>1, <4>2
      <3>4. QED BY <3>1, <3>2, <3>3 DEF Record
    <2> HIDE DEF row
    <2>3. /\ Shape' /\ OnlyRow(o) /\ run'[o].pc = "markRedis"
          /\ run'[o].token = run[o].token /\ run'[o].record = row
      BY <1>u, <2>1, <2>2, JournalStepFacts DEF OwnerPCs
    <2>4. Advances(o)
      BY <1>u, <1>r, <2>1, <2>2, <2>3
      DEF Advances, JournalOK, Unfinished, OwnerPCs, HoldingPCs, RebuildPCs
    <2>5. RowOK(o)'
      <3>1. RecordBehind(o)'
        BY <1>r, <2>1, <2>2, <2>3 DEF JournalOK, RecordBehind
      <3>2. RecordAt(o)'
        BY <1>r, <2>2, <2>3 DEF RecordAt
      <3>3. StartOK(o)' /\ BeginOK(o)' /\ CompleteOK(o)'
        BY <1>u, <2>3 DEF StartOK, BeginOK, CompleteOK
      <3>4. QED BY <3>1, <3>2, <3>3 DEF RowOK
    <2>6. QED BY <2>3, <2>4, <2>5, AdvancesProtocol
  <1>3. CASE run[o].record.phase # "ACTIVE"
    <2>1. Goto(o, "markRedis") /\ UNCHANGED journal
      BY <1>3 DEF MarkForceDeleteJournal
    <2>2. Rows' /\ Moved(o, "markRedis")
      BY <1>u, <2>1, OwnerGoto DEF OwnerPCs
    <2>3. Shape' /\ Quiet
      BY <1>u, <2>1, <2>2, ShapeKept DEF Shape
    <2>4. RowOK(o)'
      <3>1. RecordBehind(o)'
        BY <1>r, <2>1, <2>2 DEF RowOK, RecordBehind, Moved
      <3>2. run[o].record.forceDelete
        BY <1>3, <1>r DEF RowOK, RecordBehind, Shape, Rows, Row, Record
      <3>3. RecordAt(o)'
        BY <1>r, <2>2, <3>2 DEF RecordAt, Moved
      <3>4. StartOK(o)' /\ BeginOK(o)' /\ CompleteOK(o)'
        BY <1>u, <2>2 DEF StartOK, BeginOK, CompleteOK, Moved
      <3>5. QED BY <3>1, <3>3, <3>4 DEF RowOK
    <2>5. \A q \in Procs \ {o} : PairOK(q, o)
      BY DEF ProtocolInv
    <2>6. ProtocolInv'
      BY <1>u, <2>1, <2>2, <2>3, <2>4, <2>5, MyRowKeeps
      DEF Moved, PairOK, Starting, HoldingPCs
    <2>7. QED BY <2>3, <2>6
  <1>4. QED BY <1>1, <1>2, <1>3

LEMMA CommitReadyStep ==
    ASSUME Shape, ProtocolInv, NEW o \in Operators, CommitReady(o)
    PROVE  Shape' /\ ProtocolInv'
  <1> o \in Procs BY DEF Procs
  <1>u. /\ UNCHANGED <<lock, control, progress, redisData, startFence, worldVars, faults>>
        /\ run[o].pc = "commit" /\ o \notin Runtimes
    BY Unchanged, RecoveryAssumption DEF CommitReady
  <1>r. /\ RowOK(o) /\ JournalOK /\ run[o].record.phase # "NONE" /\ run[o].record.op # None
        /\ run[o].record.forceDelete
    BY <1>u DEF ProtocolInv, RowOK, RecordAt, OwnerPCs
  <1> DEFINE row == Updated(o, journal.phase \in {"READY_COMMITTED", "COMPLETED"},
                            [journal EXCEPT !.phase = "READY_COMMITTED"])
  <1>1. CASE row.phase # "READY_COMMITTED"
    <2>1. BecomesIdle(o) /\ UNCHANGED journal
      BY <1>1 DEF CommitReady
    <2>2. QED BY <1>u, <2>1, GoesAway, OutsideKeepsProtocol
  <1>2. CASE row.phase = "READY_COMMITTED"
    <2>0. row # NoRecord
      BY <1>2 DEF NoRecord
    <2>1. journal' = row /\ run' = [run EXCEPT ![o].pc = "finishCheck", ![o].record = row]
      BY <1>2, <2>0 DEF CommitReady, JournalStep
    <2>2. /\ row \in Record /\ row.op = journal.op /\ journal.op = run[o].record.op
          /\ row.forceDelete /\ Unfinished(journal)
      <3> HIDE DEF row
      <3>1. \/ row = journal
               /\ journal.op = run[o].record.op /\ journal.phase \in {"READY_COMMITTED", "COMPLETED"}
            \/ /\ row = [journal EXCEPT !.phase = "READY_COMMITTED"] /\ journal = run[o].record
               /\ ~(journal.op = run[o].record.op
                      /\ journal.phase \in {"READY_COMMITTED", "COMPLETED"})
        BY <2>0, UpdatedFacts DEF row
      <3>2. journal \in Record
        BY DEF Shape
      <3>3. CASE row = journal /\ journal.op = run[o].record.op
        BY <1>2, <1>r, <3>2, <3>3 DEF JournalOK, Unfinished
      <3>4. CASE /\ row = [journal EXCEPT !.phase = "READY_COMMITTED"] /\ journal = run[o].record
                 /\ journal.phase \notin {"READY_COMMITTED", "COMPLETED"}
        BY <1>r, <3>2, <3>4 DEF Unfinished, Record
      <3>5. QED BY <3>1, <3>3, <3>4
    <2> HIDE DEF row
    <2>3. /\ Shape' /\ OnlyRow(o) /\ run'[o].pc = "finishCheck"
          /\ run'[o].token = run[o].token /\ run'[o].record = row
      BY <1>u, <2>1, <2>2, JournalStepFacts DEF OwnerPCs
    <2>4. Advances(o)
      BY <1>2, <1>u, <1>r, <2>1, <2>2, <2>3
      DEF Advances, JournalOK, Unfinished, OwnerPCs, HoldingPCs, RebuildPCs
    <2>5. RowOK(o)'
      <3>1. RecordBehind(o)'
        BY <1>2, <2>1, <2>2, <2>3 DEF RecordBehind
      <3>2. RecordAt(o)'
        BY <1>2, <1>r, <2>2, <2>3 DEF RecordAt
      <3>3. StartOK(o)' /\ BeginOK(o)' /\ CompleteOK(o)'
        BY <1>u, <2>3 DEF StartOK, BeginOK, CompleteOK
      <3>4. QED BY <3>1, <3>2, <3>3 DEF RowOK
    <2>6. QED BY <2>3, <2>4, <2>5, AdvancesProtocol
  <1>3. QED BY <1>1, <1>2

LEMMA CompleteStep ==
    ASSUME Shape, ProtocolInv, NEW p \in Procs, Complete(p)
    PROVE  Shape' /\ ProtocolInv'
  <1>u. /\ UNCHANGED <<control, progress, redisData, worldVars, faults>>
        /\ run[p].pc = "complete" /\ StartRefused(p)
    BY DEF Complete
  <1>l. lock' \in {lock, None} /\ startFence' \in {startFence, None}
    BY <1>u, RefusedFacts
  <1>r. /\ RowOK(p) /\ JournalOK /\ run[p].record.phase = "READY_COMMITTED"
        /\ ~faults.lost /\ run[p].record.op = journal.op => control.last = journal.op
    BY <1>u DEF ProtocolInv, RowOK, RecordAt, CompleteOK
  <1> DEFINE row == Updated(p, journal.phase = "COMPLETED",
                            [journal EXCEPT !.phase = "COMPLETED"])
  <1>1. CASE row = NoRecord
    <2>1. LeavesStart(p) /\ UNCHANGED journal
      BY <1>1 DEF Complete
    <2>2. QED BY <1>u, <1>l, <2>1, GoesAway, OutsideKeepsProtocol
  <1>2. CASE row # NoRecord
    <2>1. /\ journal' = row
          /\ \/ run' = [run EXCEPT ![p].pc = "reconcile", ![p].token = None, ![p].record = row]
             \/ LeavesStart(p)
      BY <1>2 DEF Complete
    <2>2. /\ row \in Record /\ row.op = journal.op /\ journal.op = run[p].record.op
          /\ row.phase = "COMPLETED" /\ row.forceDelete = journal.forceDelete
          /\ journal.phase \in {"READY_COMMITTED", "COMPLETED"}
      <3> HIDE DEF row
      <3>1. \/ row = journal
               /\ journal.op = run[p].record.op /\ journal.phase = "COMPLETED"
            \/ row = [journal EXCEPT !.phase = "COMPLETED"] /\ journal = run[p].record
        BY <1>2 DEF row, Updated
      <3>2. journal \in Record
        BY DEF Shape
      <3>3. QED BY <1>r, <3>1, <3>2 DEF Record
    <2> HIDE DEF row
    <2>3. /\ Rows' /\ OnlyRow(p) /\ run'[p].pc \in {"reconcile", "idle", "stopped"}
          /\ run'[p].token = None /\ run'[p].record \in {row, NoRecord}
      <3>1. CASE run' = [run EXCEPT ![p].pc = "reconcile", ![p].token = None,
                                    ![p].record = row]
        <4> DEFINE r == [run[p] EXCEPT !.pc = "reconcile", !.token = None, !.record = row]
        <4>1. run' = [run EXCEPT ![p] = r]
          BY <3>1 DEF Shape, Rows, Row
        <4>2. r \in Row /\ r.pc = "reconcile" /\ r.token = None /\ r.record = row
          BY <2>2, Apart DEF Shape, Rows, Row, AllPCs, OutsidePCs
        <4> HIDE DEF r
        <4>3. Rows' /\ OnlyRow(p) /\ run'[p] = r
          BY <4>1, <4>2, RowsFromOne DEF Shape, OutsidePCs
        <4>4. QED BY <4>2, <4>3
      <3>2. CASE LeavesStart(p)
        BY <3>2, GoneFacts DEF Shape, Gone
      <3>3. QED BY <2>1, <3>1, <3>2
    <2>4. Shape'
      <3>1. RedisShape' /\ WorldShape'
        BY <1>u, <1>l, Apart DEF Shape, RedisShape, WorldShape, redisData, worldVars
      <3>2. QED BY <1>l, <2>1, <2>2, <2>3, <3>1 DEF Shape
    <2>5. Advances(p)
      <3>1. run'[p].record.op \in {run[p].record.op, journal.op, None}
        BY <2>2, <2>3 DEF NoRecord
      <3>2. journal'.phase = "COMPLETED" /\ journal'.op = journal.op
            /\ journal'.forceDelete = journal.forceDelete
        BY <2>1, <2>2
      <3>3. journal.forceDelete
        BY <1>r, <2>2 DEF JournalOK
      <3>4. /\ run[p].pc \in OwnerPCs \cup {"complete"} /\ run'[p].pc \notin HoldingPCs
        BY <1>u, <2>3 DEF HoldingPCs
      <3>5. QED
        BY <1>u, <1>l, <1>r, <2>2, <2>3, <3>1, <3>2, <3>3, <3>4 DEF Advances, Unfinished
    <2>6. RowOK(p)'
      <3>1. RecordBehind(p)'
        BY <1>r, <2>1, <2>2, <2>3 DEF RecordBehind, NoRecord, JournalOK
      <3>2. RecordAt(p)' /\ StartOK(p)' /\ BeginOK(p)' /\ CompleteOK(p)'
        BY <2>3 DEF RecordAt, StartOK, BeginOK, CompleteOK, OwnerPCs, RebuildPCs
      <3>3. QED BY <3>1, <3>2 DEF RowOK
    <2>7. QED BY <2>4, <2>5, <2>6, AdvancesProtocol
  <1>3. QED BY <1>1, <1>2

(***************************************************************************)
(* The delete marker in Redis, and the end of a rebuild.                    *)
(***************************************************************************)
LEMMA MarkForceDeleteRedisStep ==
    ASSUME Shape, ProtocolInv, NEW o \in Operators, MarkForceDeleteRedis(o)
    PROVE  Shape' /\ (GoesOutside(o) \/ (GoesOn(o) /\ Moved(o, "drain")))
  <1> o \in Procs BY DEF Procs
  <1>u. /\ UNCHANGED <<lock, control, redisData, startFence, journal, worldVars, faults>>
        /\ run[o].pc = "markRedis" /\ run[o].pc \in OwnerPCs
    BY DEF MarkForceDeleteRedis, OwnerPCs
  <1>1. CASE UNION {known, active, stable, provisional} = {}
    <2>1. Goto(o, "drain") /\ progress' = [progress EXCEPT !.forceDelete = TRUE]
      BY <1>1 DEF MarkForceDeleteRedis
    <2>2. Rows' /\ Moved(o, "drain")
      BY <1>u, <2>1, OwnerGoto DEF OwnerPCs, RebuildPCs
    <2>3. RedisShape'
      BY <1>u, <2>1 DEF Shape, RedisShape, Progresses, redisData
    <2>4. Shape'
      BY <1>u, <2>2, <2>3, ShapeOfData DEF worldVars
    <2>5. journal.forceDelete
      <3>1. control.kind = "FORCE_REBUILD" /\ control.op = run[o].record.op
        BY DEF MarkForceDeleteRedis, FenceOK, KindOf, OpOf
      <3>2. control.op = journal.op /\ RecordBehind(o) /\ run[o].record.forceDelete
        BY <1>u, <3>1 DEF ProtocolInv, JournalOK, RowOK, RecordAt
      <3>3. QED BY <3>1, <3>2 DEF RecordBehind
    <2>6. GoesOn(o)
      BY <1>u, <2>2, <2>5 DEF GoesOn, Moved, Quiet, OwnerPCs, RebuildPCs
    <2>7. QED BY <2>2, <2>4, <2>6
  <1>2. CASE UNION {known, active, stable, provisional} # {}
    <2>1. BecomesIdle(o) /\ UNCHANGED progress
      BY <1>2 DEF MarkForceDeleteRedis
    <2>2. QED BY <1>u, <2>1, GoesAway
  <1>3. QED BY <1>1, <1>2

\* What the script does when it accepts.
Finishes(p) ==
    /\ run[p].pc = "finish" /\ FenceOK(p) /\ Finishable(p)
    /\ control' = [control EXCEPT !.state = "READY", !.kind = "NONE", !.op = None,
                      !.last = IF p \in Operators THEN OpOf(p) ELSE @]
    /\ progress' = NoProgress /\ lock' = None
    /\ OnlyRow(p) /\ run'[p].pc = "finished" /\ run'[p].token = run[p].token
    /\ run'[p].record = run[p].record
    /\ UNCHANGED <<redisData, startFence, journal, faults>>

\* What it does when it had accepted before.
FinishesAgain(p) ==
    /\ FinishCommitted(p)
    /\ OnlyRow(p) /\ run'[p].pc = "finished" /\ run'[p].token = run[p].token
    /\ run'[p].record = run[p].record
    /\ UNCHANGED <<lock, control, progress, redisData, startFence, journal, worldVars, faults>>

LEMMA FinishesShape ==
    ASSUME Shape, NEW p \in Procs, FinishRecovery(p)
    PROVE  Shape' /\ (GoesOutside(p) \/ Finishes(p) \/ FinishesAgain(p))
  <1>u. /\ UNCHANGED <<redisData, startFence, journal, task, publishing, admitted, held, late,
                       faults>>
        /\ run[p].pc = "finish" /\ (FenceOK(p) \/ FinishCommitted(p))
    BY DEF FinishRecovery
  <1>a. CASE FinishCommitted(p)
    <2> DEFINE r == [run[p] EXCEPT !.pc = "finished", !.epoch = run[p].token]
    <2>1. run' = [run EXCEPT ![p] = r] /\ UNCHANGED <<lock, control, progress, returned>>
      BY <1>a DEF FinishRecovery, Shape, Rows, Row
    <2>2. r \in Row /\ r.pc = "finished" /\ r.token = run[p].token /\ r.record = run[p].record
      BY DEF Shape, Rows, Row, AllPCs
    <2>3. run[p].token # None
      BY <1>u DEF Shape, Rows, RowShape, OutsidePCs
    <2>4. Rows' /\ OnlyRow(p) /\ run'[p] = r
      <3> HIDE DEF r
      <3>1. QED BY <2>1, <2>2, <2>3, RowsFromOne DEF Shape
    <2>5. /\ run'[p].pc = "finished" /\ run'[p].token = run[p].token
          /\ run'[p].record = run[p].record
      BY <2>2, <2>4
    <2> HIDE DEF r
    <2>6. RedisShape' /\ WorldShape'
      BY <1>u, <2>1 DEF Shape, RedisShape, WorldShape, redisData
    <2>7. QED BY <1>a, <1>u, <2>1, <2>4, <2>5, <2>6 DEF FinishesAgain, Shape, worldVars
  <1>1. CASE ~FinishCommitted(p) /\ Finishable(p)
    <2> DEFINE r == [run[p] EXCEPT !.pc = "finished", !.epoch = run[p].token]
    <2>1. /\ run' = [run EXCEPT ![p] = r] /\ progress' = NoProgress /\ lock' = None
          /\ control' = [control EXCEPT !.state = "READY", !.kind = "NONE", !.op = None,
                            !.last = IF p \in Operators THEN OpOf(p) ELSE @]
          /\ returned' = {}
      BY <1>1 DEF FinishRecovery, Shape, Rows, Row
    <2>2. r \in Row /\ r.pc = "finished" /\ r.token = run[p].token /\ r.record = run[p].record
      BY DEF Shape, Rows, Row, AllPCs
    <2>3. run[p].token # None
      BY <1>u DEF Shape, Rows, RowShape, OutsidePCs
    <2>4. Rows' /\ OnlyRow(p) /\ run'[p] = r
      <3> HIDE DEF r
      <3>1. QED BY <2>1, <2>2, <2>3, RowsFromOne DEF Shape
    <2>5. /\ run'[p].pc = "finished" /\ run'[p].token = run[p].token
          /\ run'[p].record = run[p].record
      BY <2>2, <2>4
    <2> HIDE DEF r
    <2>6. RedisShape' /\ WorldShape'
      <3>1. control' \in Controls
        <4>1. OpOf(p) \in Token
          BY Apart DEF OpOf, Shape, Rows, Row, Record
        <4>2. QED BY <2>1, <4>1, Apart DEF Shape, RedisShape, Controls
      <3>2. progress' \in Progresses /\ lock' \in Token
        BY <2>1, Apart DEF NoProgress, NoMark, Progresses, Mark
      <3>3. QED BY <1>u, <2>1, <3>1, <3>2 DEF Shape, RedisShape, WorldShape, redisData
    <2>7. QED BY <1>1, <1>u, <2>1, <2>4, <2>5, <2>6 DEF Finishes, Shape
  <1>2. CASE ~FinishCommitted(p) /\ ~Finishable(p)
    <2>1. BecomesIdle(p) /\ UNCHANGED <<lock, control, progress, returned>>
      BY <1>2 DEF FinishRecovery
    <2>2. QED BY <1>u, <2>1, GoesAway DEF worldVars
  <1>3. QED BY <1>a, <1>1, <1>2

LEMMA FinishesAgainProtocol ==
    ASSUME Shape, ProtocolInv, NEW p \in Procs, FinishesAgain(p)
    PROVE  ProtocolInv'
  <1>1. /\ run[p].pc = "finish" /\ run'[p].pc = "finished" /\ run'[p].record = run[p].record
        /\ UNCHANGED <<control, journal, faults>>
        /\ p \in Operators => control.last = run[p].record.op
    BY DEF FinishesAgain, FinishCommitted, OpOf
  <1>2. RowOK(p)
    BY DEF ProtocolInv
  <1>3. RecordBehind(p)' /\ RecordAt(p)'
    BY <1>1, <1>2 DEF RowOK, RecordBehind, RecordAt, OwnerPCs, RebuildPCs
  <1>4. StartOK(p)' /\ BeginOK(p)'
    BY <1>1 DEF StartOK, BeginOK, OwnerPCs, RebuildPCs
  <1>5. CompleteOK(p)'
    BY <1>1 DEF CompleteOK
  <1>6. Advances(p)
    <2>1. JournalOK
      BY DEF ProtocolInv
    <2>2. QED
      BY <1>1, <2>1 DEF FinishesAgain, Advances, OwnerPCs, RebuildPCs, HoldingPCs, JournalOK
  <1>7. QED BY <1>3, <1>4, <1>5, <1>6, AdvancesProtocol DEF RowOK

LEMMA FinishesProtocol ==
    ASSUME Shape, ProtocolInv, NEW p \in Procs, Finishes(p)
    PROVE  ProtocolInv'
  <1>1. Holds(p) /\ run[p].token # None
    BY DEF Finishes, FenceOK, Holds, Shape, Rows, RowShape, OutsidePCs
  <1>2. /\ RowOK(p) /\ JournalOK /\ ControlOK /\ (p \in Runtimes \/ p \in Operators)
    BY DEF ProtocolInv, Procs
  <1>3. /\ p \in Operators => /\ run[p].record.op = journal.op /\ OpOf(p) = journal.op
                              /\ journal.phase \in {"READY_COMMITTED", "COMPLETED"}
                              /\ run[p].record.phase = "READY_COMMITTED"
        /\ p \in Runtimes => ~Unfinished(journal) /\ p \notin Operators
    <2>1. ASSUME p \in Operators
          PROVE  /\ run[p].record.op = journal.op /\ OpOf(p) = journal.op
                 /\ journal.phase \in {"READY_COMMITTED", "COMPLETED"}
                 /\ run[p].record.phase = "READY_COMMITTED"
      <3>1. control.kind = "FORCE_REBUILD" /\ control.op = run[p].record.op
            /\ OpOf(p) = run[p].record.op
        BY <2>1 DEF Finishes, FenceOK, KindOf, OpOf
      <3>2. control.op = journal.op /\ run[p].record.phase = "READY_COMMITTED"
        BY <1>2, <2>1, <3>1 DEF JournalOK, RowOK, RecordAt, Finishes
      <3>3. QED BY <1>2, <3>1, <3>2 DEF RowOK, RecordBehind
    <2>2. ASSUME p \in Runtimes
          PROVE  ~Unfinished(journal) /\ p \notin Operators
      BY <1>1, <1>2, <2>2, RecoveryAssumption
      DEF RowOK, BeginOK, Finishes, OwnerPCs
    <2>3. QED BY <2>1, <2>2
  <1>4. /\ control'.state = "READY" /\ control'.epoch = control.epoch /\ control'.kind = "NONE"
        /\ control'.op = None
        /\ control'.last = (IF p \in Operators THEN journal.op ELSE control.last)
        /\ journal' = journal /\ faults' = faults
    BY <1>3 DEF Finishes, Shape, RedisShape, Controls
  <1>5. ControlOK'
    BY <1>1, <1>2, <1>4 DEF ControlOK, ControlWellFormed, Finishes, FenceOK
  <1>6. JournalOK'
    BY <1>2, <1>3, <1>4 DEF JournalOK, Unfinished, JournalGuardsReady, ForceIsResumable
  <1>7. /\ \A q \in Procs \ {p} : run'[q] = run[q] /\ ~Starting(q)'
        /\ \A q \in Procs : ~Holds(q)'
        /\ ~Starting(p)'
    <2>1. \A q \in Procs \ {p} : ~Starting(q)
      BY <1>1, NobodyStarts DEF Finishes, OwnerPCs
    <2>2. QED BY <2>1 DEF Finishes, OnlyRow, Starting, Holds, HoldingPCs
  <1>8. \A q \in Procs \ {p} : RowOK(q)'
    <2>1. SUFFICES ASSUME NEW q \in Procs \ {p} PROVE RowOK(q)'
      OBVIOUS
    <2>2. RowOK(q)
      BY DEF ProtocolInv
    <2>3. RecordBehind(q)' /\ RecordAt(q)'
      BY <1>4, <1>7, <2>2 DEF RowOK, RecordBehind, RecordAt
    <2>4. StartOK(q)' /\ BeginOK(q)'
      BY <1>7 DEF StartOK, BeginOK
    <2>5. CompleteOK(q)'
      BY <1>4, <1>7, <2>2 DEF RowOK, CompleteOK
    <2>6. QED BY <2>3, <2>4, <2>5 DEF RowOK
  <1>9. RowOK(p)'
    <2>1. run'[p].pc = "finished" /\ run'[p].record = run[p].record
      BY DEF Finishes
    <2>2. RecordBehind(p)'
      BY <1>2, <1>4, <2>1 DEF RowOK, RecordBehind
    <2>3. RecordAt(p)'
      BY <1>3, <2>1 DEF RecordAt, OwnerPCs, RebuildPCs
    <2>4. StartOK(p)' /\ BeginOK(p)'
      BY <1>7 DEF StartOK, BeginOK
    <2>5. CompleteOK(p)'
      BY <1>4, <2>1 DEF CompleteOK
    <2>6. QED BY <2>2, <2>3, <2>4, <2>5 DEF RowOK
  <1>10. ASSUME NEW a \in Procs, NEW b \in Procs \ {a}
         PROVE  PairOK(a, b)'
    <2>1. PairOK(a, b) /\ ~Starting(a)'
      BY <1>7, <1>10 DEF ProtocolInv
    <2>2. run'[a].token = run[a].token /\ run'[b].token = run[b].token
      BY <1>7, <1>10 DEF Finishes
    <2>3. QED BY <2>1, <2>2 DEF PairOK
  <1>11. QED BY <1>5, <1>6, <1>8, <1>9, <1>10 DEF ProtocolInv

LEMMA ObserveFinishedStep ==
    ASSUME Shape, ProtocolInv, NEW p \in Procs, ObserveFinished(p)
    PROVE  Shape' /\ ProtocolInv'
  <1>u. /\ UNCHANGED <<lock, control, progress, redisData, startFence, journal, worldVars, faults>>
        /\ run[p].pc = "finished"
    BY Unchanged DEF ObserveFinished
  <1>1. CASE BecomesIdle(p)
    BY <1>1, <1>u, GoesAway, OutsideKeepsProtocol
  <1>2. CASE Goto(p, "rejoin")
    BY <1>2, <1>u, GoesTo, OutsideKeepsProtocol DEF OutsidePCs
  <1>3. CASE Goto(p, "complete") /\ p \in Operators
    <2>1. Rows' /\ Moved(p, "complete")
      BY <1>3, GotoFacts DEF Shape, AllPCs
    <2>2. Shape' /\ Quiet
      BY <1>u, <2>1, ShapeKept DEF Shape
    <2>3. RowOK(p)'
      <3>1. RowOK(p)
        BY DEF ProtocolInv
      <3>2. RecordBehind(p)' /\ CompleteOK(p)' /\ RecordAt(p)'
        BY <1>3, <1>u, <2>1, <3>1
        DEF RowOK, RecordBehind, CompleteOK, RecordAt, Moved, OwnerPCs, RebuildPCs
      <3>3. StartOK(p)' /\ BeginOK(p)'
        BY <2>1 DEF StartOK, BeginOK, Moved, OwnerPCs, RebuildPCs
      <3>4. QED BY <3>2, <3>3 DEF RowOK
    <2>4. \A q \in Procs \ {p} : PairOK(q, p)
      BY DEF ProtocolInv
    <2>5. ProtocolInv'
      BY <1>u, <2>1, <2>2, <2>3, <2>4, MyRowKeeps DEF Moved, PairOK, Starting, HoldingPCs
    <2>6. QED BY <2>2, <2>5
  <1>4. QED BY <1>1, <1>2, <1>3 DEF ObserveFinished

(***************************************************************************)
(* Locks that are lost, Redis that loses its state, and tasks.              *)
(***************************************************************************)
LEMMA LocksLost ==
    ASSUME ProtocolInv, run' = run, Quiet,
           lock' \in {lock, None}, startFence' \in {startFence, None}
    PROVE  ProtocolInv'
  <1>1. ControlOK' /\ JournalOK'
    BY QuietKeeps
  <1>2. \A q \in Procs : (Starting(q)' => Starting(q)) /\ (Holds(q)' => Holds(q))
    BY Apart DEF Starting, Holds
  <1>3. \A q \in Procs : RowOK(q)'
    BY <1>2, OtherRow DEF ProtocolInv
  <1>4. ASSUME NEW a \in Procs, NEW b \in Procs \ {a}
        PROVE  PairOK(a, b)'
    BY <1>2, <1>4, OtherPair DEF ProtocolInv, Quiet
  <1>5. QED BY <1>1, <1>3, <1>4 DEF ProtocolInv

LEMMA FaultsLeft ==
    ASSUME WorldShape, faults' = [faults EXCEPT !.stop = @ - 1], faults.stop > 0,
           UNCHANGED worldVars
    PROVE  WorldShape' /\ faults'.lost = faults.lost
  <1>1. faults' \in Bounds /\ faults'.lost = faults.lost
    BY DEF WorldShape, Bounds
  <1>2. QED BY <1>1 DEF WorldShape, worldVars

LEMMA LoseSessionStep ==
    ASSUME Shape, ProtocolInv, NEW p \in Procs, LoseSession(p)
    PROVE  Shape' /\ ProtocolInv'
  <1>1. /\ UNCHANGED <<lock, control, progress, redisData, journal, worldVars, run>>
        /\ startFence' = None
    BY Unchanged DEF LoseSession
  <1>2. WorldShape' /\ faults'.lost = faults.lost
    BY <1>1, FaultsLeft DEF LoseSession, Shape
  <1>3. RedisShape' /\ Rows'
    BY <1>1 DEF Shape, RedisShape, redisData, Rows, RowShape
  <1>4. Shape' /\ Quiet
    BY <1>1, <1>2, <1>3 DEF Shape, Quiet
  <1>5. QED BY <1>1, <1>4, LocksLost

LEMMA LockExpiresStep ==
    ASSUME Shape, ProtocolInv, LockExpires \/ OrphanLockExpires
    PROVE  Shape' /\ ProtocolInv'
  <1>1. /\ UNCHANGED <<control, progress, redisData, startFence, journal, worldVars, run>>
        /\ lock' = None
    BY DEF LockExpires, OrphanLockExpires
  <1>2. WorldShape' /\ faults'.lost = faults.lost
    <2>1. CASE LockExpires
      BY <1>1, <2>1, FaultsLeft DEF LockExpires, Shape
    <2>2. CASE OrphanLockExpires
      BY <1>1, <2>2 DEF OrphanLockExpires, Shape, WorldShape, worldVars
    <2>3. QED BY <2>1, <2>2
  <1>3. RedisShape' /\ Rows'
    BY <1>1, Apart DEF Shape, RedisShape, redisData, Rows, RowShape
  <1>4. Shape' /\ Quiet
    BY <1>1, <1>2, <1>3 DEF Shape, Quiet
  <1>5. QED BY <1>1, <1>4, LocksLost

\* Whatever the processes believed, they hold no lock any more.
LEMMA RedisLosesStateStep ==
    ASSUME Shape, ProtocolInv, RedisLosesState
    PROVE  Shape' /\ ProtocolInv'
  <1>1. /\ lock' = None /\ control' = NoControl /\ progress' = NoProgress
        /\ known' = {} /\ active' = {} /\ stable' = {} /\ provisional' = {}
        /\ returned' = {}
        /\ UNCHANGED <<startFence, journal, task, publishing, admitted, held, late, run>>
        /\ faults' \in Bounds /\ faults'.lost
    <2>1. faults \in Bounds
      BY DEF Shape, WorldShape
    <2>2. faults' \in Bounds /\ faults'.lost
      <3>1. /\ faults.loss > 0
            /\ faults' = [faults EXCEPT !.loss = @ - 1, !.lost = TRUE]
        BY DEF RedisLosesState
      <3>2. faults.loss - 1 \in Nat
        BY <2>1, <3>1 DEF Bounds
      <3>3. QED BY <2>1, <3>1, <3>2 DEF Bounds
    <2>3. QED BY <2>2 DEF RedisLosesState
  <1>2. Shape'
    <2>1. control' \in Controls /\ progress' \in Progresses
      BY <1>1, Apart
      DEF NoControl, Controls, Token, NoProgress, NoMark, Progresses, Mark
    <2>2. RedisShape'
      BY <1>1, <2>1 DEF RedisShape, Token
    <2>3. WorldShape' /\ Rows'
      BY <1>1 DEF Shape, WorldShape, Rows, RowShape
    <2>4. QED BY <1>1, <2>2, <2>3 DEF Shape
  <1>3. /\ control'.state = "ABSENT" /\ control'.epoch = None /\ control'.kind = "NONE"
        /\ control'.op = None /\ control'.last = None
    BY <1>1 DEF NoControl
  <1>4. ControlOK' /\ JournalOK'
    BY <1>1, <1>3
    DEF ProtocolInv, ControlOK, ControlWellFormed, JournalOK, JournalGuardsReady, ForceIsResumable
  <1>5. \A q \in Procs : Starting(q)' = Starting(q) /\ ~Holds(q)'
    BY <1>1 DEF Starting, Holds
  <1>6. ASSUME NEW q \in Procs
        PROVE  RowOK(q)'
    <2>1. RowOK(q)
      BY DEF ProtocolInv
    <2>2. RecordBehind(q)' /\ RecordAt(q)'
      BY <1>1, <2>1 DEF RowOK, RecordBehind, RecordAt
    <2>3. StartOK(q)'
      BY <1>1, <1>3, <1>5, <2>1 DEF RowOK, StartOK
    <2>4. BeginOK(q)' /\ CompleteOK(q)'
      BY <1>1, <1>5 DEF BeginOK, CompleteOK
    <2>5. QED BY <2>2, <2>3, <2>4 DEF RowOK
  <1>7. ASSUME NEW a \in Procs, NEW b \in Procs \ {a}
        PROVE  PairOK(a, b)'
    BY <1>1, <1>5, <1>7 DEF ProtocolInv, PairOK
  <1>8. QED BY <1>2, <1>4, <1>6, <1>7 DEF ProtocolInv

\* The protocol does not read what tasks and workers do.
TaskMoves ==
    /\ UNCHANGED <<lock, control, progress, startFence, journal, run, faults>>
    /\ known' \subseteq Tenants /\ active' \subseteq Tenants
    /\ stable' \subseteq Tasks /\ provisional' \subseteq Tasks
    /\ task' \in [Tasks -> Statuses]
    /\ publishing' \subseteq Tasks /\ admitted' \subseteq Tasks /\ late' \subseteq Tasks
    /\ held' \subseteq Tasks /\ returned' \subseteq Tasks

LEMMA TaskMovesKeep ==
    ASSUME Shape, ProtocolInv, TaskMoves
    PROVE  Shape' /\ ProtocolInv'
  <1>1. Shape'
    BY DEF TaskMoves, Shape, RedisShape, WorldShape, Rows, RowShape
  <1>2. QED BY <1>1, LocksLost DEF TaskMoves, Quiet

LEMMA TaskStepMoves ==
    ASSUME Shape, NEW x \in Tasks, TaskStep(x)
    PROVE  TaskMoves
  <1> TenantOf[x] \in Tenants
    BY RecoveryAssumption
  <1>1. CASE CreateTask(x)
    BY <1>1 DEF CreateTask, TaskMoves, Shape, RedisShape, WorldShape, redisVars, Statuses
  <1>2. CASE StartPublish(x)
    BY <1>2 DEF StartPublish, TaskMoves, Shape, RedisShape, WorldShape, redisVars
  <1>3. CASE FinishPublish(x)
    BY <1>3 DEF FinishPublish, TaskMoves, Shape, RedisShape, WorldShape, Statuses
  <1>4. CASE AcquireProvisional(x)
    BY <1>4 DEF AcquireProvisional, TaskMoves, Shape, RedisShape, WorldShape
  <1>5. CASE ClaimTask(x)
    BY <1>5 DEF ClaimTask, TaskMoves, Shape, RedisShape, WorldShape, redisVars, Statuses
  <1>6. CASE LeaveAdmission(x)
    BY <1>6 DEF LeaveAdmission, TaskMoves, Shape, RedisShape, WorldShape
  <1>7. CASE EndTask(x)
    BY <1>7 DEF EndTask, TaskMoves, Shape, RedisShape, WorldShape, Statuses
  <1>8. CASE GetDelivery(x)
    BY <1>8 DEF GetDelivery, TaskMoves, Shape, RedisShape, WorldShape, redisVars
  <1>9. QED BY <1>1, <1>2, <1>3, <1>4, <1>5, <1>6, <1>7, <1>8 DEF TaskStep

(***************************************************************************)
(* What has been rebuilt: one owner at a time.                              *)
(***************************************************************************)
LEMMA OwnerHasToken ==
    ASSUME Shape, NEW p \in Procs, run[p].pc \in OwnerPCs
    PROVE  run[p].token # None
  <1>1. run[p].pc \notin OutsidePCs \cup {"complete"}
    BY DEF OwnerPCs, RebuildPCs, OutsidePCs
  <1>2. QED BY <1>1 DEF Shape, Rows, RowShape

LEMMA OneOwner ==
    ASSUME Shape, ProtocolInv, NEW p \in Procs, NEW q \in Procs, Owns(p), Owns(q)
    PROVE  p = q
  <1>1. run[p].token = run[q].token /\ run[p].token # None
    BY OwnerHasToken DEF Owns, FenceOK
  <1>2. QED BY <1>1 DEF ProtocolInv, PairOK

\* Nothing is being rebuilt.
LEMMA ClosedKeeps ==
    ASSUME control'.state # "RECOVERING"
    PROVE  RebuildInv'
  BY DEF RebuildInv, HighWaterOK, Owns, FenceOK

\* Owners other than p lost nothing to a step of p that leaves the state alone,
\* and there are none when p is the owner.
LEMMA RebuildKept ==
    ASSUME Shape, ProtocolInv, RebuildInv, NEW p \in Procs, OnlyRow(p),
           control' = control, lock' \in {lock, None} \cup FreshTokens,
           Owns(p) \/ UNCHANGED <<progress, redisData, worldVars>>,
           HighWaterOK', Owns(p)' => Rebuilt(p)'
    PROVE  RebuildInv'
  <1>1. ASSUME NEW q \in Procs \ {p}, Owns(q)'
        PROVE  Rebuilt(q)'
    <2>1. run'[q] = run[q] /\ run[q].pc \in OwnerPCs
      BY <1>1 DEF OnlyRow, Owns
    <2>2. lock' = lock
      <3>1. lock' = run[q].token /\ run[q].token # None
        BY <1>1, <2>1, OwnerHasToken DEF Owns, FenceOK
      <3>2. run[q].token \notin FreshTokens
        BY DEF FreshTokens, TokensInUse
      <3>3. QED BY <3>1, <3>2
    <2>3. Owns(q)
      BY <1>1, <2>1, <2>2 DEF Owns, FenceOK, OpOf
    <2>4. UNCHANGED <<progress, redisData, worldVars>>
      BY <1>1, <2>3, OneOwner
    <2>5. QED
      BY <2>1, <2>3, <2>4
      DEF RebuildInv, Rebuilt, redisData, worldVars, In, Waiting, Claimed, TenantsOf
  <1>2. QED BY <1>1 DEF RebuildInv

LEMMA HighWaterKept ==
    ASSUME HighWaterOK, UNCHANGED <<control, task, publishing>>,
           progress'.captured = progress.captured, progress'.highWater = progress.highWater
    PROVE  HighWaterOK'
  BY DEF HighWaterOK, In

\* p is, or goes, to a place where nothing has been rebuilt.
LEMMA NothingYet ==
    ASSUME NEW p \in Procs,
           run'[p].pc \in {"wait", "delete", "markJournal", "markRedis", "drain"}
    PROVE  Rebuilt(p)'
  BY DEF Rebuilt, DrainedPCs, ReapedPCs, CapturedPCs, RestoredPCs, OwnerPCs, RebuildPCs

\* Any step of p besides a rebuild.
LEMMA AsideKeeps ==
    ASSUME Shape, ProtocolInv, RebuildInv, NEW p \in Procs, OnlyRow(p),
           UNCHANGED <<control, progress, redisData, worldVars>>,
           lock' \in {lock, None} \cup FreshTokens,
           \/ run'[p].pc \notin OwnerPCs
           \/ run'[p].pc \in {"wait", "delete", "markJournal", "markRedis", "drain"}
    PROVE  RebuildInv'
  <1>1. HighWaterOK'
    BY HighWaterKept DEF worldVars, RebuildInv
  <1>2. Owns(p)' => Rebuilt(p)'
    BY NothingYet DEF Owns
  <1>3. QED BY <1>1, <1>2, RebuildKept

\* The owner leaves the rebuild.
LEMMA OwnerLeaves ==
    ASSUME Shape, ProtocolInv, RebuildInv, NEW p \in Procs, Owns(p), GoesOutside(p),
           UNCHANGED <<task, publishing>>,
           progress'.captured = progress.captured, progress'.highWater = progress.highWater
    PROVE  RebuildInv'
  <1>1. HighWaterOK' /\ ~Owns(p)'
    BY HighWaterKept DEF worldVars, RebuildInv, GoesOutside, Quiet, Owns, OwnerPCs, RebuildPCs, OutsidePCs
  <1>2. QED BY <1>1, RebuildKept DEF GoesOutside, Quiet

\* The owner goes on.
LEMMA OwnerGoesOn ==
    ASSUME Shape, ProtocolInv, RebuildInv, NEW p \in Procs, Owns(p), GoesOn(p),
           HighWaterOK', Rebuilt(p)'
    PROVE  RebuildInv'
  BY RebuildKept DEF GoesOn, Quiet

LEMMA DrainAttemptsRebuilds ==
    ASSUME Shape, ProtocolInv, RebuildInv, NEW p \in Procs, DrainAttempts(p)
    PROVE  RebuildInv'
  <1>1. GoesOn(p) /\ run'[p].pc = "leases"
    BY DrainAttemptsStep DEF Moved
  <1>2. /\ UNCHANGED <<control, progress, redisData, worldVars>> /\ Owns(p)
        /\ publishing = {}
    BY Unchanged DEF DrainAttempts, Owns, OwnerPCs, RebuildPCs
  <1>3. HighWaterOK'
    BY <1>2, HighWaterKept DEF worldVars, RebuildInv
  <1>4. Rebuilt(p)'
    BY <1>1, <1>2
    DEF Rebuilt, worldVars, DrainedPCs, ReapedPCs, CapturedPCs, RestoredPCs, OwnerPCs, RebuildPCs
  <1>5. QED BY <1>1, <1>2, <1>3, <1>4, OwnerGoesOn

LEMMA DrainRecoveryLeasesRebuilds ==
    ASSUME Shape, ProtocolInv, RebuildInv, NEW p \in Procs, DrainRecoveryLeases(p)
    PROVE  RebuildInv'
  <1>1. /\ GoesOn(p)
        /\ run'[p].pc = "leases" \/ (run'[p].pc = "highWater" /\ provisional' = {})
    BY DrainRecoveryLeasesStep DEF Moved
  <1>2. /\ UNCHANGED <<control, progress, worldVars>> /\ Owns(p)
        /\ run[p].pc = "leases"
    BY DEF DrainRecoveryLeases, Owns, OwnerPCs, RebuildPCs
  <1>3. publishing' = {}
    BY <1>2
    DEF RebuildInv, Rebuilt, worldVars, DrainedPCs, OwnerPCs, RebuildPCs
  <1>4. HighWaterOK'
    BY <1>2, HighWaterKept DEF worldVars, RebuildInv
  <1>5. Rebuilt(p)'
    BY <1>1, <1>3
    DEF Rebuilt, DrainedPCs, ReapedPCs, CapturedPCs, RestoredPCs, OwnerPCs, RebuildPCs
  <1>6. QED BY <1>1, <1>2, <1>4, <1>5, OwnerGoesOn

LEMMA SetRecoveryHighWaterRebuilds ==
    ASSUME Shape, ProtocolInv, RebuildInv, NEW p \in Procs, SetRecoveryHighWater(p)
    PROVE  RebuildInv'
  <1>1. /\ GoesOn(p) /\ run'[p].pc = "reset" /\ progress'.captured
        /\ \/ progress'.highWater = progress.highWater /\ progress.captured
           \/ progress'.highWater = Existing
    BY SetRecoveryHighWaterStep DEF Moved
  <1>2. /\ UNCHANGED <<control, redisData, worldVars>> /\ Owns(p)
        /\ run[p].pc = "highWater"
    BY DEF SetRecoveryHighWater, Owns, OwnerPCs, RebuildPCs
  <1>3. publishing = {} /\ provisional = {}
    BY <1>2
    DEF RebuildInv, Rebuilt, DrainedPCs, ReapedPCs, OwnerPCs, RebuildPCs
  <1>4. HighWaterOK'
    BY <1>1, <1>2, <1>3 DEF RebuildInv, HighWaterOK, worldVars, In, Existing
  <1>5. Rebuilt(p)'
    BY <1>1, <1>2, <1>3
    DEF Rebuilt, worldVars, redisData, DrainedPCs, ReapedPCs, CapturedPCs, RestoredPCs,
        OwnerPCs, RebuildPCs
  <1>6. QED BY <1>1, <1>2, <1>4, <1>5, OwnerGoesOn

LEMMA ResetResourceRebuilds ==
    ASSUME Shape, ProtocolInv, RebuildInv, NEW p \in Procs, ResetResource(p)
    PROVE  RebuildInv'
  <1>1. /\ UNCHANGED <<control, progress, provisional, worldVars>> /\ Owns(p)
        /\ run[p].pc = "reset"
    BY DEF ResetResource, Owns, OwnerPCs, RebuildPCs
  <1>2. CASE GoesOutside(p)
    BY <1>1, <1>2, OwnerLeaves DEF worldVars
  <1>3. CASE /\ GoesOn(p) /\ Moved(p, "known")
             /\ run'[p].cycle = 1 /\ run'[p].todo = TenantsOf(progress.highWater)
    <2>1. publishing = {} /\ provisional = {} /\ progress.captured
      BY <1>1
      DEF RebuildInv, Rebuilt, DrainedPCs, ReapedPCs, CapturedPCs, OwnerPCs, RebuildPCs
    <2>2. HighWaterOK'
      BY <1>1, HighWaterKept DEF worldVars, RebuildInv
    <2>3. Rebuilt(p)'
      BY <1>1, <1>3, <2>1
      DEF Rebuilt, Moved, worldVars, TenantsOf, DrainedPCs, ReapedPCs, CapturedPCs, RestoredPCs,
          OwnerPCs, RebuildPCs
    <2>4. QED BY <1>1, <1>3, <2>2, <2>3, OwnerGoesOn
  <1>4. QED BY <1>2, <1>3, ResetResourceStep

\* A mark moves neither the high water nor whether it was captured.
LEMMA MarkKeepsHighWater ==
    ASSUME Shape, NEW pass, NEW cycle, NEW diff,
           progress' = progress \/ progress' = Marked(pass, cycle, diff)
    PROVE  progress'.captured = progress.captured /\ progress'.highWater = progress.highWater
  BY DEF Shape, RedisShape, Progresses, Marked

LEMMA RestoreKnownRebuilds ==
    ASSUME Shape, ProtocolInv, RebuildInv, NEW p \in Procs, RestoreKnown(p)
    PROVE  RebuildInv'
  <1>1. /\ UNCHANGED <<control, active, stable, provisional, task, publishing, held, late>>
        /\ Owns(p) /\ run[p].pc = "known" /\ run[p].cycle \in Nat
        /\ control.state = "RECOVERING"
    BY DEF RestoreKnown, Owns, FenceOK, OwnerPCs, RebuildPCs, Shape, Rows, Row
  <1>2. progress'.captured = progress.captured /\ progress'.highWater = progress.highWater
    <2>1. progress' = progress \/ progress' = Marked("known", run[p].cycle, 0)
      BY DEF RestoreKnown, MarkRecoveryPass
    <2>2. QED BY <2>1, MarkKeepsHighWater
  <1>3. HighWaterOK'
    BY <1>1, <1>2, HighWaterKept DEF worldVars, RebuildInv
  <1>4. /\ publishing = {} /\ provisional = {} /\ progress.captured
        /\ TenantsOf(progress.highWater) \subseteq known \cup run[p].todo
        /\ run[p].cycle # 1 => /\ Claimed \subseteq stable
                               /\ TenantsOf(Waiting) \subseteq active \cap known
    BY <1>1
    DEF RebuildInv, Rebuilt, DrainedPCs, ReapedPCs, CapturedPCs, OwnerPCs, RebuildPCs
  <1>5. In("published") \cup In("running") \subseteq progress.highWater
    BY <1>1, <1>4 DEF RebuildInv, HighWaterOK
  <1>6. Claimed' = Claimed /\ (returned' = returned => Waiting' = Waiting)
    BY <1>1 DEF Waiting, Claimed, In
  <1>7. /\ TenantsOf(progress'.highWater) = TenantsOf(progress.highWater)
        /\ returned' = returned => TenantsOf(Waiting)' = TenantsOf(Waiting)
        /\ TenantsOf(progress.highWater)' = TenantsOf(progress.highWater)
    BY <1>2, <1>6 DEF TenantsOf
  <1>8. CASE GoesOutside(p)
    BY <1>1, <1>2, <1>8, OwnerLeaves DEF worldVars
  <1>9. CASE /\ GoesOn(p) /\ Moved(p, "known") /\ run'[p].cycle = run[p].cycle
             /\ \E t \in run[p].todo : known' = known \cup {t} /\ run'[p].todo = run[p].todo \ {t}
             /\ returned' = returned
    <2>1. Rebuilt(p)'
      BY <1>1, <1>2, <1>4, <1>6, <1>7, <1>9
      DEF Rebuilt, Moved, worldVars, DrainedPCs, ReapedPCs, CapturedPCs, RestoredPCs,
          OwnerPCs, RebuildPCs
    <2>2. QED BY <1>1, <1>3, <1>9, <2>1, OwnerGoesOn
  <1>10. CASE /\ GoesOn(p) /\ run[p].todo = {} /\ known' = known /\ Moved(p, "running")
              /\ run'[p].todo = In("running") \cap progress.highWater
    <2>1. Claimed \subseteq run'[p].todo
      BY <1>5, <1>10 DEF Claimed
    <2>2. Rebuilt(p)'
      BY <1>1, <1>2, <1>4, <1>6, <1>7, <1>10, <2>1
      DEF Rebuilt, Moved, worldVars, DrainedPCs, ReapedPCs, CapturedPCs, RestoredPCs,
          OwnerPCs, RebuildPCs
    <2>3. QED BY <1>1, <1>3, <1>10, <2>2, OwnerGoesOn
  <1>11. CASE /\ GoesOn(p) /\ run[p].todo = {} /\ known' = known /\ Moved(p, "dispatched")
              /\ run[p].cycle # 1
              /\ run'[p].todo = Dispatched
    <2>1. Waiting' \subseteq run'[p].todo
      BY <1>1, <1>5, <1>11 DEF Waiting, Dispatched, In
    <2>2. Rebuilt(p)'
      BY <1>1, <1>2, <1>4, <1>6, <1>7, <1>11, <2>1
      DEF Rebuilt, Moved, worldVars, DrainedPCs, ReapedPCs, CapturedPCs, RestoredPCs,
          OwnerPCs, RebuildPCs
    <2>3. QED BY <1>1, <1>3, <1>11, <2>2, OwnerGoesOn
  <1>12. QED BY <1>8, <1>9, <1>10, <1>11, RestoreKnownStep

LEMMA RestoreRunningRebuilds ==
    ASSUME Shape, ProtocolInv, RebuildInv, NEW p \in Procs, RestoreRunning(p)
    PROVE  RebuildInv'
  <1>1. /\ UNCHANGED <<control, progress, known, active, provisional, task, publishing, held,
                       late>>
        /\ Owns(p) /\ run[p].pc = "running" /\ control.state = "RECOVERING"
    BY DEF RestoreRunning, Owns, FenceOK, OwnerPCs, RebuildPCs
  <1>2. HighWaterOK'
    BY <1>1, HighWaterKept DEF worldVars, RebuildInv
  <1>3. /\ publishing = {} /\ provisional = {} /\ progress.captured
        /\ TenantsOf(progress.highWater) \subseteq known
        /\ Claimed \subseteq stable \cup run[p].todo
    BY <1>1
    DEF RebuildInv, Rebuilt, DrainedPCs, ReapedPCs, CapturedPCs, OwnerPCs, RebuildPCs
  <1>4. In("published") \cup In("running") \subseteq progress.highWater
    BY <1>1, <1>3 DEF RebuildInv, HighWaterOK
  <1>5. Claimed' = Claimed
    BY <1>1 DEF Claimed, In
  <1>6. TenantsOf(progress.highWater)' = TenantsOf(progress.highWater)
    BY <1>1 DEF TenantsOf
  <1>7. GoesOn(p)
    BY RestoreRunningStep
  <1>8. CASE /\ Moved(p, "running")
             /\ \E x \in run[p].todo : stable' = stable \cup {x} /\ run'[p].todo = run[p].todo \ {x}
    <2>1. Rebuilt(p)'
      BY <1>1, <1>3, <1>5, <1>6, <1>8
      DEF Rebuilt, Moved, worldVars, DrainedPCs, ReapedPCs, CapturedPCs, RestoredPCs,
          OwnerPCs, RebuildPCs
    <2>2. QED BY <1>1, <1>2, <1>7, <2>1, OwnerGoesOn
  <1>9. CASE /\ Moved(p, "dispatched") /\ run[p].todo = {} /\ stable' = stable
             /\ run'[p].todo = Dispatched
    <2>1. Waiting' \subseteq run'[p].todo
      BY <1>1, <1>4, <1>9 DEF Waiting, Dispatched, In
    <2>2. Rebuilt(p)'
      BY <1>1, <1>3, <1>5, <1>6, <1>9, <2>1
      DEF Rebuilt, Moved, worldVars, DrainedPCs, ReapedPCs, CapturedPCs, RestoredPCs,
          OwnerPCs, RebuildPCs
    <2>3. QED BY <1>1, <1>2, <1>7, <2>2, OwnerGoesOn
  <1>10. QED BY <1>8, <1>9, RestoreRunningStep

LEMMA RestoreDispatchedRebuilds ==
    ASSUME Shape, ProtocolInv, RebuildInv, NEW p \in Procs, RestoreDispatched(p)
    PROVE  RebuildInv'
  <1>1. /\ UNCHANGED <<control, stable, provisional, worldVars>> /\ Owns(p)
        /\ run[p].pc = "dispatched"
    BY DEF RestoreDispatched, Owns, OwnerPCs, RebuildPCs
  <1>2. progress'.captured = progress.captured /\ progress'.highWater = progress.highWater
    <2>1. progress' = progress \/ progress' = Marked("dispatched", run[p].cycle, 0)
      BY DEF RestoreDispatched, MarkRecoveryPass
    <2>2. QED BY <2>1, MarkKeepsHighWater
  <1>3. HighWaterOK'
    BY <1>1, <1>2, HighWaterKept DEF worldVars, RebuildInv
  <1>4. /\ publishing = {} /\ provisional = {} /\ progress.captured
        /\ TenantsOf(progress.highWater) \subseteq known /\ Claimed \subseteq stable
        /\ \A x \in Waiting : x \in run[p].todo \/ TenantOf[x] \in active \cap known
    BY <1>1
    DEF RebuildInv, Rebuilt, DrainedPCs, ReapedPCs, CapturedPCs, OwnerPCs, RebuildPCs
  <1>5. Waiting' = Waiting /\ Claimed' = Claimed
    BY <1>1 DEF Waiting, Claimed, In, worldVars
  <1>6. TenantsOf(progress.highWater)' = TenantsOf(progress.highWater)
    BY <1>2 DEF TenantsOf
  <1>7. CASE GoesOutside(p)
    BY <1>1, <1>2, <1>7, OwnerLeaves DEF worldVars
  <1>8. CASE /\ GoesOn(p) /\ Moved(p, "dispatched") /\ run'[p].cycle = run[p].cycle
             /\ \E x \in run[p].todo :
                  /\ run'[p].todo = run[p].todo \ {x}
                  /\ active \subseteq active' /\ known \subseteq known'
                  /\ ReadyDepthPositive(TenantOf[x]) => TenantOf[x] \in active' \cap known'
    <2>1. \A y \in Waiting : y \in run'[p].todo \/ TenantOf[y] \in active' \cap known'
      BY <1>4, <1>8 DEF ReadyDepthPositive, TenantsOf, Waiting
    <2>2. known \subseteq known'
      BY <1>8
    <2>3. Rebuilt(p)'
      BY <1>1, <1>2, <1>4, <1>5, <1>6, <1>8, <2>1, <2>2
      DEF Rebuilt, Moved, worldVars, DrainedPCs, ReapedPCs, CapturedPCs, RestoredPCs,
          OwnerPCs, RebuildPCs
    <2>4. QED BY <1>1, <1>3, <1>8, <2>3, OwnerGoesOn
  <1>9. CASE /\ GoesOn(p) /\ run[p].todo = {} /\ known' = known /\ active' = active
             /\ \E label \in {"canonical", "commitCheck", "finish"} : Moved(p, label)
    <2>1. TenantsOf(Waiting)' \subseteq active' \cap known'
      BY <1>4, <1>5, <1>9 DEF TenantsOf
    <2>2. Rebuilt(p)'
      BY <1>1, <1>2, <1>4, <1>5, <1>6, <1>9, <2>1
      DEF Rebuilt, Moved, worldVars, DrainedPCs, ReapedPCs, CapturedPCs, RestoredPCs,
          OwnerPCs, RebuildPCs
    <2>3. QED BY <1>1, <1>3, <1>9, <2>2, OwnerGoesOn
  <1>10. QED BY <1>7, <1>8, <1>9, RestoreDispatchedStep

\* What an owner at a place behind the first dispatched pass has rebuilt.
LEMMA RestoredFacts ==
    ASSUME RebuildInv, NEW p \in Procs, Owns(p), run[p].pc \in RestoredPCs
    PROVE  /\ publishing = {} /\ provisional = {} /\ progress.captured
           /\ TenantsOf(progress.highWater) \subseteq known /\ Claimed \subseteq stable
           /\ TenantsOf(Waiting) \subseteq active \cap known
           /\ In("published") \cup In("running") \subseteq progress.highWater
  <1>1. run[p].pc \in CapturedPCs \ {"reset", "known"} /\ run[p].pc \in ReapedPCs
        /\ run[p].pc \in DrainedPCs
    BY DEF DrainedPCs, ReapedPCs, CapturedPCs, RestoredPCs, OwnerPCs, RebuildPCs
  <1>2. Rebuilt(p) /\ HighWaterOK /\ control.state = "RECOVERING"
    BY DEF RebuildInv, Owns, FenceOK
  <1>3. QED BY <1>1, <1>2 DEF Rebuilt, HighWaterOK

\* They stay true over a step that only works on the stable reservations.
LEMMA RestoredKept ==
    ASSUME RebuildInv, NEW p \in Procs, Owns(p), run[p].pc \in RestoredPCs,
           UNCHANGED <<control, known, active, provisional, worldVars>>,
           progress'.captured = progress.captured, progress'.highWater = progress.highWater,
           run'[p].pc \in RestoredPCs \cup {"known"},
           run'[p].pc = "known" => TenantsOf(progress.highWater) \subseteq run'[p].todo,
           Claimed \subseteq stable',
           run'[p].pc = "listStable" => Claimed \subseteq run'[p].todo,
           run'[p].pc = "repair" => Claimed \cap run'[p].stale = {}
    PROVE  HighWaterOK' /\ Rebuilt(p)'
  <1>1. HighWaterOK'
    BY HighWaterKept DEF worldVars, RebuildInv
  <1>2. Waiting' = Waiting /\ Claimed' = Claimed
    BY DEF Waiting, Claimed, In, worldVars
  <1>3. TenantsOf(progress.highWater)' = TenantsOf(progress.highWater)
        /\ TenantsOf(Waiting)' = TenantsOf(Waiting)
    BY <1>2 DEF TenantsOf
  <1>4. publishing' = publishing
    BY DEF worldVars
  <1>5. Rebuilt(p)'
    BY <1>2, <1>3, <1>4, RestoredFacts
    DEF Rebuilt, DrainedPCs, ReapedPCs, CapturedPCs, RestoredPCs, OwnerPCs, RebuildPCs
  <1>6. QED BY <1>1, <1>5

LEMMA LoadCanonicalStableRebuilds ==
    ASSUME Shape, ProtocolInv, RebuildInv, NEW p \in Procs, LoadCanonicalStable(p)
    PROVE  RebuildInv'
  <1>1. /\ UNCHANGED <<control, progress, redisData, worldVars>> /\ Owns(p)
        /\ run[p].pc \in RestoredPCs
    BY Unchanged
    DEF LoadCanonicalStable, Owns, DrainedPCs, ReapedPCs, CapturedPCs, RestoredPCs, OwnerPCs,
        RebuildPCs
  <1>2. GoesOn(p) /\ run'[p].pc = "listStable" /\ run'[p].todo = In("running") \cap progress.highWater
    BY LoadCanonicalStableStep DEF Moved
  <1>3. Claimed \subseteq run'[p].todo
    BY <1>1, <1>2, RestoredFacts DEF Claimed
  <1>4. HighWaterOK' /\ Rebuilt(p)'
    BY <1>1, <1>2, <1>3, RestoredFacts, RestoredKept
    DEF redisData, DrainedPCs, ReapedPCs, CapturedPCs, RestoredPCs, OwnerPCs, RebuildPCs
  <1>5. QED BY <1>1, <1>2, <1>4, OwnerGoesOn

LEMMA LoadRedisStableRebuilds ==
    ASSUME Shape, ProtocolInv, RebuildInv, NEW p \in Procs, LoadRedisStable(p)
    PROVE  RebuildInv'
  <1>1. /\ UNCHANGED <<control, progress, redisData, worldVars>> /\ Owns(p)
        /\ run[p].pc = "listStable" /\ run[p].pc \in RestoredPCs
    BY Unchanged
    DEF LoadRedisStable, Owns, DrainedPCs, ReapedPCs, CapturedPCs, RestoredPCs, OwnerPCs,
        RebuildPCs
  <1>2. GoesOn(p) /\ run'[p].pc = "repair" /\ run'[p].stale = stable \ run[p].todo
    BY LoadRedisStableStep DEF Moved
  <1>3. Claimed \cap run'[p].stale = {}
    BY <1>1, <1>2 DEF RebuildInv, Rebuilt
  <1>4. HighWaterOK' /\ Rebuilt(p)'
    BY <1>1, <1>2, <1>3, RestoredFacts, RestoredKept
    DEF redisData, DrainedPCs, ReapedPCs, CapturedPCs, RestoredPCs, OwnerPCs, RebuildPCs
  <1>5. QED BY <1>1, <1>2, <1>4, OwnerGoesOn

LEMMA RepairStableRebuilds ==
    ASSUME Shape, ProtocolInv, RebuildInv, NEW p \in Procs, RepairStable(p)
    PROVE  RebuildInv'
  <1>1. /\ UNCHANGED <<control, progress, known, active, provisional, worldVars>> /\ Owns(p)
        /\ run[p].pc = "repair" /\ run[p].pc \in RestoredPCs
    BY DEF RepairStable, Owns, DrainedPCs, ReapedPCs, CapturedPCs, RestoredPCs, OwnerPCs,
           RebuildPCs
  <1>2. Claimed \subseteq stable /\ Claimed \cap run[p].stale = {}
    BY <1>1, RestoredFacts DEF RebuildInv, Rebuilt
  <1>3. /\ GoesOn(p) /\ run'[p].pc \in {"repair", "mark"} /\ Claimed \subseteq stable'
        /\ run'[p].pc = "repair" => Claimed \cap run'[p].stale = {}
    <2>1. CASE /\ Moved(p, "repair")
               /\ \E x \in run[p].stale : /\ stable' = stable \ {x}
                                          /\ run'[p].stale = run[p].stale \ {x}
      BY <1>2, <2>1, RepairStableStep DEF Moved
    <2>2. CASE Moved(p, "repair") /\ stable \subseteq stable' /\ run'[p].stale = {}
      BY <1>2, <2>2, RepairStableStep DEF Moved
    <2>3. CASE Moved(p, "mark") /\ stable' = stable
      BY <1>2, <2>3, RepairStableStep DEF Moved
    <2>4. QED BY <2>1, <2>2, <2>3, RepairStableStep
  <1>4. HighWaterOK' /\ Rebuilt(p)'
    BY <1>1, <1>3, RestoredKept
    DEF DrainedPCs, ReapedPCs, CapturedPCs, RestoredPCs, OwnerPCs, RebuildPCs
  <1>5. QED BY <1>1, <1>3, <1>4, OwnerGoesOn

LEMMA MarkRunningRebuilds ==
    ASSUME Shape, ProtocolInv, RebuildInv, NEW p \in Procs, MarkRunning(p)
    PROVE  RebuildInv'
  <1>1. /\ UNCHANGED <<control, redisData, worldVars>> /\ Owns(p)
        /\ run[p].pc \in RestoredPCs
    BY DEF MarkRunning, Owns, DrainedPCs, ReapedPCs, CapturedPCs, RestoredPCs, OwnerPCs,
           RebuildPCs
  <1>2. progress'.captured = progress.captured /\ progress'.highWater = progress.highWater
    <2>1. progress' = progress \/ progress' = Marked("running", run[p].cycle, run[p].diff)
      BY DEF MarkRunning, MarkRecoveryPass
    <2>2. QED BY <2>1, MarkKeepsHighWater
  <1>3. CASE GoesOutside(p)
    BY <1>1, <1>2, <1>3, OwnerLeaves DEF worldVars
  <1>4. CASE /\ GoesOn(p)
             /\ \/ Moved(p, "known") /\ run'[p].todo = TenantsOf(progress.highWater)
                \/ Moved(p, "canonical")
    <2>1. /\ run'[p].pc \in {"known", "canonical"}
          /\ run'[p].pc = "known" => TenantsOf(progress.highWater) \subseteq run'[p].todo
      BY <1>4 DEF Moved
    <2>2. Claimed \subseteq stable' /\ UNCHANGED <<known, active, provisional>>
      BY <1>1, RestoredFacts DEF redisData
    <2>3. HighWaterOK' /\ Rebuilt(p)'
      BY <1>1, <1>2, <2>1, <2>2, RestoredKept
      DEF DrainedPCs, ReapedPCs, CapturedPCs, RestoredPCs, OwnerPCs, RebuildPCs
    <2>4. QED BY <1>1, <1>4, <2>3, OwnerGoesOn
  <1>5. QED BY <1>3, <1>4, MarkRunningStep

(***************************************************************************)
(* What has been rebuilt: the other steps.                                  *)
(***************************************************************************)
LEMMA OutsideAside ==
    ASSUME Shape, ProtocolInv, RebuildInv, NEW p \in Procs, GoesOutside(p),
           UNCHANGED <<control, progress, redisData, worldVars>>
    PROVE  RebuildInv'
  BY AsideKeeps DEF GoesOutside, OutsidePCs, OwnerPCs, RebuildPCs

LEMMA StartStepRebuilds ==
    ASSUME Shape, ProtocolInv, RebuildInv, NEW p \in Procs, StartStep(p)
    PROVE  RebuildInv'
  <1>1. CASE StartFenceBusy(p)
    BY <1>1, StartFenceBusyStep, Unchanged, OutsideAside DEF StartFenceBusy
  <1>2. CASE AcquireStartFence(p)
    BY <1>2, AcquireStartFenceStep, Unchanged, OutsideAside DEF AcquireStartFence
  <1>3. CASE AcquireRawLock(p)
    <2>1. UNCHANGED <<control, progress, redisData, worldVars>> /\ FreshTokens # {}
      BY <1>3 DEF AcquireRawLock
    <2>2. CASE lock' = NextToken
               /\ run' = [run EXCEPT ![p].pc = "inspect", ![p].token = NextToken]
      <3>1. OnlyRow(p) /\ run'[p].pc = "inspect"
        BY <2>2 DEF OnlyRow, Shape, Rows, Row
      <3>2. lock' \in FreshTokens
        BY <2>1, <2>2 DEF NextToken
      <3>3. QED BY <2>1, <3>1, <3>2, AsideKeeps DEF OwnerPCs, RebuildPCs
    <2>3. CASE LeavesStart(p) /\ UNCHANGED lock
      <3>1. Gone(p)
        BY <2>3, GoneFacts DEF Shape
      <3>2. QED BY <2>1, <2>3, <3>1, AsideKeeps DEF Gone, OwnerPCs, RebuildPCs
    <2>4. QED BY <1>3, <2>2, <2>3 DEF AcquireRawLock
  <1>4. CASE StartLost(p)
    BY <1>4, StartLostStep, OutsideAside DEF StartLost
  <1>5. QED BY <1>1, <1>2, <1>3, <1>4 DEF StartStep

\* p stays in front of its Begin, or goes away.
LEMMA BeforeBegin ==
    ASSUME Shape, ProtocolInv, RebuildInv, NEW p \in Procs,
           UNCHANGED <<control, progress, redisData, worldVars>>,
           \/ BecomesIdle(p) \/ Stops(p) \/ LeavesStart(p)
           \/ \E label \in HoldingPCs \cup {"complete"} : Goto(p, label)
           \/ \E label \in {"check", "begin", "complete"}, row \in Record :
                run' = [run EXCEPT ![p].pc = label, ![p].record = row],
           lock' \in {lock, None}
    PROVE  RebuildInv'
  <1>1. CASE BecomesIdle(p) \/ Stops(p) \/ LeavesStart(p)
    <2>1. Gone(p)
      BY <1>1, GoneFacts DEF Shape
    <2>2. QED BY <2>1, AsideKeeps DEF Gone, OwnerPCs, RebuildPCs
  <1>2. CASE \E label \in HoldingPCs \cup {"complete"} : Goto(p, label)
    <2>1. OnlyRow(p) /\ run'[p].pc \in HoldingPCs \cup {"complete"}
      BY <1>2 DEF Goto, OnlyRow, Shape, Rows, Row
    <2>2. QED BY <2>1, AsideKeeps DEF HoldingPCs, OwnerPCs, RebuildPCs
  <1>3. CASE \E label \in {"check", "begin", "complete"}, row \in Record :
                run' = [run EXCEPT ![p].pc = label, ![p].record = row]
    <2>1. OnlyRow(p) /\ run'[p].pc \in {"check", "begin", "complete"}
      BY <1>3 DEF OnlyRow, Shape, Rows, Row
    <2>2. QED BY <2>1, AsideKeeps DEF OwnerPCs, RebuildPCs
  <1>4. QED BY <1>1, <1>2, <1>3

LEMMA InspectRebuilds ==
    ASSUME Shape, ProtocolInv, RebuildInv, NEW p \in Procs,
           InspectRecoveryStart(p) \/ RecheckJournal(p)
    PROVE  RebuildInv'
  <1>1. /\ UNCHANGED <<control, progress, redisData, worldVars>>
        /\ lock' \in {lock, None}
    BY RefusedFacts DEF InspectRecoveryStart, RecheckJournal
  <1>2. Stops(p) \/ \E label \in HoldingPCs \cup {"complete"} : Goto(p, label)
    BY DEF InspectRecoveryStart, RecheckJournal, HoldingPCs
  <1>3. QED BY <1>1, <1>2, BeforeBegin

LEMMA ForceStartRebuilds ==
    ASSUME Shape, ProtocolInv, RebuildInv, NEW o \in Operators,
           ForceStartAllowed(o) \/ CheckRecoveryLock(o) \/ BeginSpecial(o)
    PROVE  RebuildInv'
  <1> o \in Procs BY DEF Procs
  <1>1. CASE ForceStartAllowed(o)
    <2>1. /\ UNCHANGED <<control, progress, redisData, worldVars>>
          /\ lock' \in {lock, None}
      BY <1>1, RefusedFacts DEF ForceStartAllowed
    <2>2. \/ BecomesIdle(o)
          \/ \E label \in {"check", "begin", "complete"}, row \in Record :
               run' = [run EXCEPT ![o].pc = label, ![o].record = row]
      <3> DEFINE fresh == [NoRecord EXCEPT !.phase = "ACTIVE", !.op = NextToken]
      <3>1. journal \in Record /\ fresh \in Record
        BY <1>1, NextTokenFresh DEF ForceStartAllowed, Shape, NoRecord, Record, Token
      <3>2. \/ BecomesIdle(o)
            \/ run' = [run EXCEPT ![o].pc = "complete", ![o].record = journal]
            \/ run' = [run EXCEPT ![o].pc = "check", ![o].record = journal]
            \/ run' = [run EXCEPT ![o].pc = "check", ![o].record = fresh]
        BY <1>1 DEF ForceStartAllowed
      <3> HIDE DEF fresh
      <3>3. QED BY <3>1, <3>2
    <2>3. QED BY <2>1, <2>2, BeforeBegin
  <1>2. CASE CheckRecoveryLock(o)
    <2>1. /\ UNCHANGED <<lock, control, progress, redisData, worldVars>>
          /\ Goto(o, "journal")
      BY <1>2, Unchanged DEF CheckRecoveryLock
    <2>2. QED BY <2>1, BeforeBegin DEF HoldingPCs
  <1>3. CASE BeginSpecial(o)
    <2>1. /\ UNCHANGED <<control, progress, redisData, worldVars>>
          /\ lock' \in {lock, None}
      BY <1>3, RefusedFacts DEF BeginSpecial
    <2>2. \/ BecomesIdle(o) \/ Goto(o, "begin")
          \/ run' = [run EXCEPT ![o].pc = "begin", ![o].record = journal]
      BY <1>3 DEF BeginSpecial
    <2>3. journal \in Record
      BY DEF Shape
    <2>4. QED BY <2>1, <2>2, <2>3, BeforeBegin DEF HoldingPCs
  <1>4. QED BY <1>1, <1>2, <1>3

LEMMA BeginRecoveryRebuilds ==
    ASSUME Shape, ProtocolInv, RebuildInv, NEW p \in Procs, BeginRecovery(p)
    PROVE  RebuildInv'
  <1>1. CASE ~(BeginInitializes(p) \/ BeginTakesOver(p))
    <2>1. /\ UNCHANGED <<control, progress, redisData, worldVars>>
          /\ LeavesStart(p) /\ lock' \in {lock, None}
      BY <1>1, RefusedFacts DEF BeginRecovery, worldVars
    <2>2. QED BY <2>1, BeforeBegin
  <1>2. CASE Begins(p)
    <2>1. HighWaterOK'
      <3>1. CASE BeginInitializes(p)
        BY <1>2, <3>1 DEF Begins, NoProgress, HighWaterOK
      <3>2. CASE ~BeginInitializes(p)
        <4>1. progress' = progress /\ control.state = "RECOVERING" /\ UNCHANGED <<task, publishing>>
          BY <1>2, <3>2 DEF Begins, BeginTakesOver
        <4>2. QED BY <4>1 DEF RebuildInv, HighWaterOK, In
      <3>3. QED BY <3>1, <3>2
    <2>2. ASSUME NEW q \in Procs, Owns(q)'
          PROVE  Rebuilt(q)'
      <3>1. CASE q = p
        <4>1. run'[p].pc \in {"wait", "drain"}
          BY <1>2, <2>2, <3>1 DEF Begins, Moved, Gone, Owns, OwnerPCs, RebuildPCs
        <4>2. QED BY <3>1, <4>1, NothingYet
      <3>2. CASE q # p
        <4>1. run'[q] = run[q] /\ lock' = run[p].token
          BY <1>2, <3>2 DEF Begins, OnlyRow
        <4>2. run[q].token = run[p].token
          BY <2>2, <4>1 DEF Owns, FenceOK
        <4>3. run[q].token # None
          BY <2>2, <4>1, OwnerHasToken DEF Owns
        <4>4. QED BY <3>2, <4>2, <4>3 DEF ProtocolInv, PairOK
      <3>3. QED BY <3>1, <3>2
    <2>3. QED BY <2>1, <2>2 DEF RebuildInv
  <1>3. CASE GoesOutside(p) /\ (BeginInitializes(p) \/ BeginTakesOver(p))
    <2>1. /\ progress' = IF BeginInitializes(p) THEN NoProgress ELSE progress
          /\ control' = control /\ lock' = lock /\ control'.state = "RECOVERING"
          /\ lock = run[p].token /\ control'.epoch = lock
          /\ task' = task /\ publishing' = publishing
      BY <1>3 DEF BeginRecovery, GoesOutside, Quiet
    <2>2. HighWaterOK'
      BY <2>1 DEF RebuildInv, HighWaterOK, NoProgress, In
    <2>3. ASSUME NEW q \in Procs
          PROVE  ~Owns(q)'
      <3>1. CASE q = p
        BY <1>3, <3>1 DEF GoesOutside, Owns, OutsidePCs, OwnerPCs, RebuildPCs
      <3>2. CASE q # p
        <4> SUFFICES ASSUME Owns(q)' PROVE FALSE
          OBVIOUS
        <4>1. run'[q] = run[q]
          BY <1>3, <3>2 DEF GoesOutside, OnlyRow
        <4>2. run[q].token = run[p].token /\ run[q].token # None
          BY <2>1, <4>1, OwnerHasToken DEF Owns, FenceOK
        <4>3. QED BY <3>2, <4>2 DEF ProtocolInv, PairOK
      <3>3. QED BY <3>1, <3>2
    <2>4. QED BY <2>2, <2>3 DEF RebuildInv
  <1>4. QED BY <1>1, <1>2, <1>3, BeginsShape

LEMMA FinishRecoveryRebuilds ==
    ASSUME Shape, ProtocolInv, RebuildInv, NEW p \in Procs, FinishRecovery(p)
    PROVE  RebuildInv'
  <1>1. CASE FinishCommitted(p) \/ Finishable(p)
    <2>1. control'.state = "READY"
      BY <1>1 DEF FinishRecovery, FinishCommitted, Shape, RedisShape, Controls
    <2>2. QED BY <2>1, ClosedKeeps
  <1>2. CASE ~FinishCommitted(p) /\ ~Finishable(p)
    <2>1. /\ UNCHANGED <<lock, control, progress, redisData, worldVars>> /\ BecomesIdle(p)
      BY <1>2 DEF FinishRecovery, worldVars
    <2>2. QED BY <2>1, BeforeBegin
  <1>3. QED BY <1>1, <1>2

\* After its Finish.
LEMMA FinishedRebuilds ==
    ASSUME Shape, ProtocolInv, RebuildInv, NEW p \in Procs, ObserveFinished(p) \/ Complete(p)
    PROVE  RebuildInv'
  <1>1. /\ UNCHANGED <<control, progress, redisData, worldVars>>
        /\ lock' \in {lock, None}
    BY Unchanged, RefusedFacts DEF ObserveFinished, Complete
  <1>2. CASE BecomesIdle(p) \/ LeavesStart(p) \/ Goto(p, "complete")
    BY <1>1, <1>2, BeforeBegin
  <1>3. CASE \/ Goto(p, "rejoin")
             \/ \E row \in {journal'} :
                  run' = [run EXCEPT ![p].pc = "reconcile", ![p].token = None,
                                     ![p].record = row]
    <2>1. OnlyRow(p) /\ run'[p].pc \in {"rejoin", "reconcile"}
      BY <1>3 DEF Goto, OnlyRow, Shape, Rows, Row
    <2>2. QED BY <1>1, <2>1, AsideKeeps DEF OwnerPCs, RebuildPCs
  <1>4. QED BY <1>2, <1>3 DEF ObserveFinished, Complete

LEMMA ForceDeleteRebuilds ==
    ASSUME Shape, ProtocolInv, RebuildInv, NEW o \in Operators,
           \/ WaitForForceDeadline(o) \/ DeleteForceOwnedKeys(o)
           \/ MarkForceDeleteJournal(o) \/ MarkForceDeleteRedis(o)
    PROVE  RebuildInv'
  <1> o \in Procs BY DEF Procs
  <1>1. CASE WaitForForceDeadline(o)
    <2>1. UNCHANGED <<lock, control, progress, redisData, worldVars>>
      BY <1>1, Unchanged DEF WaitForForceDeadline
    <2>2. CASE GoesOutside(o)
      BY <2>1, <2>2, OutsideAside
    <2>3. CASE GoesOn(o) /\ Moved(o, "delete")
      BY <2>1, <2>3, AsideKeeps DEF Moved
    <2>4. QED BY <1>1, <2>2, <2>3, WaitForForceDeadlineStep
  <1>2. CASE DeleteForceOwnedKeys(o)
    <2>1. /\ UNCHANGED <<control, progress, worldVars>> /\ Owns(o)
          /\ GoesOn(o) /\ run'[o].pc = "markJournal"
      BY <1>2, DeleteForceOwnedKeysStep DEF DeleteForceOwnedKeys, Owns, OwnerPCs, Moved
    <2>2. HighWaterOK' /\ Rebuilt(o)'
      BY <2>1, HighWaterKept, NothingYet DEF worldVars, RebuildInv
    <2>3. QED BY <2>1, <2>2, OwnerGoesOn
  <1>3. CASE MarkForceDeleteJournal(o)
    <2>1. UNCHANGED <<lock, control, progress, redisData, worldVars>>
      BY <1>3, Unchanged DEF MarkForceDeleteJournal
    <2>2. CASE BecomesIdle(o)
      BY <2>1, <2>2, BeforeBegin
    <2>3. CASE \/ Goto(o, "markRedis")
               \/ run' = [run EXCEPT ![o].pc = "markRedis", ![o].record = journal']
      <3>1. OnlyRow(o) /\ run'[o].pc = "markRedis"
        BY <2>3 DEF Goto, OnlyRow, Shape, Rows, Row
      <3>2. QED BY <2>1, <3>1, AsideKeeps
    <2>4. QED BY <1>3, <2>2, <2>3 DEF MarkForceDeleteJournal, JournalStep
  <1>4. CASE MarkForceDeleteRedis(o)
    <2>1. /\ UNCHANGED <<control, redisData, worldVars>> /\ Owns(o)
          /\ progress'.captured = progress.captured
          /\ progress'.highWater = progress.highWater
      BY <1>4 DEF MarkForceDeleteRedis, Owns, OwnerPCs, Shape, RedisShape, Progresses
    <2>2. CASE GoesOutside(o)
      BY <2>1, <2>2, OwnerLeaves DEF worldVars
    <2>3. CASE GoesOn(o) /\ Moved(o, "drain")
      <3>1. HighWaterOK' /\ Rebuilt(o)'
        BY <2>1, <2>3, HighWaterKept, NothingYet DEF worldVars, RebuildInv, Moved
      <3>2. QED BY <2>1, <2>3, <3>1, OwnerGoesOn
    <2>4. QED BY <1>4, <2>2, <2>3, MarkForceDeleteRedisStep
  <1>5. QED BY <1>1, <1>2, <1>3, <1>4

LEMMA CommitRebuilds ==
    ASSUME Shape, ProtocolInv, RebuildInv, NEW o \in Operators,
           RenewBeforeJournal(o) \/ CommitReady(o)
    PROVE  RebuildInv'
  <1> o \in Procs BY DEF Procs
  <1>1. /\ UNCHANGED <<lock, control, progress, redisData, worldVars>>
        /\ run[o].pc \in OwnerPCs /\ run[o].pc \in RestoredPCs
    BY Unchanged
    DEF RenewBeforeJournal, CommitReady, OwnerPCs, RebuildPCs, DrainedPCs, ReapedPCs,
        CapturedPCs, RestoredPCs
  <1>2. CASE BecomesIdle(o)
    BY <1>1, <1>2, BeforeBegin
  <1>3. ASSUME run'[o].pc \in {"commit", "finish", "finishCheck"}, OnlyRow(o),
               run'[o].token = run[o].token, run'[o].record.op = run[o].record.op
        PROVE  RebuildInv'
    <2>1. HighWaterOK'
      BY <1>1, HighWaterKept DEF worldVars, RebuildInv
    <2>2. ASSUME Owns(o)'
          PROVE  Rebuilt(o)'
      <3>1. Owns(o)
        BY <1>1, <1>3, <2>2 DEF Owns, FenceOK, OpOf
      <3>2. Claimed \subseteq stable' /\ UNCHANGED <<known, active, provisional>>
        BY <1>1, <3>1, RestoredFacts DEF redisData
      <3>3. QED
        BY <1>1, <1>3, <3>1, <3>2, RestoredKept
        DEF OwnerPCs, RebuildPCs, DrainedPCs, ReapedPCs, CapturedPCs, RestoredPCs
    <2>3. QED BY <1>1, <1>3, <2>1, <2>2, RebuildKept
  <1>4. CASE RenewBeforeJournal(o)
    <2>1. /\ run'[o].pc \in {"commit", "finish"} /\ OnlyRow(o)
          /\ run'[o].token = run[o].token /\ run'[o].record = run[o].record
      BY <1>4 DEF RenewBeforeJournal, Goto, OnlyRow, Shape, Rows, Row
    <2>2. QED BY <1>3, <2>1
  <1>5. CASE CommitReady(o) /\ ~BecomesIdle(o)
    <2> DEFINE row == Updated(o, journal.phase \in {"READY_COMMITTED", "COMPLETED"},
                              [journal EXCEPT !.phase = "READY_COMMITTED"])
    <2>1. row # NoRecord
          /\ run' = [run EXCEPT ![o].pc = "finishCheck", ![o].record = row]
      BY <1>5 DEF CommitReady, JournalStep
    <2>2. row.op = run[o].record.op
      <3>1. \/ row = journal /\ journal.op = run[o].record.op
            \/ /\ row = [journal EXCEPT !.phase = "READY_COMMITTED"]
               /\ journal = run[o].record
        BY <2>1 DEF Updated
      <3>2. journal \in Record
        BY DEF Shape
      <3> HIDE DEF row
      <3>3. QED BY <3>1, <3>2 DEF Record
    <2> HIDE DEF row
    <2>3. /\ run'[o].pc = "finishCheck" /\ OnlyRow(o)
          /\ run'[o].token = run[o].token /\ run'[o].record = row
      BY <2>1 DEF OnlyRow, Shape, Rows, Row
    <2>4. QED BY <1>3, <2>2, <2>3
  <1>6. QED BY <1>2, <1>4, <1>5

\* What runs beside a rebuild.
LEMMA ReadyStepRebuilds ==
    ASSUME Shape, ProtocolInv, RebuildInv, NEW p \in Procs, ReconcileReady(p)
    PROVE  RebuildInv'
  <1>1. CASE CurrentReady(p)
    <2>1. control'.state = "READY"
      BY <1>1 DEF ReconcileReady, CurrentReady
    <2>2. QED BY <2>1, ClosedKeeps
  <1>2. CASE ~CurrentReady(p)
    <2>1. /\ UNCHANGED <<lock, control, progress, redisData, worldVars>> /\ BecomesIdle(p)
      BY <1>2 DEF ReconcileReady, redisData
    <2>2. QED BY <2>1, BeforeBegin
  <1>3. QED BY <1>1, <1>2

LEMMA LossRebuilds ==
    ASSUME Shape, ProtocolInv, RebuildInv,
           \/ \E p \in Procs : LoseSession(p)
           \/ LockExpires \/ OrphanLockExpires \/ RedisLosesState \/ UNCHANGED vars
    PROVE  RebuildInv'
  <1>1. CASE RedisLosesState
    <2>1. control'.state = "ABSENT"
      BY <1>1 DEF RedisLosesState, NoControl
    <2>2. QED BY <2>1, ClosedKeeps
  <1>2. CASE ~RedisLosesState
    <2>1. /\ UNCHANGED <<control, progress, redisData, worldVars, run>>
          /\ lock' \in {lock, None}
      BY <1>2, Unchanged DEF LoseSession, LockExpires, OrphanLockExpires, vars, redisData, worldVars
    <2>2. HighWaterOK'
      BY <2>1, HighWaterKept DEF worldVars, RebuildInv
    <2>3. ASSUME NEW q \in Procs, Owns(q)'
          PROVE  Rebuilt(q)'
      <3>1. Owns(q)
        <4>1. lock' # None
          BY <2>1, <2>3, OwnerHasToken DEF Owns, FenceOK
        <4>2. QED BY <2>1, <2>3, <4>1 DEF Owns, FenceOK, OpOf
      <3>2. QED
        BY <2>1, <3>1
        DEF RebuildInv, Rebuilt, redisData, worldVars, In, Waiting, Claimed, TenantsOf
    <2>4. QED BY <2>2, <2>3 DEF RebuildInv
  <1>3. QED BY <1>1, <1>2

\* While a resource is RECOVERING, tasks move on without its Redis state: a
\* publish attempt that is still open excludes a captured high water, and a
\* claim behind the drain is late.
LEMMA TaskStepRebuilds ==
    ASSUME Shape, ProtocolInv, RebuildInv, NEW x \in Tasks, TaskStep(x)
    PROVE  RebuildInv'
  <1>0. UNCHANGED <<lock, control, progress, run>>
    BY TaskStepMoves DEF TaskMoves
  <1>1. CASE control.state # "RECOVERING"
    BY <1>0, <1>1, ClosedKeeps
  <1>2. CASE control.state = "RECOVERING"
    <2>1. \A q \in Procs : Owns(q)' = Owns(q)
      BY <1>0 DEF Owns, FenceOK, OpOf
    <2>2. UNCHANGED <<known, active, stable, provisional>>
      BY <1>2
      DEF TaskStep, CreateTask, StartPublish, FinishPublish, AcquireProvisional, ClaimTask,
          GetDelivery, LeaveAdmission, EndTask, Ready, redisVars
    <2>3. SUFFICES ASSUME HighWaterOK, \A q \in Procs : Owns(q) => Rebuilt(q)
                   PROVE  HighWaterOK' /\ \A q \in Procs : Owns(q) => Rebuilt(q)'
      BY <2>1 DEF RebuildInv
    <2>4. CASE FinishPublish(x)
      <3>1. publishing # {}
        BY <2>4 DEF FinishPublish
      <3>2. HighWaterOK'
        BY <1>0, <2>3, <3>1 DEF HighWaterOK
      <3>3. ASSUME NEW q \in Procs, Owns(q)
            PROVE  Rebuilt(q)'
        <4>1. run[q].pc \notin DrainedPCs
          BY <2>3, <3>1, <3>3 DEF Rebuilt
        <4>2. run'[q].pc \in {"wait", "delete", "markJournal", "markRedis", "drain"}
          BY <1>0, <3>3, <4>1 DEF Owns, DrainedPCs
        <4>3. QED BY <4>2, NothingYet
      <3>4. QED BY <3>2, <3>3
    <2>5. CASE ~FinishPublish(x)
      <3>1. /\ publishing' = publishing
            /\ In("published")' \subseteq In("published")
            /\ (In("published") \cup In("running"))' \subseteq In("published") \cup In("running")
            /\ \/ Claimed' \subseteq Claimed
               \/ provisional # {} /\ late' = late
            /\ Waiting' \subseteq Waiting
        <4>1. CASE CreateTask(x) \/ EndTask(x)
          BY <4>1 DEF CreateTask, EndTask, In, Claimed, Waiting, Shape, WorldShape
        <4>2. CASE ClaimTask(x)
          <5>1. /\ task[x] = "published" /\ task' = [task EXCEPT ![x] = "running"]
                /\ late' = late \/ late' = late \cup {x}
                /\ UNCHANGED <<publishing, held, returned>>
            BY <4>2 DEF ClaimTask
          <5>2. x \notin provisional => late' = late \cup {x}
            BY <1>2, <4>2 DEF ClaimTask
          <5>3. /\ In("published")' \subseteq In("published")
                /\ In("running")' \subseteq In("running") \cup {x} /\ x \in In("published")
            BY <5>1 DEF In, Shape, WorldShape
          <5>4. QED BY <5>1, <5>2, <5>3 DEF Claimed, Waiting
        <4>3. CASE LeaveAdmission(x)
          <5>1. /\ UNCHANGED <<task, publishing, late>> /\ held' = held \ {x}
                /\ returned' = IF x \in held /\ task[x] = "published"
                                 THEN returned \cup {x} ELSE returned
            BY <1>2, <4>3 DEF LeaveAdmission
          <5>2. QED BY <5>1 DEF In, Claimed, Waiting
        <4>6. CASE GetDelivery(x)
          BY <4>6 DEF GetDelivery, In, Claimed, Waiting
        <4>4. CASE StartPublish(x) \/ AcquireProvisional(x)
          BY <1>2, <4>4 DEF StartPublish, AcquireProvisional, Ready
        <4>5. QED BY <2>5, <4>1, <4>2, <4>3, <4>4, <4>6 DEF TaskStep
      <3>2. HighWaterOK'
        BY <1>0, <2>3, <3>1 DEF HighWaterOK
      <3>3. ASSUME NEW q \in Procs, Owns(q)
            PROVE  Rebuilt(q)'
        <4>1. Rebuilt(q)
          BY <2>3, <3>3
        <4>2. CASE run[q].pc \notin ReapedPCs
          BY <1>0, <2>2, <3>1, <4>1, <4>2
          DEF Rebuilt, DrainedPCs, ReapedPCs, CapturedPCs, RestoredPCs, OwnerPCs, RebuildPCs
        <4>3. CASE run[q].pc \in ReapedPCs
          <5>1. Claimed' \subseteq Claimed /\ Waiting' \subseteq Waiting
            BY <3>1, <4>1, <4>3 DEF Rebuilt
          <5>2. TenantsOf(Waiting)' \subseteq TenantsOf(Waiting)
            BY <5>1 DEF TenantsOf
          <5>3. TenantsOf(progress.highWater)' = TenantsOf(progress.highWater)
            BY <1>0 DEF TenantsOf
          <5>4. QED BY <1>0, <2>2, <3>1, <4>1, <5>1, <5>2, <5>3 DEF Rebuilt
        <4>4. QED BY <4>2, <4>3
      <3>4. QED BY <3>2, <3>3
    <2>6. QED BY <2>4, <2>5
  <1>3. QED BY <1>1, <1>2

(***************************************************************************)
(* The invariant.                                                           *)
(***************************************************************************)
LEMMA InitHolds == RecoveryInit => RecoveryInv
  <1> SUFFICES ASSUME RecoveryInit PROVE RecoveryInv
    OBVIOUS
  <1>1. PICK s \in Scenarios :
          /\ task \in [Tasks -> s.tasks]
          /\ run = [p \in Procs |->
                      IF p \in s.procs THEN IdleRun ELSE [IdleRun EXCEPT !.pc = "away"]]
          /\ faults = [stop |-> s.stop, loss |-> s.loss, diverge |-> s.diverge, lost |-> FALSE]
    BY DEF RecoveryInit
  <1>2. /\ s.tasks \subseteq {"absent", "published", "running"}
        /\ s.stop \in Nat /\ s.loss \in Nat /\ s.diverge \in Nat
    BY RecoveryAssumption
  <1>3. /\ lock = None /\ control = NoControl /\ progress = NoProgress
        /\ known = {} /\ active = {} /\ stable = {} /\ provisional = {}
        /\ startFence = None /\ journal = NoRecord
        /\ publishing = {} /\ admitted = {} /\ held = {} /\ returned = {} /\ late = {}
    BY DEF RecoveryInit
  <1>4. \A p \in Procs : /\ run[p] \in Row /\ run[p].pc \in {"idle", "away"}
                         /\ run[p].token = None /\ run[p].record = NoRecord
    BY <1>1, IdleRow DEF IdleRun
  <1>5. Rows
    <2>1. run \in [Procs -> Row]
      BY <1>1, IdleRow
    <2>2. QED BY <1>4, <2>1 DEF Rows, RowShape, OutsidePCs
  <1>6. RedisShape
    <2>1. control \in Controls /\ progress \in Progresses
      BY <1>3 DEF NoControl, Controls, Token, NoProgress, NoMark, Progresses, Mark
    <2>2. QED BY <1>3, <2>1 DEF RedisShape, Token
  <1>7. WorldShape
    <2>1. task \in [Tasks -> Statuses]
      BY <1>1, <1>2 DEF Statuses
    <2>2. faults \in Bounds
      BY <1>1, <1>2 DEF Bounds
    <2>3. QED BY <1>3, <2>1, <2>2 DEF WorldShape
  <1>8. Shape
    BY <1>3, <1>5, <1>6, <1>7 DEF Shape, NoRecord, Record, Token
  <1>9. ControlOK /\ JournalOK
    BY <1>3
    DEF ControlOK, ControlWellFormed, JournalOK, JournalGuardsReady, ForceIsResumable,
        NoControl, NoRecord
  <1>10. \A p \in Procs : ~Holds(p) /\ ~Starting(p)
    BY <1>3, Apart DEF Holds, Starting
  <1>11. \A p \in Procs : RowOK(p)
    <2>1. ASSUME NEW p \in Procs
          PROVE  RecordBehind(p) /\ RecordAt(p) /\ CompleteOK(p)
      BY <1>4, <2>1
      DEF RecordBehind, RecordAt, CompleteOK, NoRecord, OwnerPCs, RebuildPCs
    <2>2. QED BY <1>10, <2>1 DEF RowOK, StartOK, BeginOK
  <1>12. \A p \in Procs : \A q \in Procs \ {p} : PairOK(p, q)
    BY <1>4, <1>10 DEF PairOK
  <1>13. RebuildInv
    BY <1>3 DEF RebuildInv, HighWaterOK, Owns, FenceOK, NoControl
  <1>14. QED BY <1>8, <1>9, <1>11, <1>12, <1>13 DEF RecoveryInv, ProtocolInv

\* The owner's steps inside a rebuild, and the start, which both kinds share.
LEMMA SharedStepKeeps ==
    ASSUME RecoveryInv, NEW p \in Procs, RebuildStep(p) \/ StartStep(p)
    PROVE  RecoveryInv'
  <1> Shape /\ ProtocolInv /\ RebuildInv
    BY DEF RecoveryInv
  <1> USE DEF RecoveryInv
  <1>1. CASE BeginRecovery(p)
    BY <1>1, BeginRecoveryStep, BeginRecoveryRebuilds
  <1>2. CASE FenceLost(p)
    <2>1. UNCHANGED <<control, progress, redisData, worldVars>>
      BY <1>2, Unchanged DEF FenceLost
    <2>2. QED BY <1>2, <2>1, FenceLostStep, OutsideKeepsProtocol, OutsideAside
  <1>3. CASE DrainAttempts(p)
    BY <1>3, DrainAttemptsStep, OnKeepsProtocol, DrainAttemptsRebuilds
  <1>4. CASE DrainRecoveryLeases(p)
    BY <1>4, DrainRecoveryLeasesStep, OnKeepsProtocol, DrainRecoveryLeasesRebuilds
  <1>5. CASE SetRecoveryHighWater(p)
    BY <1>5, SetRecoveryHighWaterStep, OnKeepsProtocol, SetRecoveryHighWaterRebuilds
  <1>6. CASE ResetResource(p)
    BY <1>6, ResetResourceStep, OnKeepsProtocol, OutsideKeepsProtocol, ResetResourceRebuilds
  <1>7. CASE RestoreKnown(p)
    BY <1>7, RestoreKnownStep, OnKeepsProtocol, OutsideKeepsProtocol, RestoreKnownRebuilds
  <1>8. CASE RestoreRunning(p)
    BY <1>8, RestoreRunningStep, OnKeepsProtocol, RestoreRunningRebuilds
  <1>9. CASE RestoreDispatched(p)
    BY <1>9, RestoreDispatchedStep, OnKeepsProtocol, OutsideKeepsProtocol,
       RestoreDispatchedRebuilds
  <1>10. CASE LoadCanonicalStable(p)
    BY <1>10, LoadCanonicalStableStep, OnKeepsProtocol, LoadCanonicalStableRebuilds
  <1>11. CASE LoadRedisStable(p)
    BY <1>11, LoadRedisStableStep, OnKeepsProtocol, LoadRedisStableRebuilds
  <1>12. CASE RepairStable(p)
    BY <1>12, RepairStableStep, OnKeepsProtocol, RepairStableRebuilds
  <1>13. CASE MarkRunning(p)
    BY <1>13, MarkRunningStep, OnKeepsProtocol, OutsideKeepsProtocol, MarkRunningRebuilds
  <1>14. CASE FinishRecovery(p)
    BY <1>14, FinishesShape, FinishesProtocol, FinishesAgainProtocol, OutsideKeepsProtocol,
       FinishRecoveryRebuilds
  <1>15. CASE ObserveFinished(p)
    BY <1>15, ObserveFinishedStep, FinishedRebuilds
  <1>16. CASE Complete(p)
    BY <1>16, CompleteStep, FinishedRebuilds
  <1>17. CASE StartStep(p)
    <2>1. Shape' /\ ProtocolInv'
      BY <1>17, StartFenceBusyStep, AcquireStartFenceStep, AcquireRawLockStep, StartLostStep,
         OutsideKeepsProtocol DEF StartStep
    <2>2. QED BY <1>17, <2>1, StartStepRebuilds
  <1>18. QED
    BY <1>1, <1>2, <1>3, <1>4, <1>5, <1>6, <1>7, <1>8, <1>9, <1>10, <1>11, <1>12, <1>13,
       <1>14, <1>15, <1>16, <1>17 DEF RebuildStep

LEMMA RuntimeStepKeeps ==
    ASSUME RecoveryInv, NEW p \in Runtimes, RuntimeStep(p)
    PROVE  RecoveryInv'
  <1> Shape /\ ProtocolInv /\ RebuildInv /\ p \in Procs
    BY DEF RecoveryInv, Procs
  <1> USE DEF RecoveryInv
  <1>1. CASE ReadJournal(p)
    <2>1. UNCHANGED <<control, progress, redisData, worldVars>>
      BY <1>1, Unchanged DEF ReadJournal
    <2>2. QED BY <1>1, <2>1, ReadJournalStep, OutsideKeepsProtocol, OutsideAside
  <1>2. CASE Observe(p)
    <2>1. UNCHANGED <<control, progress, redisData, worldVars>>
      BY <1>2, Unchanged DEF Observe
    <2>2. QED BY <1>2, <2>1, ObserveStep, OutsideKeepsProtocol, OutsideAside
  <1>3. CASE InspectRecoveryStart(p)
    BY <1>3, InspectRecoveryStartStep, InspectRebuilds
  <1>4. CASE RecheckJournal(p)
    BY <1>4, RecheckJournalStep, InspectRebuilds
  <1>5. CASE ReconcileReady(p)
    BY <1>5, ReconcileReadyStep, OutsideKeepsProtocol, ReadyStepRebuilds
  <1>6. CASE RestartRuntime(p)
    <2>1. UNCHANGED <<control, progress, redisData, worldVars>>
      BY <1>6, Unchanged DEF RestartRuntime
    <2>2. QED BY <1>6, <2>1, RestartRuntimeStep, OutsideKeepsProtocol, OutsideAside
  <1>7. CASE RebuildStep(p) \/ StartStep(p)
    BY <1>7, SharedStepKeeps
  <1>8. QED BY <1>1, <1>2, <1>3, <1>4, <1>5, <1>6, <1>7 DEF RuntimeStep

LEMMA OperatorStepKeeps ==
    ASSUME RecoveryInv, NEW o \in Operators, OperatorStep(o) \/ Apply(o)
    PROVE  RecoveryInv'
  <1> Shape /\ ProtocolInv /\ RebuildInv /\ o \in Procs
    BY DEF RecoveryInv, Procs
  <1> USE DEF RecoveryInv
  <1>1. CASE Apply(o)
    <2>1. UNCHANGED <<control, progress, redisData, worldVars>>
      BY <1>1, Unchanged DEF Apply
    <2>2. QED BY <1>1, <2>1, ApplyStep, OutsideKeepsProtocol, OutsideAside
  <1>2. CASE ForceStartAllowed(o)
    BY <1>2, ForceStartAllowedStep, ForceStartRebuilds
  <1>3. CASE CheckRecoveryLock(o)
    BY <1>3, CheckRecoveryLockStep, ForceStartRebuilds
  <1>4. CASE BeginSpecial(o)
    BY <1>4, BeginSpecialStep, ForceStartRebuilds
  <1>5. CASE WaitForForceDeadline(o)
    BY <1>5, WaitForForceDeadlineStep, OutsideKeepsProtocol, OnKeepsProtocol, ForceDeleteRebuilds
  <1>6. CASE DeleteForceOwnedKeys(o)
    BY <1>6, DeleteForceOwnedKeysStep, OnKeepsProtocol, ForceDeleteRebuilds
  <1>7. CASE MarkForceDeleteJournal(o)
    BY <1>7, MarkForceDeleteJournalStep, ForceDeleteRebuilds
  <1>8. CASE MarkForceDeleteRedis(o)
    BY <1>8, MarkForceDeleteRedisStep, OutsideKeepsProtocol, OnKeepsProtocol, ForceDeleteRebuilds
  <1>9. CASE RenewBeforeJournal(o)
    BY <1>9, RenewBeforeJournalStep, OnKeepsProtocol, CommitRebuilds
  <1>10. CASE CommitReady(o)
    BY <1>10, CommitReadyStep, CommitRebuilds
  <1>11. CASE RebuildStep(o) \/ StartStep(o)
    BY <1>11, SharedStepKeeps
  <1>12. QED
    BY <1>1, <1>2, <1>3, <1>4, <1>5, <1>6, <1>7, <1>8, <1>9, <1>10, <1>11 DEF OperatorStep

LEMMA OtherStepKeeps ==
    ASSUME RecoveryInv,
           \/ \E x \in Tasks : TaskStep(x)
           \/ OrphanLockExpires \/ Fault \/ UNCHANGED vars
    PROVE  RecoveryInv'
  <1> Shape /\ ProtocolInv /\ RebuildInv
    BY DEF RecoveryInv
  <1> USE DEF RecoveryInv
  <1>1. ASSUME NEW x \in Tasks, TaskStep(x)
        PROVE  RecoveryInv'
    BY <1>1, TaskStepMoves, TaskMovesKeep, TaskStepRebuilds
  <1>2. CASE LockExpires \/ OrphanLockExpires
    BY <1>2, LockExpiresStep, LossRebuilds
  <1>3. CASE RedisLosesState
    BY <1>3, RedisLosesStateStep, LossRebuilds
  <1>4. ASSUME NEW p \in Procs, StopProcess(p)
        PROVE  RecoveryInv'
    <2>1. UNCHANGED <<control, progress, redisData, worldVars>>
      BY <1>4, Unchanged DEF StopProcess
    <2>2. QED BY <1>4, <2>1, StopProcessStep, OutsideKeepsProtocol, OutsideAside
  <1>5. ASSUME NEW p \in Procs, LoseSession(p)
        PROVE  RecoveryInv'
    BY <1>5, LoseSessionStep, LossRebuilds
  <1>6. ASSUME NEW p \in Runtimes, FindDivergence(p)
        PROVE  RecoveryInv'
    <2>1. UNCHANGED <<control, progress, redisData, worldVars>> /\ p \in Procs
      BY <1>6, Unchanged DEF FindDivergence, Procs
    <2>2. QED BY <1>6, <2>1, FindDivergenceStep, OutsideKeepsProtocol, OutsideAside
  <1>7. CASE UNCHANGED vars
    <2>1. UNCHANGED <<lock, startFence, run, control, journal, progress, faults>>
          /\ UNCHANGED <<redisData, worldVars>>
      BY <1>7 DEF vars, redisData, worldVars
    <2>2. Shape'
      BY <2>1
      DEF Shape, RedisShape, WorldShape, Rows, RowShape, redisData, worldVars
    <2>3. ProtocolInv'
      BY <2>1, LocksLost DEF Quiet
    <2>4. QED BY <1>7, <2>2, <2>3, LossRebuilds
  <1>8. QED BY <1>1, <1>2, <1>3, <1>4, <1>5, <1>6, <1>7 DEF Fault

LEMMA NextKeeps == RecoveryInv /\ [RecoveryNext]_vars => RecoveryInv'
  BY RuntimeStepKeeps, OperatorStepKeeps, OtherStepKeeps DEF RecoveryNext

\* The invariant that everything below rests on: what each process has read and
\* written of journal and control fits what they hold now, two processes never
\* hold the same token or begin side by side, and an owner whose fence still
\* matches has rebuilt what its place in RunRecovery says.
THEOREM RecoveryInvariant == RecoverySpec => []RecoveryInv
  BY InitHolds, NextKeeps, PTL DEF RecoverySpec

\* Every variable keeps its type, and the control the shape that every recovery
\* script tests before it does anything (fq_recovery_fence and the checks of
\* redisBeginRecoveryScript), whoever wrote it last.
THEOREM RecoveryTypesHold == RecoverySpec => []RecoveryTypeOK
  <1>1. RecoveryInv => RecoveryTypeOK
    <2> SUFFICES ASSUME RecoveryInv PROVE RecoveryTypeOK
      OBVIOUS
    <2>1. Shape /\ ControlWellFormed
      BY DEF RecoveryInv, ProtocolInv, ControlOK
    <2>2. \A p \in Procs :
            /\ run[p].pc \in {"away", "idle", "observe", "stopped", "reconcile", "rejoin",
                              "open", "finish", "finished"} \cup StartPCs \cup RebuildPCs
                               \cup ForcePCs
            /\ run[p].token \in Tokens \cup {None}
      <3>1. \A p \in Procs : run[p] \in Row
        BY <2>1 DEF Shape, Rows
      <3>2. QED
        BY <3>1
        DEF Row, Token, AllPCs, OutsidePCs, HoldingPCs, OwnerPCs, RebuildPCs, StartPCs, ForcePCs
    <2>3. control \in Controls /\ progress \in Progresses /\ lock \in Token
          /\ journal \in Record /\ faults \in Bounds
      BY <2>1 DEF Shape, RedisShape, WorldShape
    <2>4. QED
      BY <2>1, <2>2, <2>3
      DEF RecoveryTypeOK, Shape, RedisShape, WorldShape, Controls, Progresses, Mark, Token,
          Record, Bounds
  <1>2. QED BY <1>1, RecoveryInvariant, PTL

\* No gate can open while the journal holds an ACTIVE operation, and after
\* READY_COMMITTED only by that operation's own finish, for any number of
\* runtimes and operators and whatever is lost between the look at the journal
\* and the script (RunRecovery, finishSpecial).
THEOREM JournalGuardsReadyHolds == RecoverySpec => []JournalGuardsReady
  <1>1. RecoveryInv => JournalGuardsReady
    BY DEF RecoveryInv, ProtocolInv, JournalOK
  <1>2. QED BY <1>1, RecoveryInvariant, PTL

\* An interrupted FORCE_REBUILD is always accepted again by forceStartAllowed
\* while Redis keeps its state.
THEOREM ForceStaysResumable == RecoverySpec => []ForceIsResumable
  <1>1. RecoveryInv => ForceIsResumable
    BY DEF RecoveryInv, ProtocolInv, JournalOK
  <1>2. QED BY <1>1, RecoveryInvariant, PTL

(***************************************************************************)
(* What a step may never do.                                                *)
(***************************************************************************)
\* Only three scripts (and the loss of Redis) write the control.
LEMMA ControlChanges ==
    ASSUME RecoveryInv, RecoveryNext
    PROVE  \/ control' = control \/ control' = NoControl
           \/ \E p \in Procs : Begins(p) \/ Finishes(p)
  <1> Shape /\ Runtimes \subseteq Procs /\ Operators \subseteq Procs
    BY DEF RecoveryInv, Procs
  <1>1. ASSUME NEW p \in Procs, RebuildStep(p) \/ StartStep(p)
        PROVE  control' = control \/ Begins(p) \/ Finishes(p)
    <2>1. CASE BeginRecovery(p)
      BY <2>1, BeginsShape DEF GoesOutside, Quiet
    <2>2. CASE FinishRecovery(p)
      BY <2>2, FinishesShape DEF GoesOutside, FinishesAgain, Quiet
    <2>3. CASE StartStep(p)
      BY <2>3
      DEF StartStep, StartFenceBusy, AcquireStartFence, AcquireRawLock, StartLost, redisVars
    <2>4. CASE ObserveFinished(p) \/ Complete(p) \/ FenceLost(p)
      BY <2>4 DEF ObserveFinished, Complete, FenceLost, redisVars
    <2>5. CASE ~BeginRecovery(p) /\ ~FinishRecovery(p) /\ ~StartStep(p)
               /\ ~(ObserveFinished(p) \/ Complete(p) \/ FenceLost(p))
      BY <1>1, <2>5
      DEF RebuildStep, DrainAttempts, DrainRecoveryLeases, SetRecoveryHighWater, ResetResource,
          RestoreKnown, RestoreRunning, RestoreDispatched, LoadCanonicalStable,
          LoadRedisStable, RepairStable, MarkRunning, redisVars
    <2>6. QED BY <2>1, <2>2, <2>3, <2>4, <2>5
  <1>2. ASSUME NEW p \in Runtimes, RuntimeStep(p)
        PROVE  control' = control \/ Begins(p) \/ Finishes(p)
    <2>1. CASE RebuildStep(p) \/ StartStep(p)
      BY <1>1, <2>1
    <2>2. CASE ~(RebuildStep(p) \/ StartStep(p))
      BY <1>2, <2>2
      DEF RuntimeStep, ReadJournal, Observe, InspectRecoveryStart, RecheckJournal,
          ReconcileReady, RestartRuntime, redisVars
    <2>3. QED BY <2>1, <2>2
  <1>3. ASSUME NEW o \in Operators, OperatorStep(o) \/ Apply(o)
        PROVE  control' = control \/ Begins(o) \/ Finishes(o)
    <2>1. CASE RebuildStep(o) \/ StartStep(o)
      BY <1>1, <2>1
    <2>2. CASE ~(RebuildStep(o) \/ StartStep(o))
      BY <1>3, <2>2
      DEF OperatorStep, Apply, ForceStartAllowed, CheckRecoveryLock, BeginSpecial,
          WaitForForceDeadline, DeleteForceOwnedKeys, MarkForceDeleteJournal,
          MarkForceDeleteRedis, RenewBeforeJournal, CommitReady, redisVars
    <2>3. QED BY <2>1, <2>2
  <1>4. ASSUME NEW x \in Tasks, TaskStep(x)
        PROVE  control' = control
    BY <1>4, TaskStepMoves DEF TaskMoves
  <1>5. CASE OrphanLockExpires \/ Fault
    BY <1>5
    DEF OrphanLockExpires, Fault, StopProcess, LoseSession, FindDivergence, LockExpires,
        RedisLosesState, redisVars
  <1>6. QED BY <1>2, <1>3, <1>4, <1>5 DEF RecoveryNext

\* A NORMAL recovery never begins over an unfinished special operation
\* (EnsureResourceReady and redisBeginRecoveryScript), although the start fence
\* and the lock can each be lost between the last look at the journal and the
\* script: whoever could have written the journal meanwhile needed the lock.
THEOREM NormalYields == RecoverySpec => NormalYieldsToJournal
  <1>1. ASSUME RecoveryInv, RecoveryNext,
               control'.kind = "NORMAL", control'.epoch # control.epoch
        PROVE  journal.phase \notin {"ACTIVE", "READY_COMMITTED"}
    <2>1. control'.kind # "NONE" /\ control' # control /\ control' # NoControl
      BY <1>1 DEF NoControl
    <2>2. PICK p \in Procs : Begins(p) \/ Finishes(p)
      BY <1>1, <2>1, ControlChanges
    <2>3. Shape /\ RowOK(p)
      BY <1>1 DEF RecoveryInv, ProtocolInv
    <2>4. ~Finishes(p)
      <3> SUFFICES ASSUME Finishes(p) PROVE FALSE
        OBVIOUS
      <3>1. control'.kind = "NONE"
        BY <2>3 DEF Finishes, Shape, RedisShape, Controls
      <3>2. QED BY <2>1, <3>1
    <2>5. p \in Runtimes /\ Holds(p)
      BY <1>1, <2>2, <2>3, <2>4
      DEF Begins, KindOf, Procs, Holds, Shape, Rows, RowShape, OutsidePCs
    <2>6. QED BY <2>2, <2>3, <2>4, <2>5 DEF Begins, RowOK, BeginOK, Unfinished
  <1>2. RecoveryInv /\ [RecoveryNext]_vars =>
          [control'.kind = "NORMAL" /\ control'.epoch # control.epoch =>
             journal.phase \notin {"ACTIVE", "READY_COMMITTED"}]_vars
    BY <1>1
  <1>3. QED BY <1>2, RecoveryInvariant, PTL DEF RecoverySpec, NormalYieldsToJournal

\* The step that makes the resource READY finds it rebuilt (RunRecovery and
\* redisFinishRecoveryScript, which only looks at marks): for any number of
\* owners that were fenced off on the way and any number of tasks that moved on
\* meanwhile.
THEOREM ReadyMeansRebuilt == RecoverySpec => ReadyIsRebuilt
  <1>1. ASSUME RecoveryInv, RecoveryNext,
               control.state = "RECOVERING", control'.state = "READY"
        PROVE  /\ In("running") \ late \subseteq stable
               /\ TenantsOf(In("published") \ (held \cup returned)) \subseteq active \cap known
               /\ TenantsOf(In("running")) \ TenantsOf(late) \subseteq known
               /\ provisional = {}
    <2>1. control' # control /\ control' # NoControl
      BY <1>1 DEF NoControl
    <2>2. PICK p \in Procs : Begins(p) \/ Finishes(p)
      BY <1>1, <2>1, ControlChanges
    <2>3. Finishes(p)
      BY <1>1, <2>2 DEF Begins
    <2>4. Owns(p) /\ run[p].pc \in RestoredPCs
      BY <2>3
      DEF Finishes, Owns, OwnerPCs, RebuildPCs, DrainedPCs, ReapedPCs, CapturedPCs, RestoredPCs
    <2>5. /\ provisional = {} /\ TenantsOf(progress.highWater) \subseteq known
          /\ Claimed \subseteq stable /\ TenantsOf(Waiting) \subseteq active \cap known
          /\ In("published") \cup In("running") \subseteq progress.highWater
      BY <1>1, <2>4, RestoredFacts DEF RecoveryInv
    <2>6. TenantsOf(In("running")) \subseteq known
      BY <2>5 DEF TenantsOf
    <2>7. QED BY <2>5, <2>6 DEF Claimed, Waiting
  <1>2. RecoveryInv /\ [RecoveryNext]_vars =>
          [control.state = "RECOVERING" /\ control'.state = "READY" =>
             /\ In("running") \ late \subseteq stable
             /\ TenantsOf(In("published") \ (held \cup returned)) \subseteq active \cap known
             /\ TenantsOf(In("running")) \ TenantsOf(late) \subseteq known
             /\ provisional = {}]_vars
    BY <1>1
  <1>3. QED BY <1>2, RecoveryInvariant, PTL DEF RecoverySpec, ReadyIsRebuilt
=============================================================================
