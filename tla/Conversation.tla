----------------------------- MODULE Conversation -----------------------------
(***************************************************************************)
(* One conversation of one agent: the messages routed to it, its turn slot, *)
(* the ReAct loop that works on it and the session it is recorded in.       *)
(*                                                                          *)
(* An inbound message is folded into the running turn (steering) or becomes *)
(* a turn of its own, through the chat's task queue or as a web request.    *)
(* Group messages of other bots are appended to the session without a turn. *)
(* The session is cached in the process and saved as a whole after every    *)
(* append, under a revision that other replicas of the agent advance too.   *)
(*                                                                          *)
(* The module follows one session key.  A web chat keeps its key whatever the *)
(* lookup of the active session returns; a chat of another channel whose      *)
(* lookup fails, or finds no row yet, goes on under a fresh key, and what is   *)
(* said there belongs to another session than this one.                       *)
(*                                                                          *)
(* Below the compaction threshold: ReplaceMessages, and the slash commands  *)
(* that rewrite the history, are not modelled; nor is HandleMessageStream,  *)
(* the variant of the loop behind the OpenAI-compatible API.                *)
(***************************************************************************)
EXTENDS Integers, Sequences, FiniteSets, FiniteSetsExt, SequencesExt

CONSTANTS
    Inbound,        \* messages of users
    Injected,       \* group messages of other bots, and readers of the session
    Replica,        \* what another replica of the agent appends
    NoMessage,
    MaxConcurrent,  \* tasks that the task queue executes at a time
    MaxIterations,  \* maxToolIterations
    MaxCalls,       \* bound on responses with tool calls
    Settings        \* what a behaviour may start from: a set of records with
                    \*   messages  the messages that may arrive
                    \*   restart, other, save, cancel
                    \*             bounds on restarts, writes of other replicas,
                    \*             failed loads and saves, stops and deadlines

ASSUME ConversationAssumption ==
    /\ Inbound \cap Injected = {} /\ Replica \notin Inbound \cup Injected
    /\ NoMessage \notin Inbound
    /\ {MaxConcurrent, MaxIterations} \subseteq Nat \ {0} /\ MaxCalls \in Nat
    /\ Settings \subseteq [messages : SUBSET (Inbound \cup Injected),
                            restart : Nat, other : Nat, save : Nat, cancel : Nat]

VARIABLES
    pc,         \* what each message's goroutine is doing
    chatQueue,  \* the channel of the chat's queue
    serving,    \* the task that the queue's processor executes
    turn,       \* turns.active of the conversation
    inbox,      \* turn.steer
    work,       \* the locals of the turn's loop
    session,    \* the cached Session
    read,       \* what a Get has loaded and not installed yet
    durable,    \* the sessions row and its revision
    shadowed,   \* a Get has hidden something from the turn (auxiliary)
    steered,    \* messages accepted as steering
    appends,    \* how often each inbound message was handed to Session.Append
    calls,      \* responses with tool calls so far
    trouble     \* what is left of the bounds

queueVars == <<chatQueue, serving>>
turnVars == <<turn, inbox>>
storeVars == <<session, read, durable, shadowed>>
ghostVars == <<steered, appends>>
conversationVars ==
    <<pc, chatQueue, serving, turn, inbox, work, session, read, durable, shadowed,
      steered, appends, calls, trouble>>

Messages == Inbound \cup Injected
Parts == {1, 2}     \* the tool calls of one response

User(m) == [role |-> "user", id |-> m, part |-> 0]
Answer == [role |-> "assistant", id |-> 0, part |-> 0]
Note == [role |-> "note", id |-> 0, part |-> 0]
ToolCalls(k) == [role |-> "call", id |-> k, part |-> 0]
ToolResult(k, part) == [role |-> "tool", id |-> k, part |-> part]

NoTurn == [owner |-> NoMessage, state |-> "idle", cancelled |-> FALSE, bound |-> FALSE]
NoWork == [request |-> <<>>, iteration |-> 0, hand |-> <<>>, parts |-> {}, orphan |-> 0,
           plan |-> FALSE, guard |-> FALSE, noTools |-> FALSE]
NoRead == [msgs |-> <<>>, rev |-> 0]
NoSession == [cached |-> FALSE, msgs |-> <<>>, rev |-> 0, failed |-> FALSE]

LoopPCs == {"top", "fold", "calling", "answered", "refold", "called", "results", "noted"}
FinishPCs == {"finish", "getLeftover", "installLeftover", "pad", "leftover", "release"}
TurnPCs == {"started", "get", "install", "record"} \cup LoopPCs \cup FinishPCs
Gone == {"ended", "lost"}

ConversationTypeOK ==
    /\ pc \in [Messages -> {"new", "queued", "waiting", "steered"} \cup TurnPCs \cup Gone]
    /\ Range(chatQueue) \cup Range(inbox) \cup Range(work.hand) \subseteq Inbound
    /\ serving \in Inbound \cup {NoMessage}
    /\ turn.owner \in Inbound \cup {NoMessage}
    /\ turn.state \in {"idle", "starting", "running", "finishing", "stopping"}
    /\ turn.owner # NoMessage <=> \E m \in Inbound : pc[m] \in TurnPCs
    /\ work.parts \subseteq Parts
    /\ session.rev <= durable.rev /\ shadowed \in BOOLEAN
    /\ steered \subseteq Inbound /\ appends \in [Inbound -> Nat]
    /\ calls \in 0..MaxCalls

ConversationInit ==
    /\ chatQueue = <<>> /\ serving = NoMessage
    /\ turn = NoTurn /\ inbox = <<>> /\ work = NoWork
    /\ session = NoSession /\ durable = NoRead /\ shadowed = FALSE
    /\ read = [m \in Messages |-> NoRead]
    /\ steered = {} /\ appends = [m \in Inbound |-> 0]
    /\ calls = 0
    /\ trouble \in Settings
    /\ pc = [m \in Messages |-> IF m \in trouble.messages THEN "new" ELSE "ended"]

Goto(m, label) == pc' = [pc EXCEPT ![m] = label]

(***************************************************************************)
(* The session.                                                             *)
(***************************************************************************)

\* Mutant: the expected revision is not compared.
AnyRevision == TRUE

\* SaveSession: the row is written only under the revision that was read.
RevisionHolds == session.rev = durable.rev

\* appendLocked: the message joins the cached list, which is saved as a whole;
\* after a failed save nothing is saved until the session is loaded again.
SessionAppend(msg) ==
    LET msgs == Append(session.msgs, msg) IN
    /\ \/ /\ ~session.failed /\ RevisionHolds
          /\ durable' = [msgs |-> msgs, rev |-> durable.rev + 1]
          /\ session' = [session EXCEPT !.msgs = msgs, !.rev = durable.rev + 1]
          /\ UNCHANGED trouble
       \/ /\ \/ (session.failed \/ ~RevisionHolds) /\ UNCHANGED trouble
             \/ /\ ~session.failed /\ RevisionHolds /\ trouble.save > 0
                /\ trouble' = [trouble EXCEPT !.save = @ - 1]
          /\ session' = [session EXCEPT !.msgs = msgs, !.failed = TRUE]
          /\ UNCHANGED durable
    /\ UNCHANGED shadowed

AppendUser(m) ==
    /\ SessionAppend(User(m))
    /\ appends' = IF m \in Inbound THEN [appends EXCEPT ![m] = @ + 1] ELSE appends

Installing == {"install", "installLeftover"}

\* A load of the session may fail, within the bound.
LoadFails(failed) ==
    IF failed THEN trouble.save > 0 /\ trouble' = [trouble EXCEPT !.save = @ - 1]
              ELSE UNCHANGED trouble

Owner == turn.owner
At(label) == turn # NoTurn /\ pc[Owner] = label
InLoop == \E label \in LoopPCs : At(label)

\* What a Get outside the turn takes from the turn's sight: that a save failed,
\* while the loop has still to notice, or the list that finishTurn is padding.
HidesFromTurn ==
    \/ session.failed /\ InLoop
    \/ At("leftover") /\ work.parts # {}

GetCompletes(failed) == shadowed' = (shadowed \/ (~failed /\ HidesFromTurn))

\* getByKey, under the manager's lock: a cached session is loaded again, and the
\* result installed under the session's own lock, which appends do not wait for.
\* A failed load keeps the messages and blocks the saves.
GetLoads(m, installing, next) ==
    /\ \A n \in Messages : pc[n] \notin Installing
    /\ IF session.cached
         THEN /\ read' = [read EXCEPT ![m] = durable]
              /\ Goto(m, installing)
              /\ UNCHANGED <<session, shadowed, trouble>>
         ELSE /\ \E failed \in BOOLEAN :
                    /\ LoadFails(failed)
                    /\ GetCompletes(failed)
                    /\ session' = [cached |-> TRUE, failed |-> failed,
                                   msgs |-> IF failed THEN <<>> ELSE durable.msgs,
                                   rev |-> IF failed THEN 0 ELSE durable.rev]
              /\ Goto(m, next)
              /\ UNCHANGED read
    /\ UNCHANGED durable

GetInstalls(m, next) ==
    /\ \E failed \in BOOLEAN :
          /\ LoadFails(failed)
          /\ GetCompletes(failed)
          /\ session' = IF failed THEN [session EXCEPT !.failed = TRUE]
                        ELSE [session EXCEPT !.msgs = read[m].msgs, !.rev = read[m].rev,
                                             !.failed = FALSE]
    /\ read' = [read EXCEPT ![m] = NoRead]
    /\ Goto(m, next)
    /\ UNCHANGED durable

(***************************************************************************)
(* The turn slot.                                                           *)
(***************************************************************************)

\* stateLocked: a cancelled context counts as stopping.
TurnState ==
    IF turn.cancelled /\ turn.state # "finishing" THEN "stopping" ELSE turn.state

\* Mutant: whoever holds the slot takes steering.
AcceptsAnyTime == turn # NoTurn

\* pushTurnSteer accepts.
AcceptsSteer == TurnState \in {"starting", "running"}

\* acquireTurn finds no active turn.
TakeTurn(m) ==
    /\ turn = NoTurn
    /\ turn' = [owner |-> m, state |-> "starting", cancelled |-> FALSE, bound |-> FALSE]
    /\ inbox' = <<>> /\ work' = NoWork
    /\ Goto(m, "started")

\* drainTurnSteer: the loop takes the whole inbox.
Drain == work' = [work EXCEPT !.hand = inbox] /\ inbox' = <<>>

(***************************************************************************)
(* Routing and the task queue.                                              *)
(***************************************************************************)

\* routeDM, and routeGroup for the mentioned or default agent: steer, else
\* Submit.  SteerWeb is the first half alone.
Route(m) ==
    /\ m \in Inbound /\ pc[m] = "new"
    /\ IF AcceptsSteer
         THEN /\ inbox' = Append(inbox, m)
              /\ steered' = steered \cup {m}
              /\ Goto(m, "steered")
              /\ UNCHANGED <<chatQueue, serving>>
         ELSE /\ chatQueue' = Append(chatQueue, m)
              /\ Goto(m, "queued")
              /\ UNCHANGED <<inbox, serving, steered>>
    /\ UNCHANGED <<turn, work, storeVars, appends, calls, trouble>>

\* A web request reserves the slot without waiting; a busy slot is a 409.
ReserveWebTurn(m) ==
    /\ m \in Inbound /\ pc[m] = "new"
    /\ TakeTurn(m)
    /\ UNCHANGED <<queueVars, storeVars, ghostVars, calls, trouble>>

Executing == {m \in Inbound : pc[m] \in {"waiting"} \cup TurnPCs}

\* processChatQueue and the global semaphore of executeTask.
ExecuteTask ==
    /\ serving = NoMessage /\ chatQueue # <<>>
    /\ Cardinality(Executing) < MaxConcurrent
    /\ serving' = Head(chatQueue) /\ chatQueue' = Tail(chatQueue)
    /\ Goto(Head(chatQueue), "waiting")
    /\ UNCHANGED <<turnVars, work, storeVars, ghostVars, calls, trouble>>

\* cleanupIdleQueues looks at the channel, not at the task its processor still
\* executes: the next message gets a new queue and a second processor.
CleanupIdleQueue ==
    /\ serving # NoMessage /\ chatQueue = <<>>
    /\ serving' = NoMessage
    /\ UNCHANGED <<pc, chatQueue, turnVars, work, storeVars, ghostVars, calls, trouble>>

AcquireTurn(m) ==
    /\ pc[m] = "waiting"
    /\ TakeTurn(m)
    /\ UNCHANGED <<queueVars, storeVars, ghostVars, calls, trouble>>

TaskEnds(m) == serving' = IF serving = m THEN NoMessage ELSE serving

\* The task's deadline passes while it waits for the slot.
WaitTimesOut(m) ==
    /\ pc[m] = "waiting" /\ turn # NoTurn
    /\ trouble.cancel > 0 /\ trouble' = [trouble EXCEPT !.cancel = @ - 1]
    /\ Goto(m, "ended") /\ TaskEnds(m)
    /\ UNCHANGED <<chatQueue, turnVars, work, storeVars, ghostVars, calls>>

(***************************************************************************)
(* HandleMessage.                                                           *)
(***************************************************************************)
Next1(label) == Goto(Owner, label)

\* A slash command ends the turn before it has a session; plan mode is one model
\* call without tools.
StartTurn ==
    /\ At("started")
    /\ \/ Next1("finish") /\ UNCHANGED work
       \/ \E plan \in BOOLEAN :
             Next1("get") /\ work' = [work EXCEPT !.plan = plan]
    /\ UNCHANGED <<queueVars, turnVars, storeVars, ghostVars, calls, trouble>>

\* bindTurnSession follows the Get.
BindSession ==
    turn' = [turn EXCEPT !.bound = TRUE,
                         !.state = IF @ = "starting" THEN "running" ELSE @]

LoadSession ==
    /\ At("get")
    /\ GetLoads(Owner, "install", "record")
    /\ IF session.cached THEN UNCHANGED turn ELSE BindSession
    /\ UNCHANGED <<queueVars, inbox, work, ghostVars, calls>>

InstallSession ==
    /\ At("install")
    /\ GetInstalls(Owner, "record")
    /\ BindSession
    /\ UNCHANGED <<queueVars, inbox, work, ghostVars, calls>>

\* beginTurnAnchor; the request starts from the session's messages.
RecordUserMessage ==
    /\ At("record")
    /\ AppendUser(Owner)
    /\ work' = [work EXCEPT !.request = session'.msgs]
    /\ Next1("top")
    /\ UNCHANGED <<queueVars, turnVars, read, steered, calls>>

\* The head of an iteration, of plan mode and of the forced final delivery.
LoopTop ==
    /\ At("top")
    /\ IF session.failed
         THEN Next1("finish") /\ UNCHANGED <<work, inbox>>
         ELSE Next1("fold") /\ Drain
    /\ UNCHANGED <<queueVars, turn, storeVars, ghostVars, calls, trouble>>

\* appendSteer, one message at a time, then the check that follows it.
FoldSteer ==
    /\ At("fold") \/ At("refold")
    /\ work.hand # <<>>
    /\ AppendUser(Head(work.hand))
    /\ work' = [work EXCEPT !.hand = Tail(@),
                            !.request = Append(@, User(Head(work.hand)))]
    /\ UNCHANGED <<pc, queueVars, turnVars, read, steered, calls>>

FoldEnds ==
    /\ At("fold") \/ At("refold")
    /\ work.hand = <<>>
    /\ Next1(CASE session.failed -> "finish"
               [] ~session.failed /\ At("fold") -> "calling"
               [] OTHER -> "top")
    /\ UNCHANGED <<queueVars, turnVars, work, storeVars, ghostVars, calls, trouble>>

Final == work.iteration >= MaxIterations

\* An error ends the turn and nothing is recorded; at the cap a fallback text
\* takes the place of the answer.
ModelFails ==
    /\ At("calling") /\ ~Final
    /\ Next1("finish")
    /\ UNCHANGED <<queueVars, turnVars, work, storeVars, ghostVars, calls, trouble>>

\* Text without tool calls; a plan and a forced final delivery end the turn.
ModelAnswers ==
    /\ At("calling")
    /\ SessionAppend(Answer)
    /\ work' = [work EXCEPT !.request = Append(@, Answer)]
    /\ Next1(IF work.plan \/ Final THEN "finish" ELSE "answered")
    /\ UNCHANGED <<queueVars, turnVars, read, ghostVars, calls>>

\* drainTurnSteer at the final checkpoint: an empty inbox closes the intake in
\* the same critical section.
CloseOrContinue ==
    /\ At("answered")
    /\ IF session.failed \/ inbox = <<>>
         THEN /\ turn' = IF session.failed \/ TurnState = "stopping" THEN turn
                         ELSE [turn EXCEPT !.state = "finishing"]
              /\ Next1("finish")
              /\ UNCHANGED <<work, inbox>>
         ELSE /\ work' = [work EXCEPT !.hand = inbox, !.iteration = @ + 1]
              /\ inbox' = <<>>
              /\ Next1("refold")
              /\ UNCHANGED turn
    /\ UNCHANGED <<queueVars, storeVars, ghostVars, calls, trouble>>

ModelCallsTools ==
    /\ At("calling") /\ ~work.plan /\ ~Final /\ ~work.noTools
    /\ calls < MaxCalls /\ calls' = calls + 1
    /\ SessionAppend(ToolCalls(calls + 1))
    /\ work' = [work EXCEPT !.request = Append(@, ToolCalls(calls + 1))]
    /\ Next1("called")
    /\ UNCHANGED <<queueVars, turnVars, read, ghostVars>>

\* Repeated calls are answered by the loop guard, others are executed; either
\* way every call gets a result, real, deferred or made up.
RunTools ==
    /\ At("called")
    /\ IF session.failed
         THEN Next1("finish") /\ UNCHANGED work
         ELSE /\ Next1("results")
              /\ \E guard \in BOOLEAN :
                    work' = [work EXCEPT !.parts = Parts, !.guard = guard]
    /\ UNCHANGED <<queueVars, turnVars, storeVars, ghostVars, calls, trouble>>

RecordResult ==
    /\ At("results") /\ work.parts # {}
    /\ LET part == CHOOSE p \in work.parts : \A q \in work.parts : p <= q IN
         /\ SessionAppend(ToolResult(calls, part))
         /\ work' = [work EXCEPT !.parts = @ \ {part},
                                 !.request = Append(@, ToolResult(calls, part))]
    /\ UNCHANGED <<pc, queueVars, turnVars, read, ghostVars, calls>>

\* appendToolLoopGuardMessages ends with a warning, and the tools are disabled.
RecordWarning ==
    /\ At("results") /\ work.parts = {} /\ work.guard
    /\ SessionAppend(Note)
    /\ work' = [work EXCEPT !.request = Append(@, Note), !.guard = FALSE,
                            !.noTools = TRUE, !.iteration = @ + 1]
    /\ Next1("top")
    /\ UNCHANGED <<queueVars, turnVars, read, ghostVars, calls>>

\* Rounds that failed altogether are followed by a reminder.
RecordReminder ==
    /\ At("results") /\ work.parts = {} /\ ~work.guard
    /\ SessionAppend(Note)
    /\ work' = [work EXCEPT !.request = Append(@, Note)]
    /\ Next1("noted")
    /\ UNCHANGED <<queueVars, turnVars, read, ghostVars, calls>>

RoundEnds ==
    /\ At("noted") \/ (At("results") /\ work.parts = {} /\ ~work.guard)
    /\ work' = [work EXCEPT !.hand = inbox, !.iteration = @ + 1]
    /\ inbox' = <<>>
    /\ Next1("refold")
    /\ UNCHANGED <<queueVars, turn, storeVars, ghostVars, calls, trouble>>

(***************************************************************************)
(* finishTurn.                                                              *)
(***************************************************************************)

\* Closes the intake and takes what was accepted and not used, under turns.mu.
FinishTurn ==
    /\ At("finish")
    /\ turn' = [turn EXCEPT !.state = IF TurnState = "stopping" THEN TurnState
                                      ELSE "finishing"]
    /\ Drain
    /\ Next1(CASE turn.bound -> "pad"
               [] ~turn.bound /\ inbox # <<>> -> "getLeftover"
               [] OTHER -> "release")
    /\ UNCHANGED <<queueVars, storeVars, ghostVars, calls, trouble>>

\* The turn ended before it had a session.
LoadForLeftover ==
    /\ At("getLeftover")
    /\ GetLoads(Owner, "installLeftover", "pad")
    /\ UNCHANGED <<queueVars, turnVars, work, ghostVars, calls>>

InstallForLeftover ==
    /\ At("installLeftover")
    /\ GetInstalls(Owner, "pad")
    /\ UNCHANGED <<queueVars, turnVars, work, ghostVars, calls>>

Indices(msgs, role) == {i \in DOMAIN msgs : msgs[i].role = role}

\* padOrphanToolResults: what the latest response with tool calls misses after it.
Unanswered(msgs) ==
    IF Indices(msgs, "call") = {} THEN {}
    ELSE LET last == Max(Indices(msgs, "call"))
         IN  Parts \ {msgs[j].part : j \in {j \in Indices(msgs, "tool") :
                                               j > last /\ msgs[j].id = msgs[last].id}}

LatestCall(msgs) ==
    IF Indices(msgs, "call") = {} THEN 0 ELSE msgs[Max(Indices(msgs, "call"))].id

\* The messages are read once.
PadBegins ==
    /\ At("pad")
    /\ work' = [work EXCEPT !.parts = Unanswered(session.msgs),
                            !.orphan = LatestCall(session.msgs)]
    /\ Next1("leftover")
    /\ UNCHANGED <<queueVars, turnVars, storeVars, ghostVars, calls, trouble>>

PadOrphan ==
    /\ At("leftover") /\ work.parts # {}
    /\ SessionAppend(ToolResult(work.orphan, Min(work.parts)))
    /\ work' = [work EXCEPT !.parts = @ \ {Min(work.parts)}]
    /\ UNCHANGED <<pc, queueVars, turnVars, read, ghostVars, calls>>

SaveLeftover ==
    /\ At("leftover") /\ work.parts = {} /\ work.hand # <<>>
    /\ AppendUser(Head(work.hand))
    /\ work' = [work EXCEPT !.hand = Tail(@)]
    /\ UNCHANGED <<pc, queueVars, turnVars, read, steered, calls>>

LeftoverSaved ==
    /\ At("leftover") /\ work.parts = {} /\ work.hand = <<>>
    /\ Next1("release")
    /\ UNCHANGED <<queueVars, turnVars, work, storeVars, ghostVars, calls, trouble>>

\* Mutant: the slot is left behind when the turn had no session.
ReleaseBoundTurn ==
    /\ At("release")
    /\ turn' = IF turn.bound THEN NoTurn ELSE turn
    /\ inbox' = <<>> /\ work' = NoWork
    /\ Next1("ended") /\ TaskEnds(Owner)
    /\ UNCHANGED <<chatQueue, storeVars, ghostVars, calls, trouble>>

ReleaseTurn ==
    /\ At("release")
    /\ turn' = NoTurn /\ inbox' = <<>> /\ work' = NoWork
    /\ Next1("ended") /\ TaskEnds(Owner)
    /\ UNCHANGED <<chatQueue, storeVars, ghostVars, calls, trouble>>

(***************************************************************************)
(* Everybody else.                                                          *)
(***************************************************************************)

\* InjectGroupMessage: Get and Append, without the turn slot.
InjectGroupMessage(g) ==
    /\ g \in Injected
    /\ \/ /\ pc[g] = "new"
          /\ GetLoads(g, "install", "record")
          /\ UNCHANGED appends
       \/ /\ pc[g] = "install"
          /\ GetInstalls(g, "record")
          /\ UNCHANGED appends
       \/ /\ pc[g] = "record"
          /\ AppendUser(g)
          /\ Goto(g, "ended")
          /\ UNCHANGED read
    /\ UNCHANGED <<queueVars, turnVars, work, steered, calls>>

\* WebChatHistory, and the gateway before and after a turn: Get alone, which
\* loads and installs as that of an injected message does.
WebChatHistory(g) ==
    /\ g \in Injected
    /\ pc[g] = "record" /\ Goto(g, "ended")
    /\ UNCHANGED <<queueVars, turnVars, work, storeVars, ghostVars, calls, trouble>>

\* StopWebTurn, and the deadline of the turn's context.
StopTurn ==
    /\ turn # NoTurn /\ ~turn.cancelled
    /\ trouble.cancel > 0 /\ trouble' = [trouble EXCEPT !.cancel = @ - 1]
    /\ \E state \in {turn.state, "stopping"} :
          turn' = [turn EXCEPT !.cancelled = TRUE, !.state = state]
    /\ UNCHANGED <<pc, queueVars, inbox, work, storeVars, ghostVars, calls>>

\* Another replica of the agent appends to the same session.
ReplicaAppends ==
    /\ trouble.other > 0 /\ trouble' = [trouble EXCEPT !.other = @ - 1]
    /\ durable' = [msgs |-> Append(durable.msgs, User(Replica)), rev |-> durable.rev + 1]
    /\ UNCHANGED <<pc, queueVars, turnVars, work, session, read, shadowed, ghostVars, calls>>

Alive(m) == pc[m] \notin Gone \cup {"new"}

\* The process dies: everything but the store is gone.
Restart ==
    /\ trouble.restart > 0 /\ trouble' = [trouble EXCEPT !.restart = @ - 1]
    /\ pc' = [m \in Messages |-> IF Alive(m) THEN "lost" ELSE pc[m]]
    /\ chatQueue' = <<>> /\ serving' = NoMessage
    /\ turn' = NoTurn /\ inbox' = <<>> /\ work' = NoWork
    /\ session' = NoSession /\ read' = [m \in Messages |-> NoRead]
    /\ steered' = {m \in steered : ~Alive(m)}
    /\ UNCHANGED <<durable, shadowed, appends, calls>>

(***************************************************************************)
(* Specification.                                                           *)
(***************************************************************************)
TurnStep ==
    \/ StartTurn \/ LoadSession \/ InstallSession \/ RecordUserMessage
    \/ LoopTop \/ FoldSteer \/ FoldEnds
    \/ ModelFails \/ ModelAnswers \/ CloseOrContinue \/ ModelCallsTools
    \/ RunTools \/ RecordResult \/ RecordWarning \/ RecordReminder \/ RoundEnds
    \/ FinishTurn \/ LoadForLeftover \/ InstallForLeftover \/ PadBegins \/ PadOrphan
    \/ SaveLeftover \/ LeftoverSaved \/ ReleaseTurn

ConversationNext ==
    \/ \E m \in Inbound :
          Route(m) \/ ReserveWebTurn(m) \/ AcquireTurn(m) \/ WaitTimesOut(m)
    \/ ExecuteTask \/ CleanupIdleQueue
    \/ TurnStep
    \/ \E g \in Injected : InjectGroupMessage(g) \/ WebChatHistory(g)
    \/ StopTurn \/ ReplicaAppends \/ Restart

\* Goroutines run, model calls and tools return or fail by their deadlines.
ConversationFairness ==
    /\ WF_conversationVars(TurnStep)
    /\ WF_conversationVars(ExecuteTask)
    /\ \A m \in Inbound : WF_conversationVars(AcquireTurn(m))
    /\ \A g \in Injected :
          WF_conversationVars(pc[g] # "new" /\ InjectGroupMessage(g))

ConversationSpec ==
    ConversationInit /\ [][ConversationNext]_conversationVars /\ ConversationFairness

(***************************************************************************)
(* The request on the wire.                                                 *)
(***************************************************************************)

\* The tool messages that follow position i without a gap.
RunAfter(msgs, i) ==
    {j \in (i + 1)..Len(msgs) : \A k \in (i + 1)..j : msgs[k].role = "tool"}

\* findOrphanToolCalls: calls that the messages right after them do not answer.
OrphanCalls(msgs) ==
    {i \in Indices(msgs, "call") :
        Parts # {msgs[j].part : j \in {j \in RunAfter(msgs, i) : msgs[j].id = msgs[i].id}}}

\* ... and the replies to them in that same run.
OrphanReplies(msgs) ==
    {j \in Indices(msgs, "tool") :
        \E i \in OrphanCalls(msgs) : j \in RunAfter(msgs, i) /\ msgs[j].id = msgs[i].id}

\* toAPIMessages leaves out what findOrphanToolCalls names.
OpenAIReplies(msgs) == Indices(msgs, "tool") \ OrphanReplies(msgs)

\* toAnthropicMessages also leaves out replies to an orphan call anywhere.
AnthropicReplies(msgs) ==
    OpenAIReplies(msgs) \
        {j \in Indices(msgs, "tool") : \E i \in OrphanCalls(msgs) : msgs[i].id = msgs[j].id}

\* What both APIs demand: every reply belongs to a tool call that is sent, right
\* before its run, and no call is answered twice.
WellPaired(msgs, replies) ==
    /\ \A j \in replies :
          \E i \in Indices(msgs, "call") \ OrphanCalls(msgs) :
              j \in RunAfter(msgs, i) /\ msgs[j].id = msgs[i].id
    /\ \A j, k \in replies :
          msgs[j].id = msgs[k].id /\ msgs[j].part = msgs[k].part => j = k

(***************************************************************************)
(* Properties.                                                              *)
(***************************************************************************)
Occurrences(m, msgs) == Cardinality({i \in DOMAIN msgs : msgs[i] = m})

\* A message accepted as steering is neither lost nor used twice, whatever the
\* turn that accepted it does meanwhile: it waits in the inbox, is in the hands
\* of the loop or of finishTurn, or was handed to the session once
\* (turns.go 141-206).  A closed turn cannot accept what nobody will drain.
SteeringKept ==
    \A m \in steered : Occurrences(m, inbox) + Occurrences(m, work.hand) + appends[m] = 1

\* The stored history only grows: no replica, injected group message or session
\* loaded too early ever overwrites what another one has saved (database.go
\* 3575-3600).
HistoryOnlyGrows == [][IsPrefix(durable.msgs, durable'.msgs)]_conversationVars

\* A result is made up only for a call that has none yet: the stored history never
\* has two results of one call (loop.go 2852-2855).
ResultsAreSingle ==
    \A i, j \in Indices(durable.msgs, "tool") :
        /\ durable.msgs[i].id = durable.msgs[j].id
        /\ durable.msgs[i].part = durable.msgs[j].part
        => i = j

\* Every request to Anthropic is one that the API accepts, although restarts,
\* failed saves, injected messages, stale reloads and late padding leave calls and
\* results apart in the history (anthropic.go 60-96).  Only a Get outside the turn
\* spoils one, when it makes the loop believe that a failed save went through or
\* replaces the list under the padding.
AnthropicAccepts ==
    At("calling") /\ ~shadowed => WellPaired(work.request, AnthropicReplies(work.request))

\* findOrphanToolCalls drops every reply to the calls it removes, so that the
\* API does not reject it as dangling (openai.go 176-186).
OpenAIAccepts ==
    At("calling") /\ ~shadowed => WellPaired(work.request, OpenAIReplies(work.request))

\* The conversation always comes to rest: no turn holds it for ever, and every
\* message that was queued or accepted has been recorded or has ended with its
\* turn (turns.go 59-101, 174-206, queue.go 91-218).
EveryMessageSettles ==
    []<>(/\ turn = NoTurn
         /\ \A m \in Inbound : pc[m] \in {"new", "ended", "lost"} \/ appends[m] > 0)

===============================================================================
