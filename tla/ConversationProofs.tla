-------------------------- MODULE ConversationProofs --------------------------
(***************************************************************************)
(* Safety of Conversation for any number of messages, any limits and any     *)
(* bounds on restarts, failed saves, other replicas and stops.               *)
(*                                                                          *)
(* Each action is put into a few kinds.  Its effect on the session and the   *)
(* stored row is one of those StoreKinds lists, its effect on the messages   *)
(* accepted as steering KeepsSteer, DrainsInbox, UsesSteer or RecordsOwn;    *)
(* for calls and results most steps are a PlainStep.  The parts of the       *)
(* invariant are proved of the kinds.                                        *)
(***************************************************************************)
EXTENDS Conversation, FiniteSetTheorems, FunctionTheorems, SequenceTheorems,
    WellFoundedInduction, TLAPS

(***************************************************************************)
(* The inductive invariant.                                                 *)
(***************************************************************************)
Message ==
    [role : {"user"}, id : Messages \cup {Replica}, part : {0}]
    \cup [role : {"assistant", "note"}, id : {0}, part : {0}]
    \cup [role : {"call"}, id : Nat, part : {0}]
    \cup [role : {"tool"}, id : Nat, part : Parts]

History == Seq(Message)
Row == [msgs : History, rev : Nat]

PCs == {"new", "queued", "waiting", "steered"} \cup TurnPCs \cup Gone

Turns == [owner : Inbound \cup {NoMessage},
          state : {"idle", "starting", "running", "finishing", "stopping"},
          cancelled : BOOLEAN, bound : BOOLEAN]
Works == [request : History, iteration : Nat, hand : Seq(Inbound),
          parts : SUBSET Parts, orphan : Nat,
          plan : BOOLEAN, guard : BOOLEAN, noTools : BOOLEAN]

ControlShape ==
    /\ pc \in [Messages -> PCs]
    /\ chatQueue \in Seq(Inbound)
    /\ serving \in Inbound \cup {NoMessage}
    /\ turn \in Turns
    /\ inbox \in Seq(Inbound)
    /\ work \in Works
    /\ steered \in SUBSET Inbound
    /\ appends \in [Inbound -> Nat]
    /\ calls \in 0..MaxCalls

StoreShape ==
    /\ session \in [cached : BOOLEAN, msgs : History, rev : Nat, failed : BOOLEAN]
    /\ read \in [Messages -> Row]
    /\ durable \in Row
    /\ trouble \in [messages : SUBSET Messages, restart : Nat, other : Nat, save : Nat,
                    cancel : Nat]

Shape == ControlShape /\ StoreShape

\* The slot belongs to the one message whose goroutine is in a turn.
SlotInv ==
    /\ IF turn = NoTurn THEN inbox = <<>> /\ work = NoWork
                        ELSE turn.owner \in Inbound /\ pc[turn.owner] \in TurnPCs
    /\ \A m \in Inbound : pc[m] \in TurnPCs => turn # NoTurn /\ m = turn.owner
    /\ \A g \in Injected : pc[g] \in {"new", "install", "record"} \cup Gone
    /\ \A i, j \in 1..Len(chatQueue) :
          pc[chatQueue[i]] = "queued" /\ (chatQueue[i] = chatQueue[j] => i = j)

\* Past finishTurn's critical section nothing is accepted any more, and the hand
\* is empty wherever the inbox is drained into it.
Closing == FinishPCs \ {"finish"}
Folding == {"fold", "refold", "getLeftover", "installLeftover", "pad", "leftover"}

IntakeOK ==
    turn # NoTurn =>
        /\ pc[Owner] \in Closing => inbox = <<>> /\ turn.state \in {"finishing", "stopping"}
        /\ work.hand # <<>> => pc[Owner] \in Folding

ControlInv == SlotInv /\ IntakeOK

SteerInv ==
    /\ \A m \in steered : pc[m] = "steered"
    /\ Range(inbox) \cup Range(work.hand) \subseteq steered
    /\ \A m \in Inbound : pc[m] = "new" => appends[m] = 0
    /\ SteeringKept

\* A list under the row's revision is the row's list, unless a save of it failed.
StoreInv ==
    /\ session.rev <= durable.rev
    /\ ~session.failed /\ session.rev = durable.rev => session.msgs = durable.msgs
    /\ \A m \in Messages :
          /\ read[m].rev <= durable.rev
          /\ read[m].rev = durable.rev => read[m].msgs = durable.msgs
    /\ durable.rev = 0 => durable.msgs = <<>>

ConversationInv == Shape /\ ControlInv /\ SteerInv /\ StoreInv /\ shadowed \in BOOLEAN

(***************************************************************************)
(* Calls and results.                                                       *)
(***************************************************************************)

\* No call and no result is in the list twice, and a result follows its call.
Paired(msgs) ==
    /\ \A i, j \in Indices(msgs, "call") : msgs[i].id = msgs[j].id => i = j
    /\ \A i, j \in Indices(msgs, "tool") :
          msgs[i].id = msgs[j].id /\ msgs[i].part = msgs[j].part => i = j
    /\ \A i \in Indices(msgs, "call"), j \in Indices(msgs, "tool") :
          msgs[i].id = msgs[j].id => i < j

\* ... and all of them are of the first n calls.
HistoryOK(msgs, n) ==
    /\ Paired(msgs)
    /\ \A i \in Indices(msgs, "call") \cup Indices(msgs, "tool") : msgs[i].id \in 1..n

\* The results that the loop has still to record, and those finishTurn will pad.
Owed ==
    IF At("called") THEN {ToolResult(calls, p) : p \in Parts}
    ELSE IF At("results") THEN {ToolResult(calls, p) : p \in work.parts} ELSE {}

Padded == IF At("leftover") THEN {ToolResult(work.orphan, p) : p \in work.parts} ELSE {}

Results == [role : {"tool"}, id : Nat, part : Parts]

\* The lists in the store and on their way from it, for the first n calls.
ListsOK(n) ==
    /\ HistoryOK(durable.msgs, n)
    /\ HistoryOK(session.msgs, n)
    /\ \A m \in Messages :
          HistoryOK(read[m].msgs, n) /\ Range(read[m].msgs) \subseteq Range(durable.msgs)

\* What the loop will record, and what finishTurn will pad, is not there yet.
FreshOK ==
    /\ Owed # {} => calls > 0
    /\ \A x \in Owed :
          x \notin Range(durable.msgs) \cup Range(session.msgs) \cup Range(work.request)
    /\ \A x \in Padded : x.id \in 1..calls /\ x \notin Range(session.msgs)

WireInv ==
    /\ ListsOK(calls)
    /\ HistoryOK(work.request, calls)
    /\ FreshOK

\* Every result in the list is of a call in the list.
Closed(msgs) == \A j \in Indices(msgs, "tool") : ToolCalls(msgs[j].id) \in Range(msgs)

StoreClosed ==
    /\ Closed(durable.msgs) /\ \A m \in Messages : Closed(read[m].msgs)
    /\ ~session.failed => Closed(session.msgs)

\* The call of a result that the loop will record is in the request, and stored
\* unless its save failed; that of a result to be padded is in the session.
CallsInv ==
    /\ StoreClosed
    /\ \A x \in Owed :
          /\ ToolCalls(x.id) \in Range(work.request)
          /\ session.failed \/ ToolCalls(x.id) \in Range(durable.msgs)
    /\ \A x \in Padded : session.failed \/ ToolCalls(x.id) \in Range(session.msgs)
    /\ InLoop => Closed(work.request) \/ (At("top") /\ session.failed)

(***************************************************************************)
(* Sequences, occurrences, the largest index.                               *)
(***************************************************************************)
LEMMA RangeOfAppend ==
    ASSUME NEW S, NEW s \in Seq(S), NEW x \in S
    PROVE  /\ Append(s, x) \in Seq(S)
           /\ Range(Append(s, x)) = Range(s) \cup {x}
  <1>1. /\ Append(s, x) \in Seq(S) /\ DOMAIN Append(s, x) = 1..(Len(s) + 1)
        /\ \A i \in 1..Len(s) : Append(s, x)[i] = s[i]
        /\ Append(s, x)[Len(s) + 1] = x
        /\ DOMAIN s = 1..Len(s) /\ Len(s) \in Nat
    BY AppendProperties
  <1>2. Range(Append(s, x)) \subseteq Range(s) \cup {x}
    BY <1>1 DEF Range
  <1>3. Range(s) \cup {x} \subseteq Range(Append(s, x))
    <2>1. ASSUME NEW i \in DOMAIN s PROVE s[i] \in Range(Append(s, x))
      BY <1>1 DEF Range
    <2>2. x \in Range(Append(s, x))
      BY <1>1 DEF Range
    <2>3. QED BY <2>1, <2>2 DEF Range
  <1>4. QED BY <1>1, <1>2, <1>3

LEMMA RangeOfTail ==
    ASSUME NEW S, NEW s \in Seq(S), s # <<>>
    PROVE  /\ Head(s) \in S /\ Tail(s) \in Seq(S)
           /\ Head(s) \in Range(s) /\ Range(Tail(s)) \subseteq Range(s)
  <1>1. /\ Len(s) \in Nat \ {0} /\ DOMAIN s = 1..Len(s)
        /\ Head(s) = s[1] /\ Head(s) \in S /\ Tail(s) \in Seq(S)
        /\ DOMAIN Tail(s) = 1..(Len(s) - 1)
        /\ \A i \in 1..(Len(s) - 1) : Tail(s)[i] = s[i + 1]
    BY EmptySeq, HeadTailProperties
  <1>2. Head(s) \in Range(s)
    BY <1>1 DEF Range
  <1>3. Range(Tail(s)) \subseteq Range(s)
    BY <1>1 DEF Range
  <1>4. QED BY <1>1, <1>2, <1>3

LEMMA PrefixOfAppend ==
    ASSUME NEW S, NEW s \in Seq(S), NEW x \in S
    PROVE  IsPrefix(s, s) /\ IsPrefix(s, Append(s, x))
  BY DEF IsPrefix

LEMMA EmptyRange == Range(<<>>) = {}
  BY DEF Range

LEMMA OccurrencesType ==
    ASSUME NEW S, NEW s \in Seq(S), NEW m
    PROVE  /\ IsFiniteSet({i \in DOMAIN s : s[i] = m})
           /\ Occurrences(m, s) \in Nat
           /\ m \notin Range(s) => Occurrences(m, s) = 0
  <1>1. Len(s) \in Nat /\ DOMAIN s = 1..Len(s)
    BY LenProperties
  <1>2. IsFiniteSet(1..Len(s))
    BY <1>1, FS_Interval
  <1>3. IsFiniteSet({i \in DOMAIN s : s[i] = m})
    BY <1>1, <1>2, FS_Subset
  <1>4. Occurrences(m, s) \in Nat
    BY <1>3, FS_CardinalityType DEF Occurrences
  <1>5. ASSUME m \notin Range(s) PROVE Occurrences(m, s) = 0
    <2>1. {i \in DOMAIN s : s[i] = m} = {}
      BY <1>5 DEF Range
    <2>2. QED BY <2>1, FS_EmptySet DEF Occurrences
  <1>6. QED BY <1>3, <1>4, <1>5

LEMMA OccurrencesOfAppend ==
    ASSUME NEW S, NEW s \in Seq(S), NEW x \in S, NEW m
    PROVE  Occurrences(m, Append(s, x)) = Occurrences(m, s) + (IF m = x THEN 1 ELSE 0)
  <1> DEFINE at(t) == {i \in DOMAIN t : t[i] = m}
  <1>0. \A t : Occurrences(m, t) = Cardinality(at(t))
    BY DEF Occurrences
  <1>1. /\ DOMAIN Append(s, x) = 1..(Len(s) + 1)
        /\ \A i \in 1..Len(s) : Append(s, x)[i] = s[i]
        /\ Append(s, x)[Len(s) + 1] = x
        /\ DOMAIN s = 1..Len(s) /\ Len(s) \in Nat
    BY AppendProperties
  <1>2. IsFiniteSet(at(s)) /\ Cardinality(at(s)) \in Nat
    BY OccurrencesType DEF Occurrences
  <1>3. CASE m = x
    <2>1. at(Append(s, x)) = at(s) \cup {Len(s) + 1} /\ Len(s) + 1 \notin at(s)
      BY <1>1, <1>3
    <2> HIDE DEF at
    <2>2. QED BY <1>0, <1>2, <1>3, <2>1, FS_AddElement
  <1>4. CASE m # x
    <2>1. at(Append(s, x)) = at(s)
      BY <1>1, <1>4
    <2> HIDE DEF at
    <2>2. QED BY <1>0, <1>2, <1>4, <2>1
  <1>5. QED BY <1>3, <1>4

LEMMA OccurrencesOfTail ==
    ASSUME NEW S, NEW s \in Seq(S), s # <<>>, NEW m
    PROVE  Occurrences(m, s) = Occurrences(m, Tail(s)) + (IF m = Head(s) THEN 1 ELSE 0)
  <1> DEFINE at(t) == {i \in DOMAIN t : t[i] = m}
             rest == at(s) \ {1}
             shift == [i \in at(Tail(s)) |-> i + 1]
  <1>0. \A t : Occurrences(m, t) = Cardinality(at(t))
    BY DEF Occurrences
  <1>1. /\ Len(s) \in Nat \ {0} /\ DOMAIN s = 1..Len(s)
        /\ Head(s) = s[1] /\ Tail(s) \in Seq(S)
        /\ DOMAIN Tail(s) = 1..(Len(s) - 1)
        /\ \A i \in 1..(Len(s) - 1) : Tail(s)[i] = s[i + 1]
    BY EmptySeq, HeadTailProperties
  <1>2. IsFiniteSet(at(s)) /\ IsFiniteSet(at(Tail(s))) /\ Cardinality(at(Tail(s))) \in Nat
    BY <1>1, OccurrencesType DEF Occurrences
  <1>3. shift \in Bijection(at(Tail(s)), rest)
    <2>1. shift \in [at(Tail(s)) -> rest]
      BY <1>1
    <2>2. \A i, j \in at(Tail(s)) : shift[i] = shift[j] => i = j
      BY <1>1
    <2>3. ASSUME NEW j \in rest PROVE \E i \in at(Tail(s)) : shift[i] = j
      <3>1. j - 1 \in at(Tail(s)) /\ shift[j - 1] = j
        BY <1>1, <2>3
      <3>2. QED BY <3>1
    <2>4. QED BY <2>1, <2>2, <2>3, Fun_IsBij
  <1>4. Cardinality(at(Tail(s))) = Cardinality(rest)
    BY <1>2, <1>3, FS_Bijection DEF ExistsBijection
  <1>5. CASE m = Head(s)
    <2>1. 1 \in at(s)
      BY <1>1, <1>5
    <2> HIDE DEF at
    <2>2. Cardinality(rest) = Cardinality(at(s)) - 1 /\ Cardinality(at(s)) \in Nat
      BY <1>2, <2>1, FS_RemoveElement, FS_CardinalityType
    <2>3. QED BY <1>0, <1>2, <1>4, <1>5, <2>2
  <1>6. CASE m # Head(s)
    <2>1. rest = at(s)
      BY <1>1, <1>6
    <2> HIDE DEF at, rest
    <2>2. QED BY <1>0, <1>2, <1>4, <1>6, <2>1
  <1>7. QED BY <1>5, <1>6

\* Max of FiniteSetsExt is the largest index.
LEMMA LargestIndex ==
    ASSUME NEW n \in Nat, NEW S \in SUBSET (1..n), S # {}
    PROVE  Max(S) \in S /\ \A y \in S : y <= Max(S)
  <1> DEFINE U == {n - x : x \in S}
  <1>1. U \in SUBSET Nat /\ U # {}
    <2>1. \A x \in S : n - x \in Nat
      OBVIOUS
    <2>2. QED BY <2>1
  <1>2. PICK u \in U : \A y \in U : ~(<<y, u>> \in OpToRel(<, Nat))
    BY <1>1, NatLessThanWellFounded, WFMin
  <1>3. \A y \in U : ~(y < u)
    BY <1>1, <1>2 DEF OpToRel
  <1>4. PICK x \in S : u = n - x
    OBVIOUS
  <1>5. \A y \in S : x >= y
    <2>1. ASSUME NEW y \in S PROVE x >= y
      <3>1. ~(n - y < n - x)
        BY <1>3, <1>4
      <3>2. QED BY <3>1
    <2>2. QED BY <2>1
  <1>6. Max(S) \in S /\ \A y \in S : Max(S) >= y
    BY <1>5 DEF Max
  <1>7. QED BY <1>6

(***************************************************************************)
(* Lists of messages.                                                       *)
(***************************************************************************)
LEMMA MessageKinds ==
    /\ \A m \in Messages \cup {Replica} : User(m) \in Message
    /\ Answer \in Message /\ Note \in Message
    /\ \A k \in Nat : ToolCalls(k) \in Message
    /\ \A k \in Nat, p \in Parts : ToolResult(k, p) \in Message /\ ToolResult(k, p) \in Results
    /\ Results \subseteq Message
    /\ \A x \in Message : /\ x.role = "tool" => x \in Results /\ x = ToolResult(x.id, x.part)
                          /\ x.role = "call" => x.id \in Nat /\ x = ToolCalls(x.id)
  BY DEF Message, User, Answer, Note, ToolCalls, ToolResult, Results, Parts

LEMMA IndicesOfAppend ==
    ASSUME NEW msgs \in History, NEW x \in Message
    PROVE  /\ Append(msgs, x) \in History /\ Len(msgs) \in Nat
           /\ \A role : Indices(msgs, role) \subseteq 1..Len(msgs)
           /\ Indices(Append(msgs, x), x.role) = Indices(msgs, x.role) \cup {Len(msgs) + 1}
           /\ \A role : x.role # role => Indices(Append(msgs, x), role) = Indices(msgs, role)
           /\ \A i \in 1..Len(msgs) : Append(msgs, x)[i] = msgs[i] /\ msgs[i] \in Message
           /\ Append(msgs, x)[Len(msgs) + 1] = x
  <1>1. /\ Append(msgs, x) \in History /\ DOMAIN Append(msgs, x) = 1..(Len(msgs) + 1)
        /\ \A i \in 1..Len(msgs) : Append(msgs, x)[i] = msgs[i]
        /\ Append(msgs, x)[Len(msgs) + 1] = x
        /\ DOMAIN msgs = 1..Len(msgs) /\ Len(msgs) \in Nat
        /\ \A i \in 1..Len(msgs) : msgs[i] \in Message
    BY AppendProperties, ElementOfSeq DEF History
  <1>2. /\ Indices(Append(msgs, x), x.role) = Indices(msgs, x.role) \cup {Len(msgs) + 1}
        /\ \A role : x.role # role => Indices(Append(msgs, x), role) = Indices(msgs, role)
    BY <1>1 DEF Indices
  <1>3. \A role : Indices(msgs, role) \subseteq 1..Len(msgs)
    BY <1>1 DEF Indices
  <1>4. QED BY <1>1, <1>2, <1>3

LEMMA PlainAppend ==
    ASSUME NEW msgs \in History, NEW n \in Nat, NEW x \in Message, HistoryOK(msgs, n),
           x.role \notin {"call", "tool"}
    PROVE  HistoryOK(Append(msgs, x), n)
  <1>1. /\ Indices(Append(msgs, x), "call") = Indices(msgs, "call")
        /\ Indices(Append(msgs, x), "tool") = Indices(msgs, "tool")
    BY IndicesOfAppend
  <1>2. \A i \in Indices(msgs, "call") \cup Indices(msgs, "tool") : Append(msgs, x)[i] = msgs[i]
    BY IndicesOfAppend
  <1>3. QED BY <1>1, <1>2 DEF HistoryOK, Paired

LEMMA CallAppend ==
    ASSUME NEW msgs \in History, NEW n \in Nat, HistoryOK(msgs, n)
    PROVE  HistoryOK(Append(msgs, ToolCalls(n + 1)), n + 1)
  <1> DEFINE x == ToolCalls(n + 1)
             new == Append(msgs, x)
             last == Len(msgs) + 1
  <1>1. x \in Message /\ x.role = "call" /\ x.id = n + 1
    BY MessageKinds DEF ToolCalls
  <1>2. /\ Indices(new, "call") = Indices(msgs, "call") \cup {last}
        /\ Indices(new, "tool") = Indices(msgs, "tool")
        /\ Indices(msgs, "call") \cup Indices(msgs, "tool") \subseteq 1..Len(msgs)
        /\ \A i \in 1..Len(msgs) : new[i] = msgs[i]
        /\ new[last] = x /\ Len(msgs) \in Nat
    <2> HIDE DEF x
    <2>1. /\ Indices(new, x.role) = Indices(msgs, x.role) \cup {last}
          /\ \A role : x.role # role => Indices(new, role) = Indices(msgs, role)
          /\ \A role : Indices(msgs, role) \subseteq 1..Len(msgs)
          /\ \A i \in 1..Len(msgs) : new[i] = msgs[i] /\ msgs[i] \in Message
          /\ new[last] = x /\ Len(msgs) \in Nat
      BY <1>1, IndicesOfAppend
    <2>2. QED BY <1>1, <2>1
  <1> HIDE DEF x, new
  <1>3. \A i \in Indices(msgs, "call") \cup Indices(msgs, "tool") :
           new[i].id \in 1..n /\ new[i].id # n + 1
    BY <1>2 DEF HistoryOK
  <1>4. \A i, j \in Indices(new, "call") : new[i].id = new[j].id => i = j
    BY <1>1, <1>2, <1>3 DEF HistoryOK, Paired
  <1>5. \A i, j \in Indices(new, "tool") :
           new[i].id = new[j].id /\ new[i].part = new[j].part => i = j
    BY <1>2 DEF HistoryOK, Paired
  <1>6. \A i \in Indices(new, "call"), j \in Indices(new, "tool") : new[i].id = new[j].id => i < j
    BY <1>1, <1>2, <1>3 DEF HistoryOK, Paired
  <1>7. \A i \in Indices(new, "call") \cup Indices(new, "tool") : new[i].id \in 1..(n + 1)
    BY <1>1, <1>2, <1>3
  <1>8. QED BY <1>4, <1>5, <1>6, <1>7 DEF HistoryOK, Paired, x, new

LEMMA ResultAppend ==
    ASSUME NEW msgs \in History, NEW n \in Nat, NEW x \in Results, HistoryOK(msgs, n),
           x.id \in 1..n, x \notin Range(msgs)
    PROVE  HistoryOK(Append(msgs, x), n)
  <1> DEFINE new == Append(msgs, x)
             last == Len(msgs) + 1
  <1>1. x \in Message /\ x.role = "tool" /\ x = ToolResult(x.id, x.part)
    BY MessageKinds DEF Results
  <1>2. /\ Indices(new, "call") = Indices(msgs, "call")
        /\ Indices(new, "tool") = Indices(msgs, "tool") \cup {last}
        /\ Indices(msgs, "call") \cup Indices(msgs, "tool") \subseteq 1..Len(msgs)
        /\ \A i \in 1..Len(msgs) : new[i] = msgs[i] /\ msgs[i] \in Message
        /\ new[last] = x /\ Len(msgs) \in Nat
    <2>1. /\ Indices(new, x.role) = Indices(msgs, x.role) \cup {last}
          /\ \A role : x.role # role => Indices(new, role) = Indices(msgs, role)
          /\ \A role : Indices(msgs, role) \subseteq 1..Len(msgs)
          /\ \A i \in 1..Len(msgs) : new[i] = msgs[i] /\ msgs[i] \in Message
          /\ new[last] = x /\ Len(msgs) \in Nat
      BY <1>1, IndicesOfAppend
    <2>2. QED BY <1>1, <2>1
  <1>3. ASSUME NEW i \in Indices(msgs, "tool"), msgs[i].id = x.id, msgs[i].part = x.part
        PROVE  FALSE
    <2>1. msgs[i].role = "tool" /\ i \in DOMAIN msgs /\ i \in 1..Len(msgs)
      BY <1>2 DEF Indices
    <2>2. msgs[i] = x
      BY <1>1, <1>2, <1>3, <2>1, MessageKinds
    <2>3. QED BY <2>1, <2>2 DEF Range
  <1> HIDE DEF new
  <1>4. \A i, j \in Indices(new, "call") : new[i].id = new[j].id => i = j
    BY <1>2 DEF HistoryOK, Paired
  <1>5. \A i, j \in Indices(new, "tool") :
           new[i].id = new[j].id /\ new[i].part = new[j].part => i = j
    BY <1>2, <1>3 DEF HistoryOK, Paired
  <1>6. \A i \in Indices(new, "call"), j \in Indices(new, "tool") : new[i].id = new[j].id => i < j
    BY <1>2 DEF HistoryOK, Paired
  <1>7. \A i \in Indices(new, "call") \cup Indices(new, "tool") : new[i].id \in 1..n
    BY <1>2 DEF HistoryOK
  <1>8. QED BY <1>4, <1>5, <1>6, <1>7 DEF HistoryOK, Paired, new

LEMMA HistoryLater ==
    ASSUME NEW msgs \in History, NEW n \in Nat, HistoryOK(msgs, n)
    PROVE  /\ HistoryOK(msgs, n + 1)
           /\ \A p \in Parts : ToolResult(n + 1, p) \notin Range(msgs)
           /\ ToolCalls(n + 1) \notin Range(msgs)
  <1>1. HistoryOK(msgs, n + 1)
    BY DEF HistoryOK
  <1>2. ASSUME NEW p \in Parts, ToolResult(n + 1, p) \in Range(msgs) PROVE FALSE
    <2>1. PICK i \in DOMAIN msgs : msgs[i] = ToolResult(n + 1, p)
      BY <1>2 DEF Range
    <2>2. i \in Indices(msgs, "tool") /\ msgs[i].id = n + 1
      BY <2>1 DEF Indices, ToolResult
    <2>3. QED BY <2>2 DEF HistoryOK
  <1>3. ASSUME ToolCalls(n + 1) \in Range(msgs) PROVE FALSE
    <2>1. PICK i \in DOMAIN msgs : msgs[i] = ToolCalls(n + 1)
      BY <1>3 DEF Range
    <2>2. i \in Indices(msgs, "call") /\ msgs[i].id = n + 1
      BY <2>1 DEF Indices, ToolCalls
    <2>3. QED BY <2>2 DEF HistoryOK
  <1>4. QED BY <1>1, <1>2, <1>3

LEMMA EmptyHistory == <<>> \in History /\ HistoryOK(<<>>, 0)
  BY EmptySeq DEF History, HistoryOK, Paired, Indices

LEMMA PadIsTyped ==
    ASSUME NEW msgs \in History
    PROVE  Unanswered(msgs) \subseteq Parts /\ LatestCall(msgs) \in Nat
  <1>1. Unanswered(msgs) \subseteq Parts
    BY DEF Unanswered
  <1>2. CASE Indices(msgs, "call") # {}
    <2> DEFINE last == Max(Indices(msgs, "call"))
    <2>1. /\ Indices(msgs, "call") \subseteq 1..Len(msgs) /\ Len(msgs) \in Nat
          /\ \A i \in 1..Len(msgs) : msgs[i] \in Message
      BY MessageKinds, IndicesOfAppend
    <2>2. last \in Indices(msgs, "call")
      BY <1>2, <2>1, LargestIndex
    <2>3. LatestCall(msgs) = msgs[last].id
      BY <1>2 DEF LatestCall
    <2> HIDE DEF last
    <2>4. QED BY <1>1, <2>1, <2>2, <2>3, MessageKinds DEF Indices
  <1>3. CASE Indices(msgs, "call") = {}
    BY <1>1, <1>3 DEF LatestCall
  <1>4. QED BY <1>2, <1>3

\* What finishTurn finds missing is missing in the whole list.
LEMMA UnansweredIsAbsent ==
    ASSUME NEW msgs \in History, NEW n \in Nat, HistoryOK(msgs, n)
    PROVE  /\ Unanswered(msgs) \subseteq Parts /\ LatestCall(msgs) \in Nat
           /\ Unanswered(msgs) # {} =>
                LatestCall(msgs) \in 1..n /\ ToolCalls(LatestCall(msgs)) \in Range(msgs)
           /\ \A p \in Unanswered(msgs) : ToolResult(LatestCall(msgs), p) \notin Range(msgs)
  <1>1. CASE Indices(msgs, "call") = {}
    BY <1>1 DEF Unanswered, LatestCall
  <1>2. CASE Indices(msgs, "call") # {}
    <2> DEFINE last == Max(Indices(msgs, "call"))
    <2>1. /\ Indices(msgs, "call") \subseteq 1..Len(msgs) /\ Len(msgs) \in Nat
          /\ \A i \in 1..Len(msgs) : msgs[i] \in Message
      BY MessageKinds, IndicesOfAppend
    <2>2. last \in Indices(msgs, "call")
      BY <1>2, <2>1, LargestIndex
    <2>3. LatestCall(msgs) = msgs[last].id
      BY <1>2 DEF LatestCall
    <2>4. Unanswered(msgs) =
             Parts \ {msgs[j].part : j \in {j \in Indices(msgs, "tool") :
                                               j > last /\ msgs[j].id = msgs[last].id}}
      BY <1>2 DEF Unanswered
    <2> HIDE DEF last
    <2>5. /\ msgs[last].id \in 1..n /\ msgs[last] = ToolCalls(msgs[last].id)
          /\ msgs[last] \in Range(msgs)
      BY <2>1, <2>2, MessageKinds DEF HistoryOK, Indices, Range
    <2>6. ASSUME NEW p \in Unanswered(msgs), ToolResult(msgs[last].id, p) \in Range(msgs)
          PROVE  FALSE
      <3>1. PICK j \in DOMAIN msgs : msgs[j] = ToolResult(msgs[last].id, p)
        BY <2>6 DEF Range
      <3>2. j \in Indices(msgs, "tool") /\ msgs[j].id = msgs[last].id /\ msgs[j].part = p
        BY <3>1 DEF Indices, ToolResult
      <3>3. last < j
        BY <2>2, <3>2 DEF HistoryOK, Paired
      <3>4. last \in Int /\ j \in Int
        BY <2>1, <2>2, <3>1, LenProperties DEF History
      <3>5. j > last
        BY <3>3, <3>4
      <3>6. QED BY <2>4, <2>6, <3>2, <3>5
    <2>7. QED BY <2>3, <2>4, <2>5, <2>6
  <1>3. QED BY <1>1, <1>2

\* toAnthropicMessages makes an acceptable request of such a list.
LEMMA PairedIsAccepted ==
    ASSUME NEW msgs \in History, NEW n \in Nat, HistoryOK(msgs, n), Closed(msgs)
    PROVE  WellPaired(msgs, AnthropicReplies(msgs))
  <1> DEFINE replies == AnthropicReplies(msgs)
  <1>1. /\ replies \subseteq Indices(msgs, "tool")
        /\ \A j \in replies : ~\E i \in OrphanCalls(msgs) : msgs[i].id = msgs[j].id
    BY DEF AnthropicReplies, OpenAIReplies
  <1>2. /\ Len(msgs) \in Nat /\ DOMAIN msgs = 1..Len(msgs)
        /\ \A i \in 1..Len(msgs) : msgs[i] \in Message
    BY LenProperties, ElementOfSeq DEF History
  <1> HIDE DEF replies
  <1>3. ASSUME NEW j \in replies, NEW i \in Indices(msgs, "call"), msgs[i].id = msgs[j].id
        PROVE  i \in Indices(msgs, "call") \ OrphanCalls(msgs) /\ j \in RunAfter(msgs, i)
    <2>1. i \notin OrphanCalls(msgs)
      BY <1>1, <1>3
    <2>2. Parts = {msgs[k].part : k \in {k \in RunAfter(msgs, i) : msgs[k].id = msgs[i].id}}
      BY <1>3, <2>1 DEF OrphanCalls
    <2>3. j \in Indices(msgs, "tool") /\ j \in 1..Len(msgs) /\ msgs[j].role = "tool"
      BY <1>1, <1>2, <1>3 DEF Indices
    <2>4. msgs[j].part \in Parts
      BY <1>2, <2>3, MessageKinds DEF Results
    <2>5. PICK k \in RunAfter(msgs, i) : msgs[k].id = msgs[i].id /\ msgs[k].part = msgs[j].part
      BY <2>2, <2>4
    <2>6. k \in (i + 1)..Len(msgs) /\ msgs[k].role = "tool"
      <3>1. i \in 1..Len(msgs)
        BY <1>2, <1>3 DEF Indices
      <3>2. k \in (i + 1)..Len(msgs) /\ k \in (i + 1)..k
        BY <1>2, <2>5, <3>1 DEF RunAfter
      <3>3. QED BY <2>5, <3>2 DEF RunAfter
    <2>7. k \in Indices(msgs, "tool")
      <3>1. i \in 1..Len(msgs)
        BY <1>2, <1>3 DEF Indices
      <3>2. QED BY <1>2, <2>6, <3>1 DEF Indices
    <2>8. k = j
      BY <1>3, <2>3, <2>5, <2>7 DEF HistoryOK, Paired
    <2>9. QED BY <1>3, <2>1, <2>5, <2>8
  <1>4. \A j, k \in replies : msgs[j].id = msgs[k].id /\ msgs[j].part = msgs[k].part => j = k
    BY <1>1 DEF HistoryOK, Paired
  <1>5. ASSUME NEW j \in replies
        PROVE  \E i \in Indices(msgs, "call") \ OrphanCalls(msgs) :
                  j \in RunAfter(msgs, i) /\ msgs[j].id = msgs[i].id
    <2>1. PICK i \in DOMAIN msgs : msgs[i] = ToolCalls(msgs[j].id)
      BY <1>1 DEF Closed, Range
    <2>2. i \in Indices(msgs, "call") /\ msgs[i].id = msgs[j].id
      BY <2>1 DEF Indices, ToolCalls
    <2>3. QED BY <1>3, <2>2
  <1>6. QED BY <1>4, <1>5 DEF WellPaired, replies

(***************************************************************************)
(* The session and the stored row: what an append and a Get do to them.      *)
(***************************************************************************)
LEMMA AppendStores ==
    ASSUME StoreShape, StoreInv, NEW x \in Message, SessionAppend(x), UNCHANGED read
    PROVE  /\ StoreShape' /\ StoreInv'
           /\ session'.msgs = Append(session.msgs, x)
           /\ durable'.msgs \in {durable.msgs, Append(durable.msgs, x)}
           /\ durable'.msgs = durable.msgs \/ durable'.msgs = session'.msgs
           /\ session.failed => session'.failed
           /\ ~session'.failed => session.msgs = durable.msgs /\ durable'.msgs = session'.msgs
  <1> DEFINE msgs == Append(session.msgs, x)
  <1>1. msgs \in History /\ session.msgs \in History
    BY AppendProperties DEF History, StoreShape
  <1> HIDE DEF msgs
  <1>2. CASE /\ ~session.failed /\ RevisionHolds
             /\ durable' = [msgs |-> msgs, rev |-> durable.rev + 1]
             /\ session' = [session EXCEPT !.msgs = msgs, !.rev = durable.rev + 1]
             /\ UNCHANGED trouble
    <2>0. durable.rev + 1 \in Nat
      BY DEF StoreShape, Row
    <2>1. StoreShape'
      <3>1. durable' \in Row
        BY <1>1, <1>2, <2>0 DEF Row
      <3>2. session' \in [cached : BOOLEAN, msgs : History, rev : Nat, failed : BOOLEAN]
        BY <1>1, <1>2, <2>0 DEF StoreShape
      <3>3. QED BY <1>2, <3>1, <3>2 DEF StoreShape
    <2>2. session.msgs = durable.msgs
      BY <1>2 DEF StoreInv, RevisionHolds
    <2>3. StoreInv'
      BY <1>1, <1>2 DEF StoreShape, Row, StoreInv
    <2>4. QED BY <1>2, <2>1, <2>2, <2>3 DEF msgs, StoreShape
  <1>3. CASE /\ \/ (session.failed \/ ~RevisionHolds) /\ UNCHANGED trouble
                \/ /\ ~session.failed /\ RevisionHolds /\ trouble.save > 0
                   /\ trouble' = [trouble EXCEPT !.save = @ - 1]
             /\ session' = [session EXCEPT !.msgs = msgs, !.failed = TRUE]
             /\ UNCHANGED durable
    <2>1. trouble' \in [messages : SUBSET Messages, restart : Nat, other : Nat, save : Nat,
                        cancel : Nat]
      BY <1>3 DEF StoreShape
    <2>2. StoreShape'
      BY <1>1, <1>3, <2>1 DEF StoreShape
    <2>3. StoreInv'
      BY <1>1, <1>3 DEF StoreShape, StoreInv
    <2>4. QED BY <1>3, <2>2, <2>3 DEF msgs, StoreShape
  <1>4. QED BY <1>2, <1>3 DEF SessionAppend, msgs

LEMMA GetStores ==
    ASSUME StoreShape, StoreInv, NEW m \in Messages, NEW installing, NEW next,
           GetLoads(m, installing, next) \/ GetInstalls(m, next)
    PROVE  StoreShape' /\ StoreInv' /\ UNCHANGED durable
  <1>1. ASSUME NEW failed \in BOOLEAN, LoadFails(failed)
        PROVE  trouble' \in [messages : SUBSET Messages, restart : Nat, other : Nat, save : Nat,
                             cancel : Nat]
    BY <1>1 DEF LoadFails, StoreShape
  <1>2. /\ <<>> \in History /\ NoRead \in Row /\ durable.msgs \in History /\ durable.rev \in Nat
        /\ read[m].msgs \in History /\ read[m].rev \in Nat
    BY EmptyHistory DEF StoreShape, NoRead, Row
  <1>3. CASE GetLoads(m, installing, next)
    <2>1. CASE session.cached
      <3>1. read' = [read EXCEPT ![m] = durable] /\ UNCHANGED <<session, trouble, durable>>
        BY <1>3, <2>1 DEF GetLoads
      <3>2. StoreShape'
        BY <3>1 DEF StoreShape
      <3>3. StoreInv'
        <4>1. \A n \in Messages : read'[n] \in {read[n], durable}
          BY <3>1 DEF StoreShape
        <4>2. QED BY <3>1, <4>1 DEF StoreShape, StoreInv, Row
      <3>4. QED BY <3>1, <3>2, <3>3
    <2>2. CASE ~session.cached
      <3>1. PICK failed \in BOOLEAN :
                /\ LoadFails(failed)
                /\ session' = [cached |-> TRUE, failed |-> failed,
                               msgs |-> IF failed THEN <<>> ELSE durable.msgs,
                               rev |-> IF failed THEN 0 ELSE durable.rev]
        BY <1>3, <2>2 DEF GetLoads
      <3>2. UNCHANGED <<read, durable>>
        BY <1>3, <2>2 DEF GetLoads
      <3>3. StoreShape'
        BY <1>1, <1>2, <3>1, <3>2 DEF StoreShape
      <3>4. StoreInv'
        BY <1>2, <3>1, <3>2 DEF StoreInv
      <3>5. QED BY <3>2, <3>3, <3>4
    <2>3. QED BY <2>1, <2>2
  <1>4. CASE GetInstalls(m, next)
    <2>1. PICK failed \in BOOLEAN :
              /\ LoadFails(failed)
              /\ session' = IF failed THEN [session EXCEPT !.failed = TRUE]
                            ELSE [session EXCEPT !.msgs = read[m].msgs, !.rev = read[m].rev,
                                                 !.failed = FALSE]
      BY <1>4 DEF GetInstalls
    <2>2. read' = [read EXCEPT ![m] = NoRead] /\ UNCHANGED durable
      BY <1>4 DEF GetInstalls
    <2>3. StoreShape'
      BY <1>1, <1>2, <2>1, <2>2 DEF StoreShape
    <2>4. StoreInv'
      <3>1. session'.rev <= durable.rev
        BY <2>1 DEF StoreShape, StoreInv
      <3>2. ~session'.failed /\ session'.rev = durable.rev => session'.msgs = durable.msgs
        BY <2>1 DEF StoreShape, StoreInv
      <3>3. \A n \in Messages :
              /\ read'[n].rev <= durable.rev
              /\ read'[n].rev = durable.rev => read'[n].msgs = durable.msgs
        BY <1>2, <2>2 DEF StoreShape, StoreInv, NoRead
      <3>4. QED BY <2>2, <3>1, <3>2, <3>3 DEF StoreInv
    <2>5. QED BY <2>2, <2>3, <2>4
  <1>5. QED BY <1>3, <1>4

LEMMA SmallestPart ==
    ASSUME NEW parts \in SUBSET Parts, parts # {}
    PROVE  /\ Min(parts) \in parts
           /\ (CHOOSE p \in parts : \A q \in parts : p <= q) \in parts
  <1>1. \E p \in parts : \A q \in parts : p <= q
    <2>1. parts \subseteq {1, 2}
      BY DEF Parts
    <2>2. CASE 1 \in parts
      <3>1. \A q \in parts : 1 <= q
        BY <2>1
      <3>2. QED BY <2>2, <3>1
    <2>3. CASE 1 \notin parts
      <3>1. PICK x \in parts : TRUE
        OBVIOUS
      <3>2. x = 2
        BY <2>1, <2>3, <3>1
      <3>3. 2 \in parts /\ \A q \in parts : 2 <= q
        BY <2>1, <2>3, <3>2
      <3>4. QED BY <3>3
    <2>4. QED BY <2>2, <2>3
  <1>2. (CHOOSE p \in parts : \A q \in parts : p <= q) \in parts
    BY <1>1
  <1>3. Min(parts) \in parts
    BY <1>1 DEF Min
  <1>4. QED BY <1>2, <1>3

LEMMA TypesOfParts ==
    ASSUME Shape
    PROVE  /\ turn \in Turns /\ work \in Works /\ NoTurn \in Turns /\ NoWork \in Works
           /\ work.request \in History /\ work.iteration + 1 \in Nat
           /\ work.hand \in Seq(Inbound)
           /\ work.parts \in SUBSET Parts /\ work.orphan \in Nat
           /\ inbox \in Seq(Inbound) /\ <<>> \in Seq(Inbound)
           /\ \A x \in Message : Append(work.request, x) \in History
           /\ calls \in Nat /\ calls \in 0..MaxCalls /\ appends \in [Inbound -> Nat]
           /\ session \in [cached : BOOLEAN, msgs : History, rev : Nat, failed : BOOLEAN]
           /\ session.failed \in BOOLEAN /\ session.msgs \in History
  <1>1. turn \in Turns /\ work \in Works /\ inbox \in Seq(Inbound) /\ appends \in [Inbound -> Nat]
    BY DEF Shape, ControlShape
  <1>2. /\ work.request \in History /\ work.iteration \in Nat /\ work.hand \in Seq(Inbound)
        /\ work.iteration + 1 \in Nat
        /\ work.parts \in SUBSET Parts /\ work.orphan \in Nat
    BY <1>1 DEF Works
  <1>3. \A x \in Message : Append(work.request, x) \in History
    BY <1>2, AppendProperties DEF History
  <1>4. calls \in Nat /\ calls \in 0..MaxCalls
    BY ConversationAssumption DEF Shape, ControlShape
  <1>5. <<>> \in Seq(Inbound) /\ <<>> \in History
    BY EmptySeq DEF History
  <1>6. NoTurn \in Turns
    BY DEF NoTurn, Turns
  <1>7. NoWork \in Works
    BY <1>5 DEF NoWork, Works
  <1>8. session \in [cached : BOOLEAN, msgs : History, rev : Nat, failed : BOOLEAN]
    BY DEF Shape, StoreShape
  <1>9. session.failed \in BOOLEAN /\ session.msgs \in History
    BY <1>8
  <1>10. QED BY <1>1, <1>2, <1>3, <1>4, <1>5, <1>6, <1>7, <1>8, <1>9

\* The slot's owner, wherever a turn is.
LEMMA OwnerOf ==
    ASSUME Shape, SlotInv, NEW label, At(label)
    PROVE  /\ turn # NoTurn /\ Owner \in Inbound /\ Owner \in Messages
           /\ pc[Owner] = label
  BY DEF At, SlotInv, Owner, Messages

LEMMA HandIsInbound ==
    ASSUME Shape, work.hand # <<>>
    PROVE  /\ Head(work.hand) \in Inbound /\ Tail(work.hand) \in Seq(Inbound)
           /\ Head(work.hand) \in Messages
           /\ User(Head(work.hand)) \in Message
  <1>1. work.hand \in Seq(Inbound)
    BY TypesOfParts
  <1>2. Head(work.hand) \in Inbound /\ Tail(work.hand) \in Seq(Inbound)
    BY <1>1, RangeOfTail
  <1>3. QED BY <1>2, MessageKinds DEF Messages

\* The messages that an action may append.
Appends ==
    \E x \in Message : SessionAppend(x) /\ UNCHANGED read

Gets ==
    \E m \in Messages, installing, next \in PCs :
        GetLoads(m, installing, next) \/ GetInstalls(m, next)

KeepsStore ==
    /\ UNCHANGED storeVars
    /\ \/ UNCHANGED trouble
       \/ trouble.cancel > 0 /\ trouble' = [trouble EXCEPT !.cancel = @ - 1]

LEMMA TurnAppends ==
    ASSUME Shape, SlotInv,
           \/ RecordUserMessage \/ FoldSteer \/ ModelAnswers \/ ModelCallsTools
           \/ RecordResult \/ RecordWarning \/ RecordReminder \/ PadOrphan \/ SaveLeftover
    PROVE  Appends
  <1>1. CASE RecordUserMessage
    <2>1. User(Owner) \in Message
      BY <1>1, OwnerOf, MessageKinds DEF RecordUserMessage
    <2>2. QED BY <1>1, <2>1 DEF RecordUserMessage, AppendUser, Appends
  <1>2. CASE FoldSteer
    BY <1>2, HandIsInbound DEF FoldSteer, AppendUser, Appends
  <1>3. CASE ModelAnswers
    BY <1>3, MessageKinds DEF ModelAnswers, Appends
  <1>4. CASE ModelCallsTools
    <2>1. calls + 1 \in Nat
      BY ConversationAssumption DEF Shape, ControlShape
    <2>2. QED BY <1>4, <2>1, MessageKinds DEF ModelCallsTools, Appends
  <1>5. CASE RecordResult
    <2> DEFINE part == CHOOSE p \in work.parts : \A q \in work.parts : p <= q
    <2>1. part \in Parts
      BY <1>5, SmallestPart, TypesOfParts DEF RecordResult
    <2>2. calls \in Nat
      BY ConversationAssumption DEF Shape, ControlShape
    <2>3. SessionAppend(ToolResult(calls, part)) /\ UNCHANGED read
      BY <1>5 DEF RecordResult
    <2> HIDE DEF part
    <2>4. QED BY <2>1, <2>2, <2>3, MessageKinds DEF Appends
  <1>6. CASE RecordWarning
    BY <1>6, MessageKinds DEF RecordWarning, Appends
  <1>7. CASE RecordReminder
    BY <1>7, MessageKinds DEF RecordReminder, Appends
  <1>8. CASE PadOrphan
    <2>1. Min(work.parts) \in Parts
      BY <1>8, SmallestPart, TypesOfParts DEF PadOrphan
    <2>2. work.orphan \in Nat
      BY TypesOfParts
    <2>3. QED BY <1>8, <2>1, <2>2, MessageKinds DEF PadOrphan, Appends
  <1>9. CASE SaveLeftover
    BY <1>9, HandIsInbound DEF SaveLeftover, AppendUser, Appends
  <1>10. QED BY <1>1, <1>2, <1>3, <1>4, <1>5, <1>6, <1>7, <1>8, <1>9

LEMMA TurnGets ==
    ASSUME Shape, SlotInv,
           LoadSession \/ InstallSession \/ LoadForLeftover \/ InstallForLeftover
    PROVE  Gets
  <1>1. {"install", "record", "installLeftover", "pad"} \subseteq PCs
    BY DEF PCs, TurnPCs, FinishPCs
  <1>2. Owner \in Messages
    BY OwnerOf DEF LoadSession, InstallSession, LoadForLeftover, InstallForLeftover
  <1>3. QED
    BY <1>1, <1>2 DEF LoadSession, InstallSession, LoadForLeftover, InstallForLeftover, Gets

LEMMA InjectedStores ==
    ASSUME Shape, NEW g \in Injected, InjectGroupMessage(g)
    PROVE  Appends \/ Gets
  <1>1. g \in Messages /\ User(g) \in Message
    BY MessageKinds DEF Messages
  <1>2. {"install", "record"} \subseteq PCs
    BY DEF PCs, TurnPCs
  <1>3. CASE GetLoads(g, "install", "record") \/ GetInstalls(g, "record")
    BY <1>1, <1>2, <1>3 DEF Gets
  <1>4. CASE AppendUser(g) /\ UNCHANGED read
    BY <1>1, <1>4 DEF AppendUser, Appends
  <1>5. QED BY <1>3, <1>4 DEF InjectGroupMessage

LEMMA ControlKeepsStore ==
    ASSUME \/ \E m \in Inbound : Route(m) \/ ReserveWebTurn(m) \/ AcquireTurn(m) \/ WaitTimesOut(m)
           \/ ExecuteTask \/ CleanupIdleQueue \/ StartTurn \/ LoopTop \/ FoldEnds \/ ModelFails
           \/ CloseOrContinue \/ RunTools \/ RoundEnds \/ FinishTurn \/ PadBegins
           \/ LeftoverSaved \/ ReleaseTurn \/ StopTurn
           \/ \E g \in Injected : WebChatHistory(g)
    PROVE  KeepsStore
  BY DEF Route, ReserveWebTurn, AcquireTurn, WaitTimesOut, ExecuteTask, CleanupIdleQueue,
     StartTurn, LoopTop, FoldEnds, ModelFails, CloseOrContinue, RunTools, RoundEnds, FinishTurn,
     PadBegins, LeftoverSaved, ReleaseTurn, StopTurn, WebChatHistory, KeepsStore

\* Every step by what it does to the session and the stored row.
LEMMA StoreKinds ==
    ASSUME Shape, SlotInv, ConversationNext
    PROVE  KeepsStore \/ Appends \/ Gets \/ ReplicaAppends \/ Restart
  BY TurnAppends, TurnGets, InjectedStores, ControlKeepsStore DEF ConversationNext, TurnStep

LEMMA StoreStep ==
    ASSUME Shape, SlotInv, StoreInv, ConversationNext
    PROVE  StoreShape' /\ StoreInv' /\ IsPrefix(durable.msgs, durable'.msgs)
  <1>1. durable.msgs \in History /\ durable.rev \in Nat
    BY DEF Shape, StoreShape, Row
  <1>2. CASE KeepsStore
    <2>1. trouble' \in [messages : SUBSET Messages, restart : Nat, other : Nat, save : Nat,
                        cancel : Nat]
      BY <1>2 DEF KeepsStore, Shape, StoreShape
    <2>2. UNCHANGED <<session, read, durable>>
      BY <1>2 DEF KeepsStore, storeVars
    <2>3. StoreShape' /\ StoreInv'
      BY <2>1, <2>2 DEF Shape, StoreShape, StoreInv
    <2>4. QED BY <1>1, <2>2, <2>3, PrefixOfAppend, MessageKinds DEF History
  <1>3. CASE Appends
    <2>1. PICK x \in Message : SessionAppend(x) /\ UNCHANGED read
      BY <1>3 DEF Appends
    <2>2. /\ StoreShape' /\ StoreInv'
          /\ durable'.msgs \in {durable.msgs, Append(durable.msgs, x)}
      BY <2>1, AppendStores DEF Shape
    <2>3. QED BY <1>1, <2>2, PrefixOfAppend DEF History
  <1>4. CASE Gets
    <2>1. PICK m \in Messages, installing \in PCs, next \in PCs :
             GetLoads(m, installing, next) \/ GetInstalls(m, next)
      BY <1>4 DEF Gets
    <2>2. StoreShape' /\ StoreInv' /\ UNCHANGED durable
      BY <2>1, GetStores DEF Shape
    <2>3. QED BY <1>1, <2>2, PrefixOfAppend, MessageKinds DEF History
  <1>5. CASE ReplicaAppends
    <2>1. /\ durable' = [msgs |-> Append(durable.msgs, User(Replica)), rev |-> durable.rev + 1]
          /\ UNCHANGED <<session, read>>
      BY <1>5 DEF ReplicaAppends
    <2>2. User(Replica) \in Message
      BY MessageKinds
    <2>3. durable' \in Row
      BY <1>1, <2>1, <2>2, RangeOfAppend DEF History, Row
    <2>4. trouble' \in [messages : SUBSET Messages, restart : Nat, other : Nat, save : Nat,
                        cancel : Nat]
      BY <1>5 DEF ReplicaAppends, Shape, StoreShape
    <2>5. StoreShape'
      BY <2>1, <2>3, <2>4 DEF Shape, StoreShape
    <2>6. StoreInv'
      BY <1>1, <2>1 DEF Shape, StoreShape, StoreInv, Row
    <2>7. QED BY <1>1, <2>1, <2>2, <2>5, <2>6, PrefixOfAppend DEF History
  <1>6. CASE Restart
    <2>1. /\ UNCHANGED durable /\ session' = NoSession
          /\ read' = [m \in Messages |-> NoRead]
      BY <1>6 DEF Restart
    <2>2. trouble' \in [messages : SUBSET Messages, restart : Nat, other : Nat, save : Nat,
                        cancel : Nat]
      BY <1>6 DEF Restart, Shape, StoreShape
    <2>3. StoreShape'
      BY <2>1, <2>2, EmptyHistory DEF Shape, StoreShape, NoSession, NoRead, Row
    <2>4. StoreInv'
      BY <1>1, <2>1 DEF StoreInv, NoSession, NoRead
    <2>5. QED BY <1>1, <2>1, <2>3, <2>4, PrefixOfAppend, MessageKinds DEF History
  <1>7. QED BY <1>2, <1>3, <1>4, <1>5, <1>6, StoreKinds

\* What a Get has hidden stays hidden.
LEMMA ShadowStep ==
    ASSUME Shape, SlotInv, shadowed \in BOOLEAN, ConversationNext
    PROVE  shadowed' \in BOOLEAN /\ (shadowed => shadowed')
  <1>1. CASE KeepsStore
    BY <1>1 DEF KeepsStore, storeVars
  <1>2. CASE Appends
    BY <1>2 DEF Appends, SessionAppend
  <1>3. CASE Gets
    BY <1>3 DEF Gets, GetLoads, GetInstalls, GetCompletes
  <1>4. CASE ReplicaAppends \/ Restart
    BY <1>4 DEF ReplicaAppends, Restart
  <1>5. QED BY <1>1, <1>2, <1>3, <1>4, StoreKinds

(***************************************************************************)
(* The turn slot: who is in a turn, and when it accepts steering.            *)
(***************************************************************************)
\* The goroutine of the slot's owner goes from one place of its turn to another.
LEMMA OwnerMoves ==
    ASSUME Shape, ControlInv, turn # NoTurn, NEW label \in TurnPCs,
           pc' = [pc EXCEPT ![Owner] = label],
           UNCHANGED <<queueVars, steered>>,
           turn' \in Turns, turn'.owner = turn.owner, inbox' \in {inbox, <<>>},
           work' \in Works, appends' \in [Inbound -> Nat], calls' \in 0..MaxCalls,
           label \in Closing => inbox' = <<>> /\ turn'.state \in {"finishing", "stopping"},
           work'.hand # <<>> => label \in Folding
    PROVE  ControlShape' /\ ControlInv'
  <1>1. /\ Owner \in Inbound /\ Owner' = Owner /\ turn' # NoTurn
        /\ pc \in [Messages -> PCs] /\ Owner \in Messages
    BY ConversationAssumption DEF ControlInv, SlotInv, Owner, NoTurn, Shape, ControlShape, Messages
  <1>2. pc' \in [Messages -> PCs] /\ pc'[Owner] = label
    BY <1>1 DEF PCs
  <1>3. ControlShape'
    <2>1. inbox' \in Seq(Inbound)
      BY TypesOfParts
    <2>2. QED BY <1>2, <2>1 DEF Shape, ControlShape, queueVars
  <1>4. SlotInv'
    <2>1. \A m \in Messages : m # Owner => pc'[m] = pc[m]
      BY <1>1
    <2>2. "queued" \notin TurnPCs
      BY DEF TurnPCs, LoopPCs, FinishPCs
    <2>3. \A i \in 1..Len(chatQueue) : chatQueue[i] # Owner /\ chatQueue[i] \in Messages
      <3>1. chatQueue \in Seq(Inbound)
        BY DEF Shape, ControlShape
      <3>2. QED
        BY <1>1, <2>2, <3>1, ElementOfSeq DEF ControlInv, SlotInv, Owner, Messages
    <2>4. \A i, j \in 1..Len(chatQueue)' :
            pc'[chatQueue'[i]] = "queued" /\ (chatQueue'[i] = chatQueue'[j] => i = j)
      BY <2>1, <2>3 DEF queueVars, ControlInv, SlotInv
    <2>5. \A g \in Injected : pc'[g] \in {"new", "install", "record"} \cup Gone
      BY <1>1, <2>1, ConversationAssumption DEF ControlInv, SlotInv, Messages
    <2>6. \A m \in Inbound : pc'[m] \in TurnPCs => turn' # NoTurn /\ m = turn'.owner
      BY <1>1, <2>1 DEF ControlInv, SlotInv, Messages, Owner
    <2>7. QED BY <1>1, <1>2, <2>4, <2>5, <2>6 DEF SlotInv, Owner
  <1>5. IntakeOK'
    BY <1>1, <1>2 DEF IntakeOK
  <1>6. QED BY <1>3, <1>4, <1>5 DEF ControlInv

LEMMA Labels ==
    /\ TurnPCs = {"started", "get", "install", "record", "top", "fold", "calling", "answered",
                  "refold", "called", "results", "noted", "finish", "getLeftover",
                  "installLeftover", "pad", "leftover", "release"}
    /\ Closing = {"getLeftover", "installLeftover", "pad", "leftover", "release"}
    /\ Folding = {"fold", "refold", "getLeftover", "installLeftover", "pad", "leftover"}
  BY DEF TurnPCs, LoopPCs, FinishPCs, Closing, Folding

\* ... or stays where it is.
LEMMA OwnerStays ==
    ASSUME Shape, ControlInv, turn # NoTurn,
           UNCHANGED <<pc, queueVars, turnVars, steered>>,
           work' \in Works, appends' \in [Inbound -> Nat], calls' \in 0..MaxCalls,
           work'.hand # <<>> => work.hand # <<>>
    PROVE  ControlShape' /\ ControlInv'
  <1>1. pc' = [pc EXCEPT ![Owner] = pc[Owner]]
    BY DEF Shape, ControlShape
  <1>2. pc[Owner] \in TurnPCs
    BY DEF ControlInv, SlotInv, Owner
  <1>3. /\ turn' \in Turns /\ turn'.owner = turn.owner /\ inbox' \in {inbox, <<>>}
        /\ UNCHANGED <<queueVars, steered>>
    BY TypesOfParts DEF turnVars
  <1>4. /\ pc[Owner] \in Closing => inbox' = <<>> /\ turn'.state \in {"finishing", "stopping"}
        /\ work'.hand # <<>> => pc[Owner] \in Folding
    BY DEF turnVars, ControlInv, IntakeOK
  <1>5. QED BY <1>1, <1>2, <1>3, <1>4, OwnerMoves

LEMMA AppendsTyped ==
    ASSUME Shape, NEW m \in Messages, AppendUser(m)
    PROVE  appends' \in [Inbound -> Nat]
  BY TypesOfParts DEF AppendUser

\* Up to the head of the loop.
LEMMA StartControl ==
    ASSUME Shape, ControlInv, StoreShape',
           StartTurn \/ LoadSession \/ InstallSession \/ RecordUserMessage \/ LoopTop
    PROVE  ControlShape' /\ ControlInv'
  <1> USE TypesOfParts, Labels
  <1>0. turn # NoTurn /\ Owner \in Messages /\ (work.hand # <<>> => pc[Owner] \in Folding)
    BY OwnerOf DEF ControlInv, IntakeOK, StartTurn, LoadSession, InstallSession,
       RecordUserMessage, LoopTop
  <1>1. CASE StartTurn
    <2>1. /\ pc[Owner] = "started" /\ UNCHANGED <<queueVars, turnVars, steered, appends, calls>>
          /\ \/ pc' = [pc EXCEPT ![Owner] = "finish"]
             \/ pc' = [pc EXCEPT ![Owner] = "get"]
          /\ work' \in Works /\ work'.hand = work.hand
      BY <1>1 DEF StartTurn, At, Next1, Goto, ghostVars, Works
    <2>2. QED BY <1>0, <2>1, OwnerMoves DEF turnVars
  <1>2. ASSUME BindSession
        PROVE  turn' \in Turns /\ turn'.owner = turn.owner
    BY <1>2 DEF BindSession, Turns
  <1>3. CASE LoadSession
    <2>1. /\ pc[Owner] = "get" /\ UNCHANGED <<queueVars, inbox, work, steered, appends, calls>>
          /\ \/ pc' = [pc EXCEPT ![Owner] = "install"]
             \/ pc' = [pc EXCEPT ![Owner] = "record"]
          /\ UNCHANGED turn \/ BindSession
      BY <1>3 DEF LoadSession, GetLoads, At, Goto, ghostVars
    <2>2. QED BY <1>0, <1>2, <2>1, OwnerMoves
  <1>4. CASE InstallSession
    <2>1. /\ pc[Owner] = "install" /\ UNCHANGED <<queueVars, inbox, work, steered, appends, calls>>
          /\ pc' = [pc EXCEPT ![Owner] = "record"] /\ BindSession
      BY <1>4 DEF InstallSession, GetInstalls, At, Goto, ghostVars
    <2>2. QED BY <1>0, <1>2, <2>1, OwnerMoves
  <1>5. CASE RecordUserMessage
    <2>1. /\ pc[Owner] = "record" /\ UNCHANGED <<queueVars, turnVars, steered, calls>>
          /\ pc' = [pc EXCEPT ![Owner] = "top"]
          /\ AppendUser(Owner)
          /\ work' = [work EXCEPT !.request = session'.msgs]
      BY <1>5 DEF RecordUserMessage, At, Next1, Goto
    <2>2. session'.msgs \in History
      BY DEF StoreShape
    <2>3. work' \in Works /\ work'.hand = work.hand
      BY <2>1, <2>2 DEF Works
    <2>4. QED BY <1>0, <2>1, <2>3, AppendsTyped, OwnerMoves DEF turnVars
  <1>6. CASE LoopTop
    <2>1. /\ pc[Owner] = "top" /\ UNCHANGED <<queueVars, turn, steered, appends, calls>>
          /\ \/ pc' = [pc EXCEPT ![Owner] = "finish"] /\ UNCHANGED <<work, inbox>>
             \/ pc' = [pc EXCEPT ![Owner] = "fold"] /\ Drain
      BY <1>6 DEF LoopTop, At, Next1, Goto, ghostVars
    <2>2. ASSUME Drain PROVE work' \in Works /\ inbox' = <<>>
      BY <2>2 DEF Drain, Works
    <2>3. QED BY <1>0, <2>1, <2>2, OwnerMoves
  <1>7. QED BY <1>1, <1>3, <1>4, <1>5, <1>6

LEMMA FoldControl ==
    ASSUME Shape, ControlInv, StoreShape', FoldSteer \/ FoldEnds
    PROVE  ControlShape' /\ ControlInv'
  <1> USE TypesOfParts, Labels
  <1>0. turn # NoTurn /\ Owner \in Messages /\ pc[Owner] \in {"fold", "refold"}
    BY OwnerOf DEF ControlInv, FoldSteer, FoldEnds
  <1>1. CASE FoldSteer
    <2>1. /\ work.hand # <<>> /\ UNCHANGED <<pc, queueVars, turnVars, steered, calls>>
          /\ AppendUser(Head(work.hand))
          /\ work' = [work EXCEPT !.hand = Tail(@),
                                  !.request = Append(@, User(Head(work.hand)))]
      BY <1>1 DEF FoldSteer
    <2>2. /\ Tail(work.hand) \in Seq(Inbound) /\ Head(work.hand) \in Messages
          /\ Append(work.request, User(Head(work.hand))) \in History
      BY <2>1, HandIsInbound
    <2>3. work' \in Works
      BY <2>1, <2>2 DEF Works
    <2>4. QED BY <1>0, <2>1, <2>2, <2>3, AppendsTyped, OwnerStays
  <1>2. CASE FoldEnds
    <2>1. /\ work.hand = <<>> /\ UNCHANGED <<queueVars, turnVars, work, steered, appends, calls>>
          /\ \E label \in {"finish", "calling", "top"} : pc' = [pc EXCEPT ![Owner] = label]
      BY <1>2 DEF FoldEnds, Next1, Goto, ghostVars
    <2>2. QED BY <1>0, <2>1, OwnerMoves DEF turnVars
  <1>3. QED BY <1>1, <1>2

LEMMA ModelControl ==
    ASSUME Shape, ControlInv,
           ModelFails \/ ModelAnswers \/ CloseOrContinue \/ ModelCallsTools
    PROVE  ControlShape' /\ ControlInv'
  <1> USE TypesOfParts, Labels
  <1>0. turn # NoTurn /\ Owner \in Messages /\ pc[Owner] \in {"calling", "answered"}
    BY OwnerOf DEF ControlInv, ModelFails, ModelAnswers, CloseOrContinue, ModelCallsTools
  <1>1. work.hand = <<>>
    BY <1>0 DEF ControlInv, IntakeOK
  <1>2. CASE ModelFails
    <2>1. /\ UNCHANGED <<queueVars, turnVars, work, steered, appends, calls>>
          /\ pc' = [pc EXCEPT ![Owner] = "finish"]
      BY <1>2 DEF ModelFails, Next1, Goto, ghostVars
    <2>2. QED BY <1>0, <1>1, <2>1, OwnerMoves DEF turnVars
  <1>3. CASE ModelAnswers
    <2>1. /\ UNCHANGED <<queueVars, turnVars, steered, appends, calls>>
          /\ \E label \in {"finish", "answered"} : pc' = [pc EXCEPT ![Owner] = label]
          /\ work' = [work EXCEPT !.request = Append(@, Answer)]
      BY <1>3 DEF ModelAnswers, Next1, Goto, ghostVars
    <2>2. work' \in Works /\ work'.hand = <<>>
      BY <1>1, <2>1, MessageKinds DEF Works
    <2>3. QED BY <1>0, <2>1, <2>2, OwnerMoves DEF turnVars
  <1>4. CASE CloseOrContinue
    <2>1. /\ UNCHANGED <<queueVars, steered, appends, calls>>
          /\ \/ /\ turn' = turn \/ turn' = [turn EXCEPT !.state = "finishing"]
                /\ pc' = [pc EXCEPT ![Owner] = "finish"]
                /\ UNCHANGED <<work, inbox>>
             \/ /\ work' = [work EXCEPT !.hand = inbox, !.iteration = @ + 1]
                /\ inbox' = <<>> /\ UNCHANGED turn
                /\ pc' = [pc EXCEPT ![Owner] = "refold"]
      BY <1>4 DEF CloseOrContinue, Next1, Goto, ghostVars
    <2>2. turn' \in Turns /\ turn'.owner = turn.owner
      BY <2>1 DEF Turns
    <2>3. [work EXCEPT !.hand = inbox, !.iteration = @ + 1] \in Works
      BY DEF Works
    <2>4. CASE pc' = [pc EXCEPT ![Owner] = "finish"] /\ UNCHANGED <<work, inbox>>
      BY <1>0, <1>1, <2>1, <2>2, <2>4, OwnerMoves
    <2>5. CASE /\ work' = [work EXCEPT !.hand = inbox, !.iteration = @ + 1]
               /\ inbox' = <<>> /\ pc' = [pc EXCEPT ![Owner] = "refold"]
      BY <1>0, <2>1, <2>2, <2>3, <2>5, OwnerMoves
    <2>6. QED BY <2>1, <2>4, <2>5
  <1>5. CASE ModelCallsTools
    <2>1. /\ UNCHANGED <<queueVars, turnVars, steered, appends>>
          /\ calls < MaxCalls /\ calls' = calls + 1
          /\ pc' = [pc EXCEPT ![Owner] = "called"]
          /\ work' = [work EXCEPT !.request = Append(@, ToolCalls(calls + 1))]
      BY <1>5 DEF ModelCallsTools, Next1, Goto, ghostVars
    <2>2. calls' \in 0..MaxCalls
      BY <2>1, ConversationAssumption
    <2>3. Append(work.request, ToolCalls(calls + 1)) \in History
      <3>1. calls + 1 \in Nat
        OBVIOUS
      <3>2. QED BY <3>1, MessageKinds
    <2>4. work' \in Works /\ work'.hand = <<>>
      BY <1>1, <2>1, <2>3 DEF Works
    <2>5. QED BY <1>0, <2>1, <2>2, <2>4, OwnerMoves DEF turnVars
  <1>6. QED BY <1>2, <1>3, <1>4, <1>5

LEMMA ToolsControl ==
    ASSUME Shape, ControlInv,
           RunTools \/ RecordResult \/ RecordWarning \/ RecordReminder \/ RoundEnds
    PROVE  ControlShape' /\ ControlInv'
  <1> USE TypesOfParts, Labels
  <1>0. turn # NoTurn /\ Owner \in Messages /\ pc[Owner] \in {"called", "results", "noted"}
    BY OwnerOf DEF ControlInv, RunTools, RecordResult, RecordWarning, RecordReminder, RoundEnds
  <1>1. work.hand = <<>>
    BY <1>0 DEF ControlInv, IntakeOK
  <1>2. CASE RunTools
    <2>1. /\ UNCHANGED <<queueVars, turnVars, steered, appends, calls>>
          /\ \E label \in {"finish", "results"} : pc' = [pc EXCEPT ![Owner] = label]
          /\ \/ UNCHANGED work
             \/ \E guard \in BOOLEAN : work' = [work EXCEPT !.parts = Parts, !.guard = guard]
      BY <1>2 DEF RunTools, Next1, Goto, ghostVars
    <2>2. work' \in Works /\ work'.hand = <<>>
      BY <1>1, <2>1 DEF Works
    <2>3. QED BY <1>0, <2>1, <2>2, OwnerMoves DEF turnVars
  <1>3. CASE RecordResult
    <2> DEFINE part == CHOOSE p \in work.parts : \A q \in work.parts : p <= q
    <2>1. part \in Parts
      BY <1>3, SmallestPart DEF RecordResult
    <2>2. /\ UNCHANGED <<pc, queueVars, turnVars, steered, appends, calls>>
          /\ work' = [work EXCEPT !.parts = @ \ {part},
                                  !.request = Append(@, ToolResult(calls, part))]
      BY <1>3 DEF RecordResult, ghostVars
    <2> HIDE DEF part
    <2>3. work' \in Works /\ work'.hand = <<>>
      BY <1>1, <2>1, <2>2, MessageKinds DEF Works
    <2>4. QED BY <1>0, <2>2, <2>3, OwnerStays
  <1>4. CASE RecordWarning
    <2>1. /\ UNCHANGED <<queueVars, turnVars, steered, appends, calls>>
          /\ pc' = [pc EXCEPT ![Owner] = "top"]
          /\ work' = [work EXCEPT !.request = Append(@, Note), !.guard = FALSE,
                                  !.noTools = TRUE, !.iteration = @ + 1]
      BY <1>4 DEF RecordWarning, Next1, Goto, ghostVars
    <2>2. work' \in Works /\ work'.hand = <<>>
      BY <1>1, <2>1, MessageKinds DEF Works
    <2>3. QED BY <1>0, <2>1, <2>2, OwnerMoves DEF turnVars
  <1>5. CASE RecordReminder
    <2>1. /\ UNCHANGED <<queueVars, turnVars, steered, appends, calls>>
          /\ pc' = [pc EXCEPT ![Owner] = "noted"]
          /\ work' = [work EXCEPT !.request = Append(@, Note)]
      BY <1>5 DEF RecordReminder, Next1, Goto, ghostVars
    <2>2. work' \in Works /\ work'.hand = <<>>
      BY <1>1, <2>1, MessageKinds DEF Works
    <2>3. QED BY <1>0, <2>1, <2>2, OwnerMoves DEF turnVars
  <1>6. CASE RoundEnds
    <2>1. /\ UNCHANGED <<queueVars, turn, steered, appends, calls>>
          /\ work' = [work EXCEPT !.hand = inbox, !.iteration = @ + 1]
          /\ inbox' = <<>>
          /\ pc' = [pc EXCEPT ![Owner] = "refold"]
      BY <1>6 DEF RoundEnds, Next1, Goto, ghostVars
    <2>2. work' \in Works
      BY <2>1 DEF Works
    <2>3. QED BY <1>0, <2>1, <2>2, OwnerMoves
  <1>7. QED BY <1>2, <1>3, <1>4, <1>5, <1>6

LEMMA FinishControl ==
    ASSUME Shape, ControlInv,
           \/ FinishTurn \/ LoadForLeftover \/ InstallForLeftover \/ PadBegins \/ PadOrphan
           \/ SaveLeftover \/ LeftoverSaved
    PROVE  ControlShape' /\ ControlInv'
  <1> USE TypesOfParts, Labels
  <1>0. turn # NoTurn /\ Owner \in Messages
    BY OwnerOf DEF ControlInv, FinishTurn, LoadForLeftover, InstallForLeftover, PadBegins,
       PadOrphan, SaveLeftover, LeftoverSaved
  <1>1. CASE FinishTurn
    <2>1. /\ UNCHANGED <<queueVars, steered, appends, calls>>
          /\ pc[Owner] = "finish"
          /\ turn' = [turn EXCEPT !.state = IF TurnState = "stopping" THEN TurnState
                                            ELSE "finishing"]
          /\ work' = [work EXCEPT !.hand = inbox] /\ inbox' = <<>>
          /\ \/ pc' = [pc EXCEPT ![Owner] = "pad"]
             \/ pc' = [pc EXCEPT ![Owner] = "getLeftover"]
             \/ pc' = [pc EXCEPT ![Owner] = "release"] /\ inbox = <<>>
      BY <1>1 DEF FinishTurn, Drain, At, Next1, Goto, ghostVars
    <2>2. turn' \in Turns /\ turn'.owner = turn.owner /\ turn'.state \in {"finishing", "stopping"}
      BY <2>1 DEF Turns
    <2>3. work' \in Works /\ work'.hand = inbox
      BY <2>1 DEF Works
    <2>4. QED BY <1>0, <2>1, <2>2, <2>3, OwnerMoves
  <1>2. ASSUME pc[Owner] \in Closing
        PROVE  /\ inbox = <<>> /\ turn.state \in {"finishing", "stopping"}
               /\ turn \in Turns /\ work \in Works
    BY <1>0, <1>2 DEF ControlInv, IntakeOK
  <1>3. CASE LoadForLeftover \/ InstallForLeftover
    <2>1. /\ UNCHANGED <<queueVars, turn, inbox, work, steered, appends, calls>>
          /\ pc[Owner] \in Closing
          /\ \/ pc' = [pc EXCEPT ![Owner] = "installLeftover"]
             \/ pc' = [pc EXCEPT ![Owner] = "pad"]
      BY <1>3 DEF LoadForLeftover, InstallForLeftover, GetLoads, GetInstalls, At, Goto,
         ghostVars, turnVars
    <2>2. QED BY <1>0, <1>2, <2>1, OwnerMoves
  <1>4. CASE PadBegins
    <2>1. /\ UNCHANGED <<queueVars, turn, inbox, steered, appends, calls>>
          /\ pc[Owner] = "pad" /\ pc' = [pc EXCEPT ![Owner] = "leftover"]
          /\ work' = [work EXCEPT !.parts = Unanswered(session.msgs),
                                  !.orphan = LatestCall(session.msgs)]
      BY <1>4 DEF PadBegins, At, Next1, Goto, ghostVars, turnVars
    <2>2. Unanswered(session.msgs) \subseteq Parts /\ LatestCall(session.msgs) \in Nat
      BY PadIsTyped
    <2>3. work' \in Works
      BY <2>1, <2>2 DEF Works
    <2>4. QED BY <1>0, <1>2, <2>1, <2>3, OwnerMoves
  <1>5. CASE PadOrphan
    <2>1. /\ UNCHANGED <<pc, queueVars, turnVars, steered, appends, calls>>
          /\ work' = [work EXCEPT !.parts = @ \ {Min(work.parts)}]
      BY <1>5 DEF PadOrphan, ghostVars
    <2>2. work' \in Works /\ work'.hand = work.hand
      BY <2>1 DEF Works
    <2>3. QED BY <1>0, <2>1, <2>2, OwnerStays
  <1>6. CASE SaveLeftover
    <2>1. /\ work.hand # <<>> /\ UNCHANGED <<pc, queueVars, turnVars, steered, calls>>
          /\ AppendUser(Head(work.hand))
          /\ work' = [work EXCEPT !.hand = Tail(@)]
      BY <1>6 DEF SaveLeftover
    <2>2. Tail(work.hand) \in Seq(Inbound) /\ Head(work.hand) \in Messages
      BY <2>1, HandIsInbound
    <2>3. work' \in Works
      BY <2>1, <2>2 DEF Works
    <2>4. QED BY <1>0, <2>1, <2>2, <2>3, AppendsTyped, OwnerStays
  <1>7. CASE LeftoverSaved
    <2>1. /\ UNCHANGED <<queueVars, turn, inbox, work, steered, appends, calls>>
          /\ pc[Owner] = "leftover" /\ pc' = [pc EXCEPT ![Owner] = "release"]
          /\ work.hand = <<>>
      BY <1>7 DEF LeftoverSaved, At, Next1, Goto, ghostVars, turnVars
    <2>2. QED BY <1>0, <1>2, <2>1, OwnerMoves
  <1>8. QED BY <1>1, <1>3, <1>4, <1>5, <1>6, <1>7

QueueInv(pcs, queue) ==
    \A i, j \in 1..Len(queue) :
        pcs[queue[i]] = "queued" /\ (queue[i] = queue[j] => i = j)

\* A message that is not in a turn goes on outside the turn.
LEMMA OutsiderMoves ==
    ASSUME Shape, ControlInv, NEW m \in Inbound, NEW label \in PCs \ TurnPCs,
           pc[m] \notin TurnPCs, pc' = [pc EXCEPT ![m] = label],
           UNCHANGED <<turn, work>>, QueueInv(pc', chatQueue'),
           \/ inbox' = inbox
           \/ turn # NoTurn /\ pc[Owner] \notin Closing
    PROVE  ControlInv' /\ pc' \in [Messages -> PCs]
  <1>1. /\ m \in Messages /\ pc \in [Messages -> PCs] /\ pc'[m] = label
        /\ \A n \in Messages : n # m => pc'[n] = pc[n]
        /\ pc' \in [Messages -> PCs]
    BY DEF Messages, Shape, ControlShape
  <1>2. turn # NoTurn => Owner # m /\ Owner \in Messages /\ Owner' = Owner
    BY DEF ControlInv, SlotInv, Owner, Messages
  <1>3. SlotInv'
    <2>1. IF turn = NoTurn THEN inbox' = <<>> /\ work = NoWork
                           ELSE turn.owner \in Inbound /\ pc'[turn.owner] \in TurnPCs
      BY <1>1, <1>2 DEF ControlInv, SlotInv, Owner
    <2>2. \A n \in Inbound : pc'[n] \in TurnPCs => turn # NoTurn /\ n = turn.owner
      BY <1>1 DEF ControlInv, SlotInv, Messages
    <2>3. \A g \in Injected : pc'[g] \in {"new", "install", "record"} \cup Gone
      BY <1>1, ConversationAssumption DEF ControlInv, SlotInv, Messages
    <2>4. QED BY <2>1, <2>2, <2>3 DEF SlotInv, QueueInv
  <1>4. IntakeOK'
    BY <1>1, <1>2 DEF ControlInv, IntakeOK
  <1>5. QED BY <1>1, <1>3, <1>4 DEF ControlInv

LEMMA QueueOf ==
    ASSUME Shape, ControlInv
    PROVE  /\ chatQueue \in Seq(Inbound) /\ Len(chatQueue) \in Nat
           /\ \A i \in 1..Len(chatQueue) :
                 chatQueue[i] \in Inbound /\ chatQueue[i] \in Messages
           /\ QueueInv(pc, chatQueue)
  <1>1. chatQueue \in Seq(Inbound)
    BY DEF Shape, ControlShape
  <1>2. QED BY <1>1, LenProperties, ElementOfSeq DEF Messages, ControlInv, SlotInv, QueueInv

LEMMA RouteControl ==
    ASSUME Shape, ControlInv, NEW m \in Inbound, Route(m)
    PROVE  ControlShape' /\ ControlInv'
  <1>1. /\ pc[m] = "new" /\ m \in Messages
        /\ UNCHANGED <<turn, work, appends, calls>>
    BY DEF Route, Messages
  <1>2. "new" \notin TurnPCs /\ "steered" \in PCs \ TurnPCs /\ "queued" \in PCs \ TurnPCs
    BY Labels DEF PCs
  <1>3. \A i \in 1..Len(chatQueue) : chatQueue[i] # m
    BY <1>1, QueueOf DEF QueueInv
  <1>4. pc \in [Messages -> PCs]
    BY DEF Shape, ControlShape
  <1>5. CASE AcceptsSteer
    <2>1. /\ inbox' = Append(inbox, m) /\ steered' = steered \cup {m}
          /\ pc' = [pc EXCEPT ![m] = "steered"] /\ UNCHANGED <<chatQueue, serving>>
      BY <1>5 DEF Route, Goto
    <2>2. turn # NoTurn /\ pc[Owner] \notin Closing
      <3>1. turn # NoTurn
        BY <1>5 DEF AcceptsSteer, TurnState, NoTurn
      <3>2. turn.state \notin {"finishing", "stopping"}
        BY <1>5 DEF AcceptsSteer, TurnState
      <3>3. QED BY <3>1, <3>2 DEF ControlInv, IntakeOK
    <2>3. QueueInv(pc', chatQueue')
      BY <1>3, <1>4, <2>1, QueueOf DEF QueueInv
    <2>4. ControlInv' /\ pc' \in [Messages -> PCs]
      BY <1>1, <1>2, <2>1, <2>2, <2>3, OutsiderMoves
    <2>5. inbox' \in Seq(Inbound) /\ steered' \in SUBSET Inbound
      BY <2>1, RangeOfAppend DEF Shape, ControlShape
    <2>6. QED BY <1>1, <2>1, <2>4, <2>5 DEF Shape, ControlShape
  <1>6. CASE ~AcceptsSteer
    <2>1. /\ chatQueue' = Append(chatQueue, m)
          /\ pc' = [pc EXCEPT ![m] = "queued"] /\ UNCHANGED <<inbox, serving, steered>>
      BY <1>6 DEF Route, Goto
    <2>2. /\ chatQueue' \in Seq(Inbound) /\ Len(chatQueue') = Len(chatQueue) + 1
          /\ \A i \in 1..Len(chatQueue) : chatQueue'[i] = chatQueue[i]
          /\ chatQueue'[Len(chatQueue) + 1] = m
      BY <2>1, QueueOf, AppendProperties
    <2>3. QueueInv(pc', chatQueue')
      <3>1. pc'[m] = "queued" /\ \A n \in Messages : n # m => pc'[n] = pc[n]
        BY <1>1, <1>4, <2>1
      <3>2. \A i \in 1..Len(chatQueue') : pc'[chatQueue'[i]] = "queued"
        BY <1>3, <2>2, <3>1, QueueOf DEF QueueInv
      <3>3. \A i, j \in 1..Len(chatQueue') : chatQueue'[i] = chatQueue'[j] => i = j
        BY <1>3, <2>2, QueueOf DEF QueueInv
      <3>4. QED BY <3>2, <3>3 DEF QueueInv
    <2>4. ControlInv' /\ pc' \in [Messages -> PCs]
      BY <1>1, <1>2, <2>1, <2>3, OutsiderMoves
    <2>5. QED BY <1>1, <2>1, <2>2, <2>4 DEF Shape, ControlShape
  <1>7. QED BY <1>5, <1>6

LEMMA TakeControl ==
    ASSUME Shape, ControlInv, NEW m \in Inbound, ReserveWebTurn(m) \/ AcquireTurn(m)
    PROVE  ControlShape' /\ ControlInv'
  <1>1. /\ pc[m] \in {"new", "waiting"} /\ m \in Messages
        /\ turn = NoTurn
        /\ turn' = [owner |-> m, state |-> "starting", cancelled |-> FALSE, bound |-> FALSE]
        /\ inbox' = <<>> /\ work' = NoWork
        /\ pc' = [pc EXCEPT ![m] = "started"]
        /\ UNCHANGED <<chatQueue, serving, steered, appends, calls>>
    BY DEF ReserveWebTurn, AcquireTurn, TakeTurn, Goto, Messages, queueVars, ghostVars
  <1>2. /\ pc \in [Messages -> PCs] /\ pc'[m] = "started" /\ "started" \in PCs
        /\ \A n \in Messages : n # m => pc'[n] = pc[n]
    BY <1>1, Labels DEF Shape, ControlShape, PCs
  <1>3. turn' \in Turns /\ turn' # NoTurn /\ turn'.owner = m
    BY <1>1, ConversationAssumption DEF Turns, NoTurn
  <1>4. ControlShape'
    BY <1>1, <1>2, <1>3, TypesOfParts DEF Shape, ControlShape
  <1>5. SlotInv'
    <2>1. \A i \in 1..Len(chatQueue) : chatQueue[i] # m
      BY <1>1, QueueOf DEF QueueInv
    <2>2. QueueInv(pc', chatQueue')
      BY <1>1, <1>2, <2>1, QueueOf DEF QueueInv
    <2>3. \A n \in Inbound : pc'[n] \in TurnPCs => n = m
      BY <1>1, <1>2 DEF ControlInv, SlotInv, Messages
    <2>4. \A g \in Injected : pc'[g] \in {"new", "install", "record"} \cup Gone
      BY <1>1, <1>2, ConversationAssumption DEF ControlInv, SlotInv, Messages
    <2>5. QED BY <1>2, <1>3, <2>2, <2>3, <2>4, Labels DEF SlotInv, QueueInv
  <1>6. IntakeOK'
    BY <1>1, <1>2, <1>3, Labels DEF IntakeOK, Owner, NoWork
  <1>7. QED BY <1>4, <1>5, <1>6 DEF ControlInv

LEMMA QueueControl ==
    ASSUME Shape, ControlInv,
           \/ \E m \in Inbound : WaitTimesOut(m)
           \/ ExecuteTask \/ CleanupIdleQueue
    PROVE  ControlShape' /\ ControlInv'
  <1>0. pc \in [Messages -> PCs] /\ serving \in Inbound \cup {NoMessage}
    BY DEF Shape, ControlShape
  <1>1. ASSUME NEW m \in Inbound, WaitTimesOut(m)
        PROVE  ControlShape' /\ ControlInv'
    <2>1. /\ pc[m] = "waiting" /\ pc' = [pc EXCEPT ![m] = "ended"]
          /\ serving' \in {serving, NoMessage}
          /\ UNCHANGED <<chatQueue, turn, inbox, work, steered, appends, calls>>
      BY <1>1 DEF WaitTimesOut, Goto, TaskEnds, turnVars, ghostVars
    <2>2. QueueInv(pc', chatQueue')
      BY <1>0, <2>1, QueueOf DEF QueueInv
    <2>3. "waiting" \notin TurnPCs /\ "ended" \in PCs \ TurnPCs
      BY Labels DEF PCs, Gone
    <2>4. ControlInv' /\ pc' \in [Messages -> PCs]
      BY <2>1, <2>2, <2>3, OutsiderMoves
    <2>5. QED BY <1>0, <2>1, <2>4 DEF Shape, ControlShape
  <1>2. CASE ExecuteTask
    <2> DEFINE m == Head(chatQueue)
    <2>1. /\ chatQueue # <<>> /\ serving' = m /\ chatQueue' = Tail(chatQueue)
          /\ pc' = [pc EXCEPT ![m] = "waiting"]
          /\ UNCHANGED <<turn, inbox, work, steered, appends, calls>>
      BY <1>2 DEF ExecuteTask, Goto, turnVars, ghostVars
    <2>2. /\ Len(chatQueue) \in Nat \ {0} /\ m = chatQueue[1] /\ m \in Inbound
          /\ Tail(chatQueue) \in Seq(Inbound) /\ Len(Tail(chatQueue)) = Len(chatQueue) - 1
          /\ \A i \in 1..Len(Tail(chatQueue)) : Tail(chatQueue)[i] = chatQueue[i + 1]
      BY <2>1, QueueOf, EmptySeq, HeadTailProperties
    <2> HIDE DEF m
    <2>3. pc[m] = "queued"
      BY <2>2, QueueOf DEF QueueInv
    <2>4. \A i \in 1..Len(Tail(chatQueue)) : chatQueue[i + 1] # m
      BY <2>2, QueueOf DEF QueueInv
    <2>5. QueueInv(pc', chatQueue')
      <3>1. \A n \in Messages : n # m => pc'[n] = pc[n]
        BY <1>0, <2>1
      <3>2. \A i \in 1..Len(Tail(chatQueue)) : i + 1 \in 1..Len(chatQueue)
        BY <2>2
      <3>3. \A i \in 1..Len(chatQueue') : pc'[chatQueue'[i]] = "queued"
        BY <2>1, <2>2, <2>4, <3>1, <3>2, QueueOf DEF QueueInv
      <3>4. \A i, j \in 1..Len(chatQueue') : chatQueue'[i] = chatQueue'[j] => i = j
        BY <2>1, <2>2, <3>2, QueueOf DEF QueueInv
      <3>5. QED BY <3>3, <3>4 DEF QueueInv
    <2>6. "queued" \notin TurnPCs /\ "waiting" \in PCs \ TurnPCs
      BY Labels DEF PCs
    <2>7. ControlInv' /\ pc' \in [Messages -> PCs]
      BY <2>1, <2>2, <2>3, <2>5, <2>6, OutsiderMoves
    <2>8. QED BY <2>1, <2>2, <2>7 DEF Shape, ControlShape
  <1>3. CASE CleanupIdleQueue
    <2>1. /\ serving' = NoMessage
          /\ UNCHANGED <<pc, chatQueue, turn, inbox, work, steered, appends, calls>>
      BY <1>3 DEF CleanupIdleQueue, turnVars, ghostVars
    <2>2. ControlShape'
      BY <2>1 DEF Shape, ControlShape
    <2>3. ControlInv'
      BY <2>1 DEF ControlInv, SlotInv, IntakeOK, Owner
    <2>4. QED BY <2>2, <2>3
  <1>4. QED BY <1>1, <1>2, <1>3

LEMMA ReleaseControl ==
    ASSUME Shape, ControlInv, ReleaseTurn
    PROVE  ControlShape' /\ ControlInv'
  <1>1. /\ turn # NoTurn /\ Owner \in Inbound /\ Owner \in Messages /\ pc[Owner] = "release"
    BY OwnerOf DEF ReleaseTurn, ControlInv
  <1>2. /\ turn' = NoTurn /\ inbox' = <<>> /\ work' = NoWork
        /\ pc' = [pc EXCEPT ![Owner] = "ended"] /\ serving' \in {serving, NoMessage}
        /\ UNCHANGED <<chatQueue, steered, appends, calls>>
    BY DEF ReleaseTurn, Next1, Goto, TaskEnds, ghostVars
  <1>3. /\ pc \in [Messages -> PCs] /\ pc'[Owner] = "ended" /\ "ended" \in PCs
        /\ "ended" \notin TurnPCs /\ "ended" \in Gone
        /\ \A n \in Messages : n # Owner => pc'[n] = pc[n]
    BY <1>1, <1>2, Labels DEF Shape, ControlShape, PCs, Gone
  <1>4. ControlShape'
    BY <1>2, <1>3, TypesOfParts DEF Shape, ControlShape
  <1>5. SlotInv'
    <2>1. \A i \in 1..Len(chatQueue) : chatQueue[i] # Owner
      BY <1>1, QueueOf DEF QueueInv
    <2>2. QueueInv(pc', chatQueue')
      BY <1>2, <1>3, <2>1, QueueOf DEF QueueInv
    <2>3. \A n \in Inbound : pc'[n] \notin TurnPCs
      BY <1>3 DEF ControlInv, SlotInv, Messages, Owner
    <2>4. \A g \in Injected : pc'[g] \in {"new", "install", "record"} \cup Gone
      BY <1>1, <1>3, ConversationAssumption DEF ControlInv, SlotInv, Messages
    <2>5. QED BY <1>2, <2>2, <2>3, <2>4 DEF SlotInv, QueueInv
  <1>6. QED BY <1>2, <1>4, <1>5 DEF ControlInv, IntakeOK

LEMMA OthersControl ==
    ASSUME Shape, ControlInv,
           \/ \E g \in Injected : InjectGroupMessage(g) \/ WebChatHistory(g)
           \/ StopTurn \/ ReplicaAppends
    PROVE  ControlShape' /\ ControlInv'
  <1>0. pc \in [Messages -> PCs] /\ turn \in Turns /\ appends \in [Inbound -> Nat]
    BY DEF Shape, ControlShape
  <1>1. ASSUME NEW g \in Injected, InjectGroupMessage(g) \/ WebChatHistory(g)
        PROVE  ControlShape' /\ ControlInv'
    <2>1. /\ g \in Messages /\ g \notin Inbound
          /\ \E label \in {"install", "record", "ended"} : pc' = [pc EXCEPT ![g] = label]
          /\ UNCHANGED <<chatQueue, serving, turn, inbox, work, steered, calls>>
      BY <1>1, ConversationAssumption
      DEF InjectGroupMessage, GetLoads, GetInstalls, WebChatHistory, Goto, queueVars, turnVars,
          ghostVars, Messages
    <2>2. appends' = appends
      BY <1>1, <2>1 DEF InjectGroupMessage, AppendUser, WebChatHistory, ghostVars
    <2>3. /\ pc' \in [Messages -> PCs] /\ \A n \in Inbound : pc'[n] = pc[n]
          /\ \A h \in Injected : pc'[h] \in {"new", "install", "record"} \cup Gone
      BY <1>0, <2>1, Labels DEF PCs, Gone, Messages, ControlInv, SlotInv
    <2>4. ControlShape'
      BY <2>1, <2>2, <2>3 DEF Shape, ControlShape
    <2>5. QueueInv(pc', chatQueue')
      BY <2>1, <2>3, QueueOf DEF QueueInv
    <2>6. SlotInv' /\ IntakeOK'
      BY <2>1, <2>3, <2>5 DEF ControlInv, SlotInv, IntakeOK, QueueInv, Owner
    <2>7. QED BY <2>4, <2>6 DEF ControlInv
  <1>2. CASE StopTurn
    <2>1. /\ turn # NoTurn /\ UNCHANGED <<pc, chatQueue, serving, inbox, work, steered, appends, calls>>
          /\ \E state \in {turn.state, "stopping"} :
                turn' = [turn EXCEPT !.cancelled = TRUE, !.state = state]
      BY <1>2 DEF StopTurn, queueVars, ghostVars
    <2>2. /\ turn' \in Turns /\ turn'.owner = turn.owner /\ turn' # NoTurn
          /\ turn'.state \in {turn.state, "stopping"}
      <3>1. turn.owner \in Inbound
        BY <2>1 DEF ControlInv, SlotInv
      <3>2. PICK state \in {turn.state, "stopping"} :
               turn' = [turn EXCEPT !.cancelled = TRUE, !.state = state]
        BY <2>1
      <3>3. /\ turn' \in Turns /\ turn'.owner = turn.owner
            /\ turn'.state \in {turn.state, "stopping"}
        BY <1>0, <3>2 DEF Turns
      <3>4. NoTurn.owner = NoMessage /\ NoMessage # turn.owner
        BY <3>1, ConversationAssumption DEF NoTurn
      <3>5. QED BY <3>3, <3>4
    <2>3. ControlShape'
      BY <2>1, <2>2 DEF Shape, ControlShape
    <2>4. SlotInv'
      BY <2>1, <2>2 DEF ControlInv, SlotInv
    <2>5. IntakeOK'
      BY <2>1, <2>2 DEF ControlInv, IntakeOK, Owner
    <2>6. QED BY <2>3, <2>4, <2>5 DEF ControlInv
  <1>3. CASE ReplicaAppends
    <2>1. UNCHANGED <<pc, chatQueue, serving, turn, inbox, work, steered, appends, calls>>
      BY <1>3 DEF ReplicaAppends, queueVars, turnVars, ghostVars
    <2>2. QED BY <2>1 DEF Shape, ControlShape, ControlInv, SlotInv, IntakeOK, Owner
  <1>4. QED BY <1>1, <1>2, <1>3

LEMMA RestartControl ==
    ASSUME Shape, ControlInv, Restart
    PROVE  ControlShape' /\ ControlInv'
  <1>1. /\ pc' = [m \in Messages |-> IF Alive(m) THEN "lost" ELSE pc[m]]
        /\ chatQueue' = <<>> /\ serving' = NoMessage /\ turn' = NoTurn /\ inbox' = <<>>
        /\ work' = NoWork /\ steered' \in SUBSET steered /\ UNCHANGED <<appends, calls>>
    BY DEF Restart
  <1>2. /\ "lost" \in PCs /\ "lost" \in Gone
        /\ \A m \in Messages : ~Alive(m) => pc[m] \in Gone \cup {"new"}
    BY DEF PCs, Gone, Alive
  <1>3. pc \in [Messages -> PCs]
    BY DEF Shape, ControlShape
  <1>4. \A m \in Messages : pc'[m] \in PCs /\ pc'[m] \in Gone \cup {"new"}
    BY <1>1, <1>2, <1>3
  <1>5. ControlShape'
    BY <1>1, <1>4, TypesOfParts DEF Shape, ControlShape
  <1>6. SlotInv'
    <2>1. "lost" \notin TurnPCs /\ (Gone \cup {"new"}) \cap TurnPCs = {}
      BY Labels DEF Gone
    <2>2. 1..Len(chatQueue)' = {}
      BY <1>1, EmptySeq
    <2>3. QueueInv(pc', chatQueue')
      BY <2>2 DEF QueueInv
    <2>4. \A m \in Inbound : pc'[m] \notin TurnPCs
      BY <1>4, <2>1 DEF Messages
    <2>5. \A g \in Injected : pc'[g] \in {"new", "install", "record"} \cup Gone
      BY <1>4 DEF Messages
    <2>6. QED BY <1>1, <2>3, <2>4, <2>5 DEF SlotInv, QueueInv
  <1>7. QED BY <1>1, <1>5, <1>6 DEF ControlInv, IntakeOK

LEMMA ControlStep ==
    ASSUME Shape, ControlInv, StoreInv, ConversationNext
    PROVE  ControlShape' /\ ControlInv'
  <1>1. StoreShape'
    BY StoreStep DEF ControlInv
  <1>2. QED
    BY <1>1, RouteControl, TakeControl, QueueControl, StartControl, FoldControl, ModelControl,
       ToolsControl, FinishControl, ReleaseControl, OthersControl, RestartControl
    DEF ConversationNext, TurnStep

(***************************************************************************)
(* Messages accepted as steering.                                           *)
(***************************************************************************)
\* No message becomes new, and none that was accepted or has ended goes on.
Settled ==
    \A m \in Messages : /\ pc[m] = "steered" => pc'[m] = "steered"
                        /\ pc[m] = "ended" => pc'[m] = "ended"
                        /\ pc'[m] = "new" => pc[m] = "new"

KeepsSteer ==
    Settled /\ inbox' = inbox /\ work'.hand = work.hand /\ UNCHANGED <<steered, appends>>

DrainsInbox ==
    /\ Settled /\ work.hand = <<>> /\ work'.hand = inbox /\ inbox' = <<>>
    /\ UNCHANGED <<steered, appends>>

UsesSteer ==
    /\ Settled /\ work.hand # <<>> /\ work'.hand = Tail(work.hand)
    /\ appends' = [appends EXCEPT ![Head(work.hand)] = @ + 1]
    /\ UNCHANGED <<steered, inbox>>

RecordsOwn ==
    \E m \in Inbound :
        /\ Settled /\ pc[m] = "record" /\ pc'[m] # "new"
        /\ appends' = [appends EXCEPT ![m] = @ + 1]
        /\ inbox' = inbox /\ work'.hand = work.hand /\ UNCHANGED steered

LEMMA MoveSettles ==
    ASSUME Shape, NEW m \in Messages, NEW label, pc' = [pc EXCEPT ![m] = label],
           pc[m] \notin {"steered", "ended"}, label # "new"
    PROVE  Settled
  BY DEF Settled, Shape, ControlShape

LEMMA StaySettles ==
    ASSUME UNCHANGED pc
    PROVE  Settled
  BY DEF Settled

LEMMA TurnSteers ==
    ASSUME Shape, ControlInv, TurnStep, ~FoldSteer, ~SaveLeftover, ~RecordUserMessage
    PROVE  KeepsSteer \/ DrainsInbox
  <1> USE TypesOfParts
  <1>0. turn # NoTurn /\ Owner \in Messages /\ pc[Owner] \in TurnPCs
    <2>1. turn # NoTurn
      BY DEF TurnStep, StartTurn, LoadSession, InstallSession, RecordUserMessage, LoopTop, FoldSteer,
         FoldEnds, ModelFails, ModelAnswers, CloseOrContinue, ModelCallsTools, RunTools,
         RecordResult, RecordWarning, RecordReminder, RoundEnds, FinishTurn, LoadForLeftover,
         InstallForLeftover, PadBegins, PadOrphan, SaveLeftover, LeftoverSaved, ReleaseTurn, At
    <2>2. QED BY <2>1 DEF ControlInv, SlotInv, Owner, Messages
  <1>1. pc[Owner] \notin {"steered", "ended"}
    BY <1>0, Labels
  <1>2. \A label : label # "new" /\ Goto(Owner, label) => Settled
    BY <1>0, <1>1, MoveSettles DEF Goto
  <1>3. pc[Owner] \notin Folding => work.hand = <<>>
    BY <1>0 DEF ControlInv, IntakeOK
  <1>4. CASE StartTurn \/ LoadSession \/ InstallSession \/ ModelFails \/ RunTools
             \/ LoadForLeftover \/ InstallForLeftover \/ PadBegins \/ LeftoverSaved \/ FoldEnds
    <2>1. \E label : label # "new" /\ Goto(Owner, label)
      BY <1>4 DEF StartTurn, LoadSession, InstallSession, ModelFails, RunTools, LoadForLeftover,
         InstallForLeftover, PadBegins, LeftoverSaved, FoldEnds, Next1, GetLoads, GetInstalls
    <2>2. work' \in {work} \cup {[work EXCEPT !.plan = b] : b \in BOOLEAN}
                    \cup {[work EXCEPT !.parts = Parts, !.guard = b] : b \in BOOLEAN}
                    \cup {[work EXCEPT !.parts = Unanswered(session.msgs),
                                       !.orphan = LatestCall(session.msgs)]}
      BY <1>4 DEF StartTurn, LoadSession, InstallSession, ModelFails, RunTools, LoadForLeftover,
         InstallForLeftover, PadBegins, LeftoverSaved, FoldEnds
    <2>3. work'.hand = work.hand
      BY <2>2 DEF Works
    <2>4. UNCHANGED <<inbox, steered, appends>>
      BY <1>4 DEF StartTurn, LoadSession, InstallSession, ModelFails, RunTools, LoadForLeftover,
         InstallForLeftover, PadBegins, LeftoverSaved, FoldEnds, turnVars, ghostVars
    <2>5. QED BY <1>2, <2>1, <2>3, <2>4 DEF KeepsSteer
  <1>5. CASE ModelAnswers \/ ModelCallsTools \/ RecordWarning \/ RecordReminder
    <2>1. \E label : label # "new" /\ Goto(Owner, label)
      BY <1>5 DEF ModelAnswers, ModelCallsTools, RecordWarning, RecordReminder, Next1
    <2>2. \E x : \/ work' = [work EXCEPT !.request = Append(@, x)]
                 \/ work' = [work EXCEPT !.request = Append(@, x), !.guard = FALSE,
                                         !.noTools = TRUE, !.iteration = @ + 1]
      BY <1>5 DEF ModelAnswers, ModelCallsTools, RecordWarning, RecordReminder
    <2>3. work'.hand = work.hand
      BY <2>2 DEF Works
    <2>4. UNCHANGED <<inbox, steered, appends>>
      BY <1>5 DEF ModelAnswers, ModelCallsTools, RecordWarning, RecordReminder, turnVars, ghostVars
    <2>5. QED BY <1>2, <2>1, <2>3, <2>4 DEF KeepsSteer
  <1>6. CASE RecordResult \/ PadOrphan
    <2>1. UNCHANGED <<pc, inbox, steered, appends>>
      BY <1>6 DEF RecordResult, PadOrphan, turnVars, ghostVars
    <2>2. work'.hand = work.hand
      BY <1>6 DEF RecordResult, PadOrphan, Works
    <2>3. QED BY <2>1, <2>2, StaySettles DEF KeepsSteer
  <1>7. CASE LoopTop
    <2>1. pc[Owner] = "top"
      BY <1>7 DEF LoopTop, At
    <2>2. \/ Goto(Owner, "finish") /\ UNCHANGED <<work, inbox>>
          \/ Goto(Owner, "fold") /\ work'.hand = inbox /\ inbox' = <<>>
      BY <1>7 DEF LoopTop, Next1, Drain, Works
    <2>3. work.hand = <<>> /\ UNCHANGED <<steered, appends>>
      BY <1>3, <1>7, <2>1, Labels DEF LoopTop, ghostVars
    <2>4. QED BY <1>2, <2>2, <2>3 DEF KeepsSteer, DrainsInbox
  <1>8. CASE CloseOrContinue
    <2>1. pc[Owner] = "answered"
      BY <1>8 DEF CloseOrContinue, At
    <2>2. \/ Goto(Owner, "finish") /\ UNCHANGED <<work, inbox>>
          \/ Goto(Owner, "refold") /\ work'.hand = inbox /\ inbox' = <<>>
      BY <1>8 DEF CloseOrContinue, Next1, Works
    <2>3. work.hand = <<>> /\ UNCHANGED <<steered, appends>>
      BY <1>3, <1>8, <2>1, Labels DEF CloseOrContinue, ghostVars
    <2>4. QED BY <1>2, <2>2, <2>3 DEF KeepsSteer, DrainsInbox
  <1>9. CASE RoundEnds
    <2>1. pc[Owner] \in {"noted", "results"}
      BY <1>9 DEF RoundEnds, At
    <2>2. Goto(Owner, "refold") /\ work'.hand = inbox /\ inbox' = <<>>
      BY <1>9 DEF RoundEnds, Next1, Works
    <2>3. work.hand = <<>> /\ UNCHANGED <<steered, appends>>
      BY <1>3, <1>9, <2>1, Labels DEF RoundEnds, ghostVars
    <2>4. QED BY <1>2, <2>2, <2>3 DEF DrainsInbox
  <1>10. CASE FinishTurn
    <2>1. pc[Owner] = "finish"
      BY <1>10 DEF FinishTurn, At
    <2>2. /\ work'.hand = inbox /\ inbox' = <<>>
          /\ \E label : label # "new" /\ Goto(Owner, label)
      BY <1>10 DEF FinishTurn, Drain, Next1, Works
    <2>3. work.hand = <<>> /\ UNCHANGED <<steered, appends>>
      BY <1>3, <1>10, <2>1, Labels DEF FinishTurn, ghostVars
    <2>4. QED BY <1>2, <2>2, <2>3 DEF DrainsInbox
  <1>11. CASE ReleaseTurn
    <2>1. pc[Owner] = "release"
      BY <1>11 DEF ReleaseTurn, At
    <2>2. /\ Goto(Owner, "ended") /\ inbox' = <<>> /\ work'.hand = <<>>
          /\ UNCHANGED <<steered, appends>>
      BY <1>11 DEF ReleaseTurn, Next1, NoWork, ghostVars
    <2>3. work.hand = <<>> /\ inbox = <<>>
      BY <1>0, <1>3, <2>1, Labels DEF ControlInv, IntakeOK
    <2>4. QED BY <1>2, <2>2, <2>3 DEF KeepsSteer
  <1>12. QED BY <1>4, <1>5, <1>6, <1>7, <1>8, <1>9, <1>10, <1>11 DEF TurnStep

LEMMA OthersSteer ==
    ASSUME Shape, ControlInv,
           \/ \E m \in Inbound : ReserveWebTurn(m) \/ AcquireTurn(m) \/ WaitTimesOut(m)
           \/ ExecuteTask \/ CleanupIdleQueue
           \/ \E g \in Injected : InjectGroupMessage(g) \/ WebChatHistory(g)
           \/ StopTurn \/ ReplicaAppends
    PROVE  KeepsSteer
  <1>1. ASSUME NEW m \in Inbound, ReserveWebTurn(m) \/ AcquireTurn(m)
        PROVE  KeepsSteer
    <2>1. /\ m \in Messages /\ pc[m] \notin {"steered", "ended"} /\ pc' = [pc EXCEPT ![m] = "started"]
          /\ turn = NoTurn /\ inbox' = <<>> /\ work' = NoWork /\ UNCHANGED <<steered, appends>>
      BY <1>1 DEF ReserveWebTurn, AcquireTurn, TakeTurn, Goto, Messages, ghostVars
    <2>2. inbox = <<>> /\ work = NoWork
      BY <2>1 DEF ControlInv, SlotInv
    <2>3. QED BY <2>1, <2>2, MoveSettles DEF KeepsSteer
  <1>2. ASSUME NEW m \in Inbound, WaitTimesOut(m) PROVE KeepsSteer
    <2>1. /\ m \in Messages /\ pc[m] \notin {"steered", "ended"} /\ pc' = [pc EXCEPT ![m] = "ended"]
          /\ UNCHANGED <<inbox, work, steered, appends>>
      BY <1>2 DEF WaitTimesOut, Goto, Messages, ghostVars, turnVars
    <2>2. QED BY <2>1, MoveSettles DEF KeepsSteer
  <1>3. CASE ExecuteTask
    <2>1. /\ chatQueue # <<>> /\ pc' = [pc EXCEPT ![Head(chatQueue)] = "waiting"]
          /\ UNCHANGED <<inbox, work, steered, appends>>
      BY <1>3 DEF ExecuteTask, Goto, turnVars, ghostVars
    <2>2. /\ 1 \in 1..Len(chatQueue) /\ Head(chatQueue) = chatQueue[1]
      BY <2>1, QueueOf, EmptySeq, HeadTailProperties
    <2>3. Head(chatQueue) \in Messages /\ pc[Head(chatQueue)] \notin {"steered", "ended"}
      BY <2>2, QueueOf DEF QueueInv
    <2>4. QED BY <2>1, <2>3, MoveSettles DEF KeepsSteer
  <1>4. CASE CleanupIdleQueue \/ StopTurn \/ ReplicaAppends
    <2>1. UNCHANGED <<pc, inbox, work, steered, appends>>
      BY <1>4 DEF CleanupIdleQueue, StopTurn, ReplicaAppends, turnVars, ghostVars
    <2>2. QED BY <2>1, StaySettles DEF KeepsSteer
  <1>5. ASSUME NEW g \in Injected, InjectGroupMessage(g) \/ WebChatHistory(g)
        PROVE  KeepsSteer
    <2>1. /\ g \in Messages /\ g \notin Inbound /\ pc[g] \notin {"steered", "ended"}
          /\ \E label \in {"install", "record", "ended"} : pc' = [pc EXCEPT ![g] = label]
          /\ UNCHANGED <<inbox, work, steered>>
      BY <1>5, ConversationAssumption
      DEF InjectGroupMessage, GetLoads, GetInstalls, WebChatHistory, Goto, turnVars, ghostVars,
          Messages
    <2>2. appends' = appends
      BY <1>5, <2>1 DEF InjectGroupMessage, AppendUser, WebChatHistory, ghostVars
    <2>3. QED BY <2>1, <2>2, MoveSettles DEF KeepsSteer
  <1>6. QED BY <1>1, <1>2, <1>3, <1>4, <1>5

LEMMA FoldsSteer ==
    ASSUME Shape, FoldSteer \/ SaveLeftover
    PROVE  UsesSteer
  <1>1. /\ work.hand # <<>> /\ AppendUser(Head(work.hand))
        /\ work'.hand = Tail(work.hand) /\ UNCHANGED <<pc, inbox, steered>>
    BY TypesOfParts DEF FoldSteer, SaveLeftover, turnVars, Works
  <1>2. appends' = [appends EXCEPT ![Head(work.hand)] = @ + 1]
    BY <1>1, HandIsInbound DEF AppendUser
  <1>3. QED BY <1>1, <1>2, StaySettles DEF UsesSteer

LEMMA OwnSteer ==
    ASSUME Shape, ControlInv, RecordUserMessage
    PROVE  RecordsOwn
  <1>1. /\ Owner \in Inbound /\ Owner \in Messages /\ pc[Owner] = "record"
        /\ pc' = [pc EXCEPT ![Owner] = "top"]
        /\ AppendUser(Owner) /\ UNCHANGED <<inbox, steered>> /\ work'.hand = work.hand
    BY OwnerOf, TypesOfParts DEF RecordUserMessage, Next1, Goto, ControlInv, turnVars, Works
  <1>2. /\ appends' = [appends EXCEPT ![Owner] = @ + 1] /\ pc'[Owner] = "top" /\ Settled
    BY <1>1, MoveSettles DEF AppendUser, Shape, ControlShape
  <1>3. QED BY <1>1, <1>2 DEF RecordsOwn

\* Every step by what it does to the messages accepted as steering.
LEMMA SteerKinds ==
    ASSUME Shape, ControlInv, ConversationNext
    PROVE  \/ KeepsSteer \/ DrainsInbox \/ UsesSteer \/ RecordsOwn
           \/ \E m \in Inbound : Route(m)
           \/ Restart
  BY TurnSteers, OthersSteer, FoldsSteer, OwnSteer DEF ConversationNext, TurnStep

LEMMA IntakeStep ==
    ASSUME Shape, ControlInv, SteerInv, ConversationNext
    PROVE  SteerInv'
  <1> DEFINE kept(m) == Occurrences(m, inbox) + Occurrences(m, work.hand) + appends[m]
  <1>0. /\ inbox \in Seq(Inbound) /\ work.hand \in Seq(Inbound) /\ <<>> \in Seq(Inbound)
        /\ appends \in [Inbound -> Nat] /\ steered \subseteq Inbound /\ Inbound \subseteq Messages
        /\ pc \in [Messages -> PCs]
    BY TypesOfParts DEF Shape, ControlShape, Messages
  <1>1. \A m : /\ Occurrences(m, <<>>) = 0
               /\ Occurrences(m, inbox) \in Nat /\ Occurrences(m, work.hand) \in Nat
               /\ m \notin Range(inbox) => Occurrences(m, inbox) = 0
               /\ m \notin Range(work.hand) => Occurrences(m, work.hand) = 0
    BY <1>0, OccurrencesType, EmptyRange
  <1>2. CASE KeepsSteer
    BY <1>0, <1>2 DEF KeepsSteer, Settled, SteerInv, SteeringKept
  <1>3. CASE DrainsInbox
    <2>1. \A m \in steered : kept(m)' = kept(m)
      BY <1>0, <1>1, <1>3 DEF DrainsInbox
    <2>2. Range(inbox') \cup Range(work'.hand) \subseteq steered
      BY <1>3, EmptyRange DEF DrainsInbox, SteerInv
    <2>3. QED BY <1>0, <1>3, <2>1, <2>2 DEF DrainsInbox, Settled, SteerInv, SteeringKept
  <1>4. CASE UsesSteer
    <2> DEFINE h == Head(work.hand)
    <2>1. h \in Range(work.hand) /\ Range(Tail(work.hand)) \subseteq Range(work.hand)
      BY <1>0, <1>4, RangeOfTail DEF UsesSteer
    <2>2. h \in steered /\ h \in Inbound /\ pc[h] = "steered"
      BY <1>0, <2>1 DEF SteerInv
    <2>3. \A m : /\ Occurrences(m, work.hand) =
                       Occurrences(m, Tail(work.hand)) + (IF m = h THEN 1 ELSE 0)
                 /\ Occurrences(m, Tail(work.hand)) \in Nat
      BY <1>0, <1>4, OccurrencesOfTail, OccurrencesType, RangeOfTail DEF UsesSteer
    <2> HIDE DEF h
    <2>4. /\ appends' = [appends EXCEPT ![h] = @ + 1] /\ work'.hand = Tail(work.hand)
          /\ UNCHANGED <<steered, inbox>> /\ Settled
      BY <1>4 DEF UsesSteer, h
    <2>5. \A m \in steered : kept(m)' = kept(m)
      BY <1>0, <1>1, <2>2, <2>3, <2>4
    <2>6. \A m \in Inbound : m # h => appends'[m] = appends[m]
      BY <1>0, <2>4
    <2>7. \A m \in Inbound : pc'[m] = "new" => appends'[m] = 0
      BY <1>0, <2>2, <2>4, <2>6 DEF Settled, SteerInv
    <2>8. QED BY <1>0, <2>1, <2>4, <2>5, <2>7 DEF Settled, SteerInv, SteeringKept
  <1>5. CASE RecordsOwn
    <2>1. PICK o \in Inbound :
            /\ Settled /\ pc[o] = "record" /\ pc'[o] # "new"
            /\ appends' = [appends EXCEPT ![o] = @ + 1]
            /\ inbox' = inbox /\ work'.hand = work.hand /\ UNCHANGED steered
      BY <1>5 DEF RecordsOwn
    <2>2. o \notin steered
      BY <2>1 DEF SteerInv
    <2>3. \A m \in Inbound : m # o => appends'[m] = appends[m]
      BY <1>0, <2>1
    <2>4. QED BY <1>0, <2>1, <2>2, <2>3 DEF Settled, SteerInv, SteeringKept
  <1>6. ASSUME NEW r \in Inbound, Route(r) PROVE SteerInv'
    <2>1. /\ pc[r] = "new" /\ appends' = appends /\ work' = work /\ r \in Messages
          /\ \/ /\ inbox' = Append(inbox, r) /\ steered' = steered \cup {r}
                /\ pc' = [pc EXCEPT ![r] = "steered"]
             \/ /\ UNCHANGED <<inbox, steered>>
                /\ pc' = [pc EXCEPT ![r] = "queued"]
      BY <1>0, <1>6 DEF Route, Goto
    <2>2. r \notin steered /\ appends[r] = 0
      BY <2>1 DEF SteerInv
    <2>3. /\ \A m \in Messages : m # r => pc'[m] = pc[m]
          /\ pc'[r] # "new"
      BY <1>0, <2>1
    <2>4. CASE /\ inbox' = Append(inbox, r) /\ steered' = steered \cup {r}
               /\ pc' = [pc EXCEPT ![r] = "steered"]
      <3>1. /\ Range(inbox') = Range(inbox) \cup {r} /\ pc'[r] = "steered"
            /\ \A m : Occurrences(m, inbox') = Occurrences(m, inbox) + (IF m = r THEN 1 ELSE 0)
        BY <1>0, <2>1, <2>4, RangeOfAppend, OccurrencesOfAppend
      <3>2. Occurrences(r, inbox) = 0 /\ Occurrences(r, work.hand) = 0
        BY <1>1, <2>2 DEF SteerInv
      <3>3. SteeringKept'
        BY <1>0, <1>1, <2>1, <2>2, <2>4, <3>1, <3>2 DEF SteerInv, SteeringKept
      <3>4. QED BY <1>0, <2>1, <2>2, <2>3, <2>4, <3>1, <3>3 DEF SteerInv
    <2>5. CASE UNCHANGED <<inbox, steered>>
      BY <1>0, <2>1, <2>2, <2>3, <2>5 DEF SteerInv, SteeringKept
    <2>6. QED BY <2>1, <2>4, <2>5
  <1>7. CASE Restart
    <2>1. /\ inbox' = <<>> /\ work'.hand = <<>> /\ appends' = appends
          /\ \A m \in Messages : pc'[m] = "new" => pc[m] = "new"
          /\ steered' = {m \in steered : ~Alive(m)}
      BY <1>7 DEF Restart, NoWork
    <2>2. steered' = {}
      <3>1. \A m \in steered : Alive(m)
        BY DEF SteerInv, Alive, Gone
      <3>2. QED BY <2>1, <3>1
    <2>3. QED BY <1>0, <2>1, <2>2, EmptyRange DEF SteerInv, SteeringKept
  <1>8. QED BY <1>2, <1>3, <1>4, <1>5, <1>6, <1>7, SteerKinds

(***************************************************************************)
(* The invariant and what it gives.                                         *)
(***************************************************************************)
LEMMA InvariantInit ==
    ASSUME ConversationInit
    PROVE  ConversationInv
  <1> USE DEF ConversationInit
  <1>1. /\ pc = [m \in Messages |-> IF m \in trouble.messages THEN "new" ELSE "ended"]
        /\ \A m \in Messages : pc[m] \in {"new", "ended"}
        /\ {"new", "ended"} \subseteq PCs /\ "ended" \in Gone
        /\ {"new", "ended"} \cap TurnPCs = {}
    BY Labels DEF PCs, Gone
  <1>2. <<>> \in Seq(Inbound) /\ <<>> \in History /\ Len(<<>>) = 0 /\ Range(<<>>) = {}
    BY EmptySeq, EmptyRange DEF History
  <1>3. NoTurn \in Turns /\ NoWork \in Works
    BY <1>2 DEF NoTurn, NoWork, Turns, Works
  <1>4. ControlShape
    BY <1>1, <1>2, <1>3, ConversationAssumption DEF ControlShape
  <1>5. StoreShape
    <2>1. trouble \in [messages : SUBSET Messages, restart : Nat, other : Nat, save : Nat,
                       cancel : Nat]
      BY ConversationAssumption DEF Messages
    <2>2. QED BY <1>2, <2>1 DEF StoreShape, NoSession, NoRead, Row
  <1>6. SlotInv
    <2>1. 1..Len(chatQueue) = {}
      BY <1>2
    <2>2. QED BY <1>1, <2>1 DEF SlotInv, Messages
  <1>7. IntakeOK
    BY DEF IntakeOK
  <1>8. SteerInv
    BY <1>2 DEF SteerInv, NoWork, SteeringKept
  <1>9. StoreInv
    BY DEF StoreInv, NoSession, NoRead
  <1>10. shadowed \in BOOLEAN
    OBVIOUS
  <1>11. QED
    BY <1>4, <1>5, <1>6, <1>7, <1>8, <1>9, <1>10 DEF ConversationInv, Shape, ControlInv

LEMMA InvariantStep ==
    ASSUME ConversationInv, [ConversationNext]_conversationVars
    PROVE  ConversationInv'
  <1>1. CASE ConversationNext
    <2>1. StoreShape' /\ StoreInv'
      BY <1>1, StoreStep DEF ConversationInv, ControlInv
    <2>2. ControlShape' /\ ControlInv'
      BY <1>1, ControlStep DEF ConversationInv
    <2>3. SteerInv'
      BY <1>1, IntakeStep DEF ConversationInv
    <2>4. shadowed' \in BOOLEAN
      BY <1>1, ShadowStep DEF ConversationInv, ControlInv
    <2>5. QED BY <2>1, <2>2, <2>3, <2>4 DEF ConversationInv, Shape
  <1>2. CASE UNCHANGED conversationVars
    BY <1>2
    DEF conversationVars, ConversationInv, Shape, ControlShape, StoreShape, ControlInv, SlotInv,
        IntakeOK, SteerInv, SteeringKept, StoreInv, Owner
  <1>3. QED BY <1>1, <1>2

\* The inductive invariant holds throughout, from ConversationAssumption alone.
THEOREM ConversationInvariant == ConversationSpec => []ConversationInv
  BY InvariantInit, InvariantStep, PTL DEF ConversationSpec

LEMMA InvariantTypes ==
    ASSUME ConversationInv
    PROVE  ConversationTypeOK
  <1>1. /\ pc \in [Messages -> {"new", "queued", "waiting", "steered"} \cup TurnPCs \cup Gone]
        /\ serving \in Inbound \cup {NoMessage}
        /\ steered \subseteq Inbound /\ appends \in [Inbound -> Nat] /\ calls \in 0..MaxCalls
    BY DEF ConversationInv, Shape, ControlShape, PCs
  <1>2. Range(chatQueue) \cup Range(inbox) \cup Range(work.hand) \subseteq Inbound
    <2>1. chatQueue \in Seq(Inbound) /\ inbox \in Seq(Inbound) /\ work.hand \in Seq(Inbound)
      BY TypesOfParts DEF ConversationInv, Shape, ControlShape
    <2>2. QED BY <2>1, ElementOfSeq, LenProperties DEF Range
  <1>3. /\ turn.owner \in Inbound \cup {NoMessage} /\ work.parts \subseteq Parts
        /\ turn.state \in {"idle", "starting", "running", "finishing", "stopping"}
    BY TypesOfParts DEF ConversationInv, Turns
  <1>4. turn.owner # NoMessage <=> \E m \in Inbound : pc[m] \in TurnPCs
    BY ConversationAssumption DEF ConversationInv, ControlInv, SlotInv, NoTurn
  <1>5. session.rev <= durable.rev /\ shadowed \in BOOLEAN
    BY DEF ConversationInv, StoreInv
  <1>6. QED BY <1>1, <1>2, <1>3, <1>4, <1>5 DEF ConversationTypeOK

\* The types of the conversation; a turn is held exactly while the goroutine of
\* one message is in it, and the cache is never ahead of the row
\* (turns.go 59-101, 224-235, manager.go 300-340).
THEOREM ConversationTypesHold == ConversationSpec => []ConversationTypeOK
  BY ConversationInvariant, InvariantTypes, PTL

\* A message accepted as steering is neither lost nor used twice, with any number
\* of messages, turns, stops, failed saves and restarts (turns.go 141-206).
THEOREM SteeringIsKept == ConversationSpec => []SteeringKept
  <1>1. ConversationInv => SteeringKept
    BY DEF ConversationInv, SteerInv
  <1>2. QED BY <1>1, ConversationInvariant, PTL

\* The stored history only grows, whatever replicas, injected messages, early
\* loads and failed saves do (database.go 3575-3600, manager.go 300-340).
THEOREM HistoryGrows == ConversationSpec => HistoryOnlyGrows
  <1>1. ASSUME ConversationInv, [ConversationNext]_conversationVars
        PROVE  [IsPrefix(durable.msgs, durable'.msgs)]_conversationVars
    BY <1>1, StoreStep DEF ConversationInv, ControlInv
  <1>2. QED BY <1>1, ConversationInvariant, PTL DEF ConversationSpec, HistoryOnlyGrows

(***************************************************************************)
(* Calls and results in the stored history, the session and the request.    *)
(***************************************************************************)
LEMMA HistoriesOf ==
    ASSUME Shape
    PROVE  /\ durable.msgs \in History /\ session.msgs \in History /\ work.request \in History
           /\ \A m \in Messages : read[m].msgs \in History
           /\ durable \in Row /\ calls \in Nat
  BY TypesOfParts DEF Shape, StoreShape, Row

LEMMA OwedAreResults ==
    ASSUME Shape
    PROVE  \A x \in Owed \cup Padded : x \in Results /\ x \in Message
  <1>1. calls \in Nat /\ work.orphan \in Nat /\ work.parts \subseteq Parts
    BY TypesOfParts
  <1>2. QED BY <1>1, MessageKinds DEF Owed, Padded

LEMMA HistoryRange ==
    ASSUME NEW msgs \in History, NEW x \in Message
    PROVE  Range(Append(msgs, x)) = Range(msgs) \cup {x} /\ Append(msgs, x) \in History
  BY RangeOfAppend DEF History

\* An append that keeps the cached list in order keeps all lists in order.
LEMMA AppendLists ==
    ASSUME Shape, StoreInv, NEW n \in Nat, ListsOK(n), NEW x \in Message,
           SessionAppend(x), UNCHANGED read, HistoryOK(Append(session.msgs, x), n)
    PROVE  /\ ListsOK(n)'
           /\ session'.msgs = Append(session.msgs, x)
           /\ Range(session'.msgs) = Range(session.msgs) \cup {x}
           /\ Range(durable'.msgs) \subseteq Range(durable.msgs) \cup {x}
           /\ Range(durable.msgs) \subseteq Range(durable'.msgs)
  <1>1. /\ session'.msgs = Append(session.msgs, x)
        /\ durable'.msgs \in {durable.msgs, Append(durable.msgs, x)}
        /\ durable'.msgs = durable.msgs \/ durable'.msgs = session'.msgs
    BY AppendStores DEF Shape
  <1>2. /\ Range(session'.msgs) = Range(session.msgs) \cup {x}
        /\ Range(durable'.msgs) \subseteq Range(durable.msgs) \cup {x}
        /\ Range(durable.msgs) \subseteq Range(durable'.msgs)
    <2>1. /\ Range(Append(session.msgs, x)) = Range(session.msgs) \cup {x}
          /\ Range(Append(durable.msgs, x)) = Range(durable.msgs) \cup {x}
      BY HistoriesOf, HistoryRange
    <2>2. QED BY <1>1, <2>1
  <1>3. ListsOK(n)'
    BY <1>1, <1>2 DEF ListsOK
  <1>4. QED BY <1>1, <1>2, <1>3

(***************************************************************************)
(* Steps that append no call and no result.                                 *)
(***************************************************************************)
Plain(x) == x \in Message /\ x.role \notin {"call", "tool"}

StoresPlain(x) ==
    \/ UNCHANGED storeVars
    \/ SessionAppend(x) /\ UNCHANGED read
    \/ durable'.msgs = Append(durable.msgs, x) /\ UNCHANGED <<session, read>>

\* No result becomes due.
WireFrame ==
    /\ UNCHANGED calls
    /\ Owed' \subseteq Owed /\ Padded' \subseteq Padded

\* The loop's request grows by the message; only a request that was not sent yet may
\* start over.
LoopFrame(x) ==
    \/ ~InLoop'
    \/ At("top")' /\ work'.request = session'.msgs
    \/ /\ InLoop /\ work'.request \in {work.request, Append(work.request, x)}
       /\ At("top") => At("top")' \/ ~session.failed

PlainStep ==
    \E x : /\ Plain(x) /\ StoresPlain(x) /\ WireFrame /\ LoopFrame(x)
           /\ work'.request \in {work.request, Append(work.request, x), session'.msgs, <<>>}

LEMMA PlainKept ==
    ASSUME Shape, StoreInv, WireInv, PlainStep
    PROVE  WireInv'
  <1>0. PICK x : /\ Plain(x) /\ StoresPlain(x) /\ WireFrame
                 /\ work'.request \in {work.request, Append(work.request, x), session'.msgs, <<>>}
    BY DEF PlainStep
  <1>1. /\ x \in Message /\ x \notin Results /\ \A k : x # ToolCalls(k)
        /\ HistoryOK(Append(session.msgs, x), calls) /\ HistoryOK(Append(work.request, x), calls)
        /\ HistoryOK(<<>>, calls)
    <2>1. x \in Message /\ x.role \notin {"call", "tool"}
      BY <1>0 DEF Plain
    <2>2. x \notin Results /\ \A k : x # ToolCalls(k)
      BY <2>1 DEF Results, ToolCalls
    <2>3. HistoryOK(<<>>, calls)
      BY EmptySeq DEF HistoryOK, Paired, Indices
    <2>4. QED BY <2>1, <2>2, <2>3, HistoriesOf, PlainAppend DEF WireInv, ListsOK
  <1>2. /\ ListsOK(calls)' /\ calls' = calls
        /\ Range(session'.msgs) \subseteq Range(session.msgs) \cup {x}
        /\ Range(durable'.msgs) \subseteq Range(durable.msgs) \cup {x}
    <2>0. calls' = calls /\ ListsOK(calls)
      BY <1>0 DEF WireFrame, WireInv
    <2>1. CASE UNCHANGED storeVars
      BY <2>0, <2>1 DEF storeVars, ListsOK
    <2>2. CASE SessionAppend(x) /\ UNCHANGED read
      BY <1>1, <2>0, <2>2, HistoriesOf, AppendLists
    <2>3. CASE durable'.msgs = Append(durable.msgs, x) /\ UNCHANGED <<session, read>>
      <3>1. HistoryOK(durable'.msgs, calls) /\ Range(durable'.msgs) = Range(durable.msgs) \cup {x}
        <4>1. x.role \notin {"call", "tool"}
          BY <1>0 DEF Plain
        <4>2. QED
          BY <1>1, <2>0, <2>3, <4>1, HistoriesOf, HistoryRange, PlainAppend DEF ListsOK
      <3>2. QED BY <1>1, <2>0, <2>3, <3>1 DEF ListsOK
    <2>4. QED BY <1>0, <2>1, <2>2, <2>3 DEF StoresPlain
  <1>3. /\ HistoryOK(work'.request, calls)
        /\ Range(work'.request) \subseteq
              Range(work.request) \cup Range(session.msgs) \cup {x}
    <2>1. Range(Append(work.request, x)) = Range(work.request) \cup {x} /\ Range(<<>>) = {}
      BY <1>1, HistoriesOf, HistoryRange, EmptyRange
    <2>2. QED BY <1>0, <1>1, <1>2, <2>1 DEF WireInv, ListsOK
  <1>4. (\A y \in Owed : y \in Results) /\ (\A y \in Padded : y \in Results)
    BY OwedAreResults
  <1>5. FreshOK'
    BY <1>0, <1>1, <1>2, <1>3, <1>4 DEF WireInv, FreshOK, WireFrame
  <1>6. QED BY <1>2, <1>3, <1>5 DEF WireInv

(***************************************************************************)
(* Tool calls, their results and the padding.                               *)
(***************************************************************************)
LEMMA TurnGoesOn ==
    ASSUME Shape, ControlInv, turn # NoTurn, NEW label, turn'.owner = turn.owner,
           pc' = [pc EXCEPT ![Owner] = label]
    PROVE  /\ Owner' = Owner /\ turn' # NoTurn
           /\ \A other : At(other)' <=> other = label
  <1>1. /\ Owner \in Inbound /\ Owner \in Messages /\ pc \in [Messages -> PCs] /\ Owner' = Owner
        /\ turn' # NoTurn
    BY ConversationAssumption
    DEF ControlInv, SlotInv, Owner, NoTurn, Messages, Shape, ControlShape
  <1>2. pc'[Owner] = label
    BY <1>1
  <1>3. \A other : At(other)' <=> other = label
    BY <1>1, <1>2 DEF At
  <1>4. QED BY <1>1, <1>3

LEMMA TurnPauses ==
    ASSUME UNCHANGED <<pc, turn>>
    PROVE  \A label : At(label)' <=> At(label)
  BY DEF Owner, At

\* Only one label at a time.
LEMMA AtOne ==
    ASSUME NEW label, At(label)
    PROVE  \A other : At(other) <=> other = label
  BY DEF At

LEMMA CallKept ==
    ASSUME Shape, ControlInv, StoreInv, WireInv, ModelCallsTools
    PROVE  WireInv'
  <1> DEFINE x == ToolCalls(calls + 1)
  <1>1. /\ At("calling") /\ turn # NoTurn
        /\ SessionAppend(x) /\ UNCHANGED read /\ calls' = calls + 1
        /\ work'.request = Append(work.request, x) /\ UNCHANGED turn
        /\ pc' = [pc EXCEPT ![Owner] = "called"]
    BY TypesOfParts DEF ModelCallsTools, Works, At, Next1, Goto, turnVars
  <1>2. \A label : At(label)' <=> label = "called"
    BY <1>1, TurnGoesOn
  <1>3. calls \in Nat /\ calls + 1 \in Nat /\ x \in Message /\ x \notin Results
    <2>1. calls \in Nat /\ calls + 1 \in Nat
      BY TypesOfParts
    <2>2. QED BY <2>1, MessageKinds DEF Results, ToolCalls
  <1> HIDE DEF x
  <1>4. /\ ListsOK(calls) /\ HistoryOK(work.request, calls)
        /\ HistoryOK(durable.msgs, calls) /\ HistoryOK(session.msgs, calls)
        /\ \A m \in Messages : HistoryOK(read[m].msgs, calls)
    BY DEF WireInv, ListsOK
  <1>5. ListsOK(calls + 1)
    BY <1>3, <1>4, HistoriesOf, HistoryLater DEF ListsOK
  <1>6. HistoryOK(Append(session.msgs, x), calls + 1)
        /\ HistoryOK(Append(work.request, x), calls + 1)
    BY <1>3, <1>4, HistoriesOf, CallAppend DEF x
  <1> PICK n \in Nat : n = calls + 1
    BY <1>3
  <1>7. /\ ListsOK(n)'
        /\ Range(session'.msgs) = Range(session.msgs) \cup {x}
        /\ Range(durable'.msgs) \subseteq Range(durable.msgs) \cup {x}
    BY <1>1, <1>3, <1>5, <1>6, AppendLists
  <1>8. \A p \in Parts : ToolResult(calls + 1, p) \notin
             Range(durable.msgs) \cup Range(session.msgs) \cup Range(work.request)
    BY <1>3, <1>4, HistoriesOf, HistoryLater
  <1>9. FreshOK'
    <2>1. Owed' = {ToolResult(calls + 1, p) : p \in Parts} /\ Padded' = {}
      BY <1>1, <1>2 DEF Owed, Padded
    <2>2. Range(work'.request) = Range(work.request) \cup {x}
      BY <1>1, <1>3, HistoriesOf, HistoryRange
    <2>3. \A y \in Owed' : y \in Results /\ y # x
      BY <1>3, <2>1, MessageKinds
    <2>4. QED BY <1>1, <1>3, <1>7, <1>8, <2>1, <2>2, <2>3 DEF FreshOK
  <1>10. HistoryOK(work.request, calls)'
    BY <1>1, <1>6
  <1>11. ListsOK(calls)'
    BY <1>1, <1>7 DEF ListsOK
  <1>12. QED BY <1>9, <1>10, <1>11 DEF WireInv

\* A result that is owed, or padded, is appended for the first time.
LEMMA ResultLists ==
    ASSUME Shape, StoreInv, WireInv, NEW x \in Results, x.id \in 1..calls,
           x \notin Range(session.msgs), SessionAppend(x), UNCHANGED <<read, calls>>
    PROVE  /\ ListsOK(calls)' /\ x \in Message
           /\ Range(session'.msgs) = Range(session.msgs) \cup {x}
           /\ Range(durable'.msgs) \subseteq Range(durable.msgs) \cup {x}
  <1>1. calls \in Nat /\ x \in Message /\ \A k : x # ToolCalls(k)
    BY HistoriesOf, MessageKinds DEF Results, ToolCalls
  <1>2. ListsOK(calls) /\ HistoryOK(session.msgs, calls)
    BY DEF WireInv, ListsOK
  <1>3. HistoryOK(Append(session.msgs, x), calls)
    BY <1>1, <1>2, HistoriesOf, ResultAppend
  <1>4. QED BY <1>1, <1>2, <1>3, AppendLists

LEMMA ResultKept ==
    ASSUME Shape, ControlInv, StoreInv, WireInv, RecordResult
    PROVE  WireInv'
  <1> DEFINE part == CHOOSE p \in work.parts : \A q \in work.parts : p <= q
             x == ToolResult(calls, part)
  <1>1. /\ At("results") /\ part \in work.parts /\ work.parts \subseteq Parts
        /\ SessionAppend(x) /\ UNCHANGED <<read, calls, pc, turn>>
        /\ work'.request = Append(work.request, x) /\ work'.parts = work.parts \ {part}
    BY TypesOfParts, SmallestPart DEF RecordResult, Works, turnVars
  <1> HIDE DEF part
  <1>2. /\ Owed = {ToolResult(calls, p) : p \in work.parts} /\ Padded = {}
        /\ Owed' = {ToolResult(calls, p) : p \in work.parts \ {part}} /\ Padded' = {}
    <2>1. \A label : At(label) <=> label = "results"
      BY <1>1, AtOne
    <2>2. (\A label : At(label)' <=> label = "results")
      BY <1>1, <2>1, TurnPauses
    <2>3. QED BY <1>1, <2>1, <2>2 DEF Owed, Padded
  <1>3. x \in Owed /\ x \notin Owed' /\ Owed' \subseteq Owed
    BY <1>1, <1>2 DEF ToolResult
  <1>4. /\ x \in Results /\ x.id = calls /\ calls \in 1..calls
        /\ x \notin Range(session.msgs) \cup Range(work.request)
    BY <1>3, OwedAreResults, HistoriesOf DEF WireInv, FreshOK, ToolResult
  <1> HIDE DEF x
  <1>5. /\ ListsOK(calls)' /\ x \in Message
        /\ Range(session'.msgs) = Range(session.msgs) \cup {x}
        /\ Range(durable'.msgs) \subseteq Range(durable.msgs) \cup {x}
    BY <1>1, <1>4, ResultLists
  <1>6. HistoryOK(work.request, calls)' /\ Range(work'.request) = Range(work.request) \cup {x}
    <2>1. HistoryOK(work.request, calls)
      BY DEF WireInv
    <2>2. QED BY <1>1, <1>4, <1>5, <2>1, HistoriesOf, HistoryRange, ResultAppend
  <1>7. FreshOK'
    BY <1>1, <1>2, <1>3, <1>5, <1>6 DEF WireInv, FreshOK
  <1>8. QED BY <1>5, <1>6, <1>7 DEF WireInv

LEMMA PadBeginsKept ==
    ASSUME Shape, ControlInv, WireInv, PadBegins
    PROVE  WireInv'
  <1>1. /\ At("pad") /\ turn # NoTurn
        /\ UNCHANGED <<session, read, durable, turn, calls>>
        /\ work'.request = work.request
        /\ work'.parts = Unanswered(session.msgs) /\ work'.orphan = LatestCall(session.msgs)
        /\ pc' = [pc EXCEPT ![Owner] = "leftover"]
    BY TypesOfParts DEF PadBegins, Works, At, Next1, Goto, turnVars, storeVars
  <1>2. \A label : At(label)' <=> label = "leftover"
    BY <1>1, TurnGoesOn
  <1>3. /\ Owed' = {}
        /\ Padded' = {ToolResult(LatestCall(session.msgs), p) : p \in Unanswered(session.msgs)}
    BY <1>1, <1>2 DEF Owed, Padded
  <1>4. /\ HistoryOK(session.msgs, calls) /\ session.msgs \in History /\ calls \in Nat
    BY HistoriesOf DEF WireInv, ListsOK
  <1>5. ASSUME NEW x \in Padded'
        PROVE  x.id \in 1..calls /\ x \notin Range(session.msgs)
    <2>1. PICK p \in Unanswered(session.msgs) : x = ToolResult(LatestCall(session.msgs), p)
      BY <1>3
    <2>2. /\ LatestCall(session.msgs) \in 1..calls
          /\ ToolCalls(LatestCall(session.msgs)) \in Range(session.msgs)
          /\ x \notin Range(session.msgs)
          /\ p \in Parts /\ LatestCall(session.msgs) \in Nat
      BY <1>4, <2>1, UnansweredIsAbsent
    <2>3. x.id = LatestCall(session.msgs) /\ x \in Results
      BY <2>1, <2>2, MessageKinds DEF ToolResult
    <2>4. QED BY <2>2, <2>3
  <1>6. FreshOK'
    BY <1>1, <1>2, <1>3, <1>5 DEF FreshOK
  <1>7. ListsOK(calls)' /\ HistoryOK(work.request, calls)'
    BY <1>1 DEF WireInv, ListsOK
  <1>8. QED BY <1>6, <1>7 DEF WireInv

LEMMA PadKept ==
    ASSUME Shape, ControlInv, StoreInv, WireInv, PadOrphan
    PROVE  WireInv'
  <1> DEFINE part == Min(work.parts)
             x == ToolResult(work.orphan, part)
  <1>1. /\ At("leftover") /\ part \in work.parts /\ work.parts \subseteq Parts
        /\ SessionAppend(x) /\ UNCHANGED <<read, calls, pc, turn>>
        /\ work'.request = work.request /\ work'.parts = work.parts \ {part}
        /\ work'.orphan = work.orphan
    BY TypesOfParts, SmallestPart DEF PadOrphan, Works, turnVars, ghostVars
  <1> HIDE DEF part
  <1>2. /\ Owed = {} /\ Padded = {ToolResult(work.orphan, p) : p \in work.parts}
        /\ Owed' = {} /\ Padded' = {ToolResult(work.orphan, p) : p \in work.parts \ {part}}
    <2>1. \A label : At(label) <=> label = "leftover"
      BY <1>1, AtOne
    <2>2. (\A label : At(label)' <=> label = "leftover")
      BY <1>1, <2>1, TurnPauses
    <2>3. QED BY <1>1, <2>1, <2>2 DEF Owed, Padded
  <1>3. x \in Padded /\ x \notin Padded' /\ Padded' \subseteq Padded
    BY <1>1, <1>2 DEF ToolResult
  <1>4. x \in Results /\ x.id \in 1..calls /\ x \notin Range(session.msgs)
    BY <1>3, OwedAreResults DEF WireInv, FreshOK
  <1> HIDE DEF x
  <1>5. /\ ListsOK(calls)'
        /\ Range(session'.msgs) = Range(session.msgs) \cup {x}
        /\ Range(durable'.msgs) \subseteq Range(durable.msgs) \cup {x}
    BY <1>1, <1>4, ResultLists
  <1>6. FreshOK'
    BY <1>1, <1>2, <1>3, <1>5 DEF WireInv, FreshOK
  <1>7. HistoryOK(work.request, calls)'
    BY <1>1 DEF WireInv
  <1>8. QED BY <1>5, <1>6, <1>7 DEF WireInv

(***************************************************************************)
(* Loads of the session, and a restart.                                     *)
(***************************************************************************)
LEMMA EmptyOK == \A n : HistoryOK(<<>>, n)
  BY EmptySeq DEF HistoryOK, Paired, Indices

LEMMA LoadLists ==
    ASSUME Shape, ListsOK(calls), UNCHANGED calls, NEW m \in Messages, NEW installing, NEW next,
           GetLoads(m, installing, next)
    PROVE  /\ ListsOK(calls)' /\ UNCHANGED durable
           /\ \/ /\ Goto(m, installing) /\ UNCHANGED session
                 /\ read' = [read EXCEPT ![m] = durable]
              \/ /\ Goto(m, next) /\ UNCHANGED read
                 /\ session'.msgs \in {<<>>, durable.msgs}
  <1>1. CASE session.cached
    <2>1. /\ Goto(m, installing) /\ UNCHANGED <<session, durable>>
          /\ read' = [read EXCEPT ![m] = durable]
      BY <1>1 DEF GetLoads
    <2>2. \A n \in Messages : read'[n] \in {read[n], durable}
      BY <2>1 DEF Shape, StoreShape
    <2>3. QED BY <2>1, <2>2 DEF ListsOK
  <1>2. CASE ~session.cached
    <2>1. /\ Goto(m, next) /\ UNCHANGED <<read, durable>>
          /\ session'.msgs \in {<<>>, durable.msgs}
      BY <1>2 DEF GetLoads
    <2>2. QED BY <2>1, EmptyOK DEF ListsOK
  <1>3. QED BY <1>1, <1>2

LEMMA InstallLists ==
    ASSUME Shape, ListsOK(calls), UNCHANGED calls, NEW m \in Messages, NEW next,
           GetInstalls(m, next)
    PROVE  /\ ListsOK(calls)' /\ UNCHANGED durable /\ Goto(m, next)
           /\ read' = [read EXCEPT ![m] = NoRead]
           /\ session'.msgs \in {session.msgs, read[m].msgs}
  <1>1. /\ UNCHANGED durable /\ Goto(m, next)
        /\ read' = [read EXCEPT ![m] = NoRead]
    BY DEF GetInstalls
  <1>2. session'.msgs \in {session.msgs, read[m].msgs}
    <2>1. PICK failed \in BOOLEAN :
             session' = IF failed THEN [session EXCEPT !.failed = TRUE]
                        ELSE [session EXCEPT !.msgs = read[m].msgs, !.rev = read[m].rev,
                                             !.failed = FALSE]
      BY DEF GetInstalls
    <2>2. QED BY <2>1 DEF Shape, StoreShape
  <1>3. \A n \in Messages : read'[n] \in {read[n], NoRead}
    BY <1>1 DEF Shape, StoreShape
  <1>4. ListsOK(calls)'
    BY <1>1, <1>2, <1>3, EmptyOK, EmptyRange DEF ListsOK, NoRead
  <1>5. QED BY <1>1, <1>2, <1>4

LEMMA OwnerGetsKept ==
    ASSUME Shape, ControlInv, WireInv,
           LoadSession \/ InstallSession \/ LoadForLeftover \/ InstallForLeftover
    PROVE  WireInv'
  <1>1. /\ turn # NoTurn /\ Owner \in Messages /\ UNCHANGED <<work, calls>>
        /\ turn'.owner = turn.owner
        /\ \E installing \in {"install", "installLeftover"}, next \in {"record", "pad"} :
              GetLoads(Owner, installing, next) \/ GetInstalls(Owner, next)
    BY OwnerOf, TypesOfParts
    DEF LoadSession, InstallSession, LoadForLeftover, InstallForLeftover, ControlInv, BindSession,
        Turns, turnVars
  <1>2. /\ ListsOK(calls)'
        /\ \E label \in {"install", "installLeftover", "record", "pad"} :
              pc' = [pc EXCEPT ![Owner] = label]
    <2>1. PICK installing \in {"install", "installLeftover"}, next \in {"record", "pad"} :
             GetLoads(Owner, installing, next) \/ GetInstalls(Owner, next)
      BY <1>1
    <2>2. ListsOK(calls)' /\ (Goto(Owner, installing) \/ Goto(Owner, next))
      BY <1>1, <2>1, LoadLists, InstallLists DEF WireInv
    <2>3. QED BY <2>2 DEF Goto
  <1>3. \A label \in {"called", "results", "leftover"} : ~At(label)'
    <2>1. PICK label \in {"install", "installLeftover", "record", "pad"} :
             pc' = [pc EXCEPT ![Owner] = label]
      BY <1>2
    <2>2. QED BY <1>1, <2>1, TurnGoesOn
  <1>4. Owed' = {} /\ Padded' = {}
    BY <1>3 DEF Owed, Padded
  <1>5. FreshOK'
    BY <1>4 DEF FreshOK
  <1>6. QED BY <1>1, <1>2, <1>5 DEF WireInv

\* Somebody outside the turn acts: the turn's calls stay what they are.
LEMMA TurnUntouched ==
    ASSUME Shape, ControlInv, UNCHANGED <<work, calls>>,
           turn'.owner = turn.owner, turn' = NoTurn <=> turn = NoTurn,
           turn # NoTurn => pc'[Owner] = pc[Owner]
    PROVE  /\ Owed' = Owed /\ Padded' = Padded /\ Owner' = Owner
           /\ \A label : At(label)' <=> At(label)
  <1>1. Owner' = Owner
    BY DEF Owner
  <1>2. \A label : At(label)' <=> At(label)
    BY <1>1 DEF At
  <1>3. QED BY <1>1, <1>2 DEF Owed, Padded

LEMMA InjectedGetsKept ==
    ASSUME Shape, ControlInv, WireInv, shadowed \in BOOLEAN, ~shadowed',
           NEW g \in Injected, InjectGroupMessage(g), pc[g] # "record"
    PROVE  WireInv'
  <1>1. /\ g \in Messages /\ g \notin Inbound /\ pc[g] \in {"new", "install"}
        /\ UNCHANGED <<turn, work, calls>>
        /\ GetLoads(g, "install", "record") \/ GetInstalls(g, "record")
    BY ConversationAssumption DEF InjectGroupMessage, Messages, turnVars
  <1>2. /\ turn # NoTurn => Owner # g /\ Owner \in Messages
        /\ pc \in [Messages -> PCs]
    BY <1>1, ConversationAssumption
    DEF ControlInv, SlotInv, Owner, Messages, Shape, ControlShape
  <1>3. \A label : Goto(g, label) =>
           /\ pc'[g] = label
           /\ \A m \in Messages : m # g => pc'[m] = pc[m]
    BY <1>1, <1>2 DEF Goto
  <1>4. /\ ListsOK(calls)' /\ UNCHANGED durable
        /\ Goto(g, "install") \/ Goto(g, "record")
        /\ Range(session'.msgs) \subseteq Range(session.msgs) \cup Range(durable.msgs)
    <2>1. CASE GetLoads(g, "install", "record")
      BY <1>1, <2>1, LoadLists, EmptyRange DEF WireInv
    <2>2. CASE GetInstalls(g, "record")
      BY <1>1, <2>2, InstallLists DEF WireInv, ListsOK
    <2>3. QED BY <1>1, <2>1, <2>2
  <1>5. turn # NoTurn => pc'[Owner] = pc[Owner]
    BY <1>2, <1>3, <1>4
  <1>6. Owed' = Owed /\ Padded' = Padded
    BY <1>1, <1>5, TurnUntouched
  <1>7. Padded = {} \/ session'.msgs \in {session.msgs, <<>>}
    <2>1. ASSUME Padded # {} PROVE HidesFromTurn
      BY <2>1 DEF Padded, HidesFromTurn
    <2>2. CASE UNCHANGED session
      BY <2>2
    <2>3. ASSUME NEW failed \in BOOLEAN, GetCompletes(failed), Padded # {} PROVE failed
      BY <2>1, <2>3 DEF GetCompletes
    <2>4. CASE GetLoads(g, "install", "record")
      BY <2>3, <2>4 DEF GetLoads
    <2>5. CASE GetInstalls(g, "record")
      BY <2>3, <2>5 DEF GetInstalls, Shape, StoreShape
    <2>6. QED BY <1>1, <2>4, <2>5
  <1>8. FreshOK'
    BY <1>1, <1>4, <1>6, <1>7, EmptyRange DEF WireInv, FreshOK
  <1>9. QED BY <1>1, <1>4, <1>8 DEF WireInv

LEMMA RestartWires ==
    ASSUME Shape, WireInv, Restart
    PROVE  WireInv'
  <1>1. /\ UNCHANGED <<durable, calls>> /\ session'.msgs = <<>> /\ turn' = NoTurn
        /\ work'.request = <<>>
        /\ \A m \in Messages : read'[m].msgs = <<>>
    BY DEF Restart, NoSession, NoRead, NoWork
  <1>2. \A label : ~At(label)'
    BY <1>1 DEF At
  <1>3. Owed' = {} /\ Padded' = {}
    BY <1>2 DEF Owed, Padded
  <1>4. ListsOK(calls)' /\ HistoryOK(work.request, calls)'
    BY <1>1, EmptyOK, EmptyRange DEF WireInv, ListsOK
  <1>5. FreshOK'
    BY <1>3 DEF FreshOK
  <1>6. QED BY <1>4, <1>5 DEF WireInv

(***************************************************************************)
(* The steps that append no call and no result, one by one.                 *)
(***************************************************************************)
LEMMA FrameMoves ==
    ASSUME Shape, ControlInv, turn # NoTurn, UNCHANGED calls, turn'.owner = turn.owner,
           NEW label, pc' = [pc EXCEPT ![Owner] = label],
           label \notin {"called", "results", "leftover"}
    PROVE  WireFrame
  <1>1. \A other : At(other)' <=> other = label
    BY TurnGoesOn
  <1>2. Owed' = {} /\ Padded' = {}
    BY <1>1 DEF Owed, Padded
  <1>3. QED BY <1>1, <1>2 DEF WireFrame

LEMMA FrameOutside ==
    ASSUME Shape, ControlInv, UNCHANGED <<work, calls>>,
           turn'.owner = turn.owner, turn' = NoTurn <=> turn = NoTurn,
           turn # NoTurn => pc'[Owner] = pc[Owner]
    PROVE  WireFrame /\ \A x : LoopFrame(x)
  <1>1. (\A label : At(label)' <=> At(label)) /\ Owed' = Owed /\ Padded' = Padded
    BY TurnUntouched
  <1>2. InLoop' <=> InLoop
    BY <1>1 DEF InLoop
  <1>3. QED BY <1>1, <1>2 DEF WireFrame, LoopFrame

LEMMA NoteIsPlain ==
    /\ Plain(Note) /\ Plain(Answer)
    /\ \A m \in Messages \cup {Replica} : Plain(User(m))
  BY MessageKinds DEF Plain, Note, Answer, User

\* The owner goes on and appends nothing.
LEMMA GoesOn ==
    ASSUME Shape, ControlInv, turn # NoTurn, UNCHANGED <<storeVars, calls>>,
           turn'.owner = turn.owner, work'.request = work.request,
           NEW label, pc' = [pc EXCEPT ![Owner] = label],
           label \notin {"called", "results", "leftover"},
           label \in LoopPCs => InLoop /\ (At("top") => ~session.failed)
    PROVE  PlainStep
  <1>1. \A other : At(other)' <=> other = label
    BY TurnGoesOn
  <1>2. label \notin LoopPCs => ~InLoop'
    BY <1>1 DEF InLoop
  <1>3. LoopFrame(Note)
    BY <1>2 DEF LoopFrame
  <1>4. QED BY <1>3, FrameMoves, NoteIsPlain DEF PlainStep, StoresPlain

LEMMA TurnIsHeld ==
    ASSUME Shape, ControlInv, TurnStep
    PROVE  turn # NoTurn /\ Owner \in Inbound /\ Owner \in Messages
  <1>1. turn # NoTurn
    BY DEF TurnStep, StartTurn, LoadSession, InstallSession, RecordUserMessage, LoopTop, FoldSteer,
       FoldEnds, ModelFails, ModelAnswers, CloseOrContinue, ModelCallsTools, RunTools,
       RecordResult, RecordWarning, RecordReminder, RoundEnds, FinishTurn, LoadForLeftover,
       InstallForLeftover, PadBegins, PadOrphan, SaveLeftover, LeftoverSaved, ReleaseTurn, At
  <1>2. QED BY <1>1 DEF ControlInv, SlotInv, Owner, Messages

LEMMA QuietTurnIsPlain ==
    ASSUME Shape, ControlInv,
           \/ StartTurn \/ LoopTop \/ FoldEnds \/ ModelFails \/ CloseOrContinue \/ RoundEnds
           \/ FinishTurn \/ LeftoverSaved
    PROVE  PlainStep
  <1> DEFINE Quiet == {"get", "finish", "fold", "calling", "top", "refold", "pad", "getLeftover",
                       "release"}
  <1>0. turn # NoTurn
    BY TurnIsHeld DEF TurnStep
  <1>1. \E label \in Quiet :
           /\ pc' = [pc EXCEPT ![Owner] = label]
           /\ label \in LoopPCs => InLoop /\ (At("top") => ~session.failed)
    <2>1. /\ LoopPCs \cap {"get", "finish", "pad", "getLeftover", "release"} = {}
          /\ {"top", "fold", "refold", "answered", "results", "noted"} \subseteq LoopPCs
      BY DEF LoopPCs
    <2>2. CASE StartTurn \/ ModelFails \/ FinishTurn \/ LeftoverSaved
      BY <2>1, <2>2 DEF StartTurn, ModelFails, FinishTurn, LeftoverSaved, Next1, Goto
    <2>3. CASE LoopTop
      BY <2>1, <2>3 DEF LoopTop, Next1, Goto, InLoop
    <2>4. CASE FoldEnds \/ CloseOrContinue \/ RoundEnds
      <3>1. InLoop /\ ~At("top")
        BY <2>1, <2>4, AtOne DEF FoldEnds, CloseOrContinue, RoundEnds, InLoop
      <3>2. QED BY <2>4, <3>1 DEF FoldEnds, CloseOrContinue, RoundEnds, Next1, Goto
    <2>5. QED BY <2>2, <2>3, <2>4
  <1>2. UNCHANGED <<storeVars, calls>>
    BY DEF StartTurn, LoopTop, FoldEnds, ModelFails, CloseOrContinue, RoundEnds, FinishTurn,
       LeftoverSaved
  <1>3. turn' = turn \/ \E s : turn' = [turn EXCEPT !.state = s]
    BY DEF StartTurn, LoopTop, FoldEnds, ModelFails, CloseOrContinue, RoundEnds, FinishTurn,
       LeftoverSaved, turnVars
  <1>4. turn'.owner = turn.owner
    BY <1>3, TypesOfParts DEF Turns
  <1>5. work'.request = work.request
    BY TypesOfParts DEF StartTurn, LoopTop, FoldEnds, ModelFails, CloseOrContinue, RoundEnds,
       FinishTurn, LeftoverSaved, Drain, Works
  <1> HIDE DEF Quiet
  <1>6. PICK label \in Quiet :
           /\ pc' = [pc EXCEPT ![Owner] = label]
           /\ label \in LoopPCs => InLoop /\ (At("top") => ~session.failed)
    BY <1>1
  <1>7. label \notin {"called", "results", "leftover"}
    BY <1>6 DEF Quiet
  <1>8. QED BY <1>0, <1>2, <1>4, <1>5, <1>6, <1>7, GoesOn

LEMMA RecordingIsPlain ==
    ASSUME Shape, ControlInv,
           RecordUserMessage \/ ModelAnswers \/ RecordWarning \/ RecordReminder
    PROVE  PlainStep
  <1>0. turn # NoTurn /\ Owner \in Messages
    BY TurnIsHeld DEF TurnStep
  <1>1. /\ \E label \in {"top", "finish", "answered", "noted"} : pc' = [pc EXCEPT ![Owner] = label]
        /\ UNCHANGED <<turn, read, calls>>
    BY DEF RecordUserMessage, ModelAnswers, RecordWarning, RecordReminder, Next1, Goto, turnVars
  <1>2. WireFrame
    <2>1. PICK label \in {"top", "finish", "answered", "noted"} : pc' = [pc EXCEPT ![Owner] = label]
      BY <1>1
    <2>2. QED BY <1>0, <1>1, <2>1, FrameMoves
  <1>3. CASE RecordUserMessage
    <2>1. SessionAppend(User(Owner)) /\ work'.request = session'.msgs
      BY <1>3, TypesOfParts DEF RecordUserMessage, AppendUser, Works
    <2>2. LoopFrame(User(Owner))
      <3>1. pc' = [pc EXCEPT ![Owner] = "top"] /\ turn'.owner = turn.owner
        BY <1>1, <1>3 DEF RecordUserMessage, Next1, Goto
      <3>2. At("top")'
        BY <1>0, <3>1, TurnGoesOn
      <3>3. QED BY <2>1, <3>2 DEF LoopFrame
    <2>3. QED BY <1>0, <1>1, <1>2, <2>1, <2>2, NoteIsPlain DEF PlainStep, StoresPlain
  <1>4. CASE ModelAnswers
    <2>1. SessionAppend(Answer) /\ work'.request = Append(work.request, Answer)
      BY <1>4, TypesOfParts DEF ModelAnswers, Works
    <2>2. InLoop /\ ~At("top")
      BY <1>4, AtOne DEF ModelAnswers, InLoop, LoopPCs
    <2>3. LoopFrame(Answer)
      BY <2>1, <2>2 DEF LoopFrame
    <2>4. QED BY <1>1, <1>2, <2>1, <2>3, NoteIsPlain DEF PlainStep, StoresPlain
  <1>5. CASE RecordWarning \/ RecordReminder
    <2>1. SessionAppend(Note) /\ work'.request = Append(work.request, Note)
      BY <1>5, TypesOfParts DEF RecordWarning, RecordReminder, Works
    <2>2. InLoop /\ ~At("top")
      BY <1>5, AtOne DEF RecordWarning, RecordReminder, InLoop, LoopPCs
    <2>3. LoopFrame(Note)
      BY <2>1, <2>2 DEF LoopFrame
    <2>4. QED BY <1>1, <1>2, <2>1, <2>3, NoteIsPlain DEF PlainStep, StoresPlain
  <1>6. QED BY <1>3, <1>4, <1>5

LEMMA FoldingIsPlain ==
    ASSUME Shape, ControlInv, FoldSteer \/ SaveLeftover
    PROVE  PlainStep
  <1>0. turn # NoTurn
    BY TurnIsHeld DEF TurnStep
  <1> DEFINE x == User(Head(work.hand))
  <1>1. /\ work.hand # <<>> /\ SessionAppend(x) /\ UNCHANGED <<pc, turn, read, calls>>
        /\ work'.request \in {work.request, Append(work.request, x)}
        /\ work'.parts = work.parts /\ work'.orphan = work.orphan
        /\ At("fold") \/ At("refold") \/ (At("leftover") /\ work.parts = {})
    BY TypesOfParts DEF FoldSteer, SaveLeftover, AppendUser, Works, turnVars
  <1>2. Plain(x)
    BY <1>1, HandIsInbound, NoteIsPlain
  <1> HIDE DEF x
  <1>3. \A label : At(label)' <=> At(label)
    BY <1>1, TurnPauses
  <1>4. ~At("called") /\ ~At("results")
    BY <1>1, AtOne
  <1>5. Owed' = {} /\ Padded' \subseteq Padded
    BY <1>1, <1>3, <1>4 DEF Owed, Padded
  <1>6. WireFrame
    BY <1>1, <1>3, <1>4, <1>5 DEF WireFrame
  <1>7. LoopFrame(x)
    <2>1. InLoop' <=> InLoop
      BY <1>3 DEF InLoop
    <2>2. ~At("top") /\ (At("leftover") => ~InLoop)
      BY <1>1, AtOne DEF InLoop, LoopPCs
    <2>3. QED BY <1>1, <2>1, <2>2 DEF LoopFrame
  <1>8. QED BY <1>1, <1>2, <1>6, <1>7 DEF PlainStep, StoresPlain

LEMMA RunToolsIsPlain ==
    ASSUME Shape, ControlInv, RunTools
    PROVE  PlainStep
  <1>0. turn # NoTurn /\ At("called")
    BY DEF RunTools, At
  <1>1. UNCHANGED <<storeVars, turn, calls>> /\ work'.request = work.request
    BY TypesOfParts DEF RunTools, turnVars, Works
  <1>2. CASE pc' = [pc EXCEPT ![Owner] = "finish"]
    BY <1>0, <1>1, <1>2, GoesOn DEF LoopPCs
  <1>3. CASE pc' = [pc EXCEPT ![Owner] = "results"] /\ work'.parts = Parts
    <2>1. \A label : At(label)' <=> label = "results"
      BY <1>0, <1>1, <1>3, TurnGoesOn
    <2>2. Owed' = Owed /\ Padded' = {}
      BY <1>0, <1>1, <1>3, <2>1 DEF Owed, Padded
    <2>3. WireFrame
      BY <1>1, <2>1, <2>2 DEF WireFrame
    <2>4. InLoop /\ ~At("top")
      BY <1>0, AtOne DEF InLoop, LoopPCs
    <2>5. LoopFrame(Note)
      BY <1>1, <2>4 DEF LoopFrame
    <2>6. QED BY <1>1, <2>3, <2>5, NoteIsPlain DEF PlainStep, StoresPlain
  <1>4. QED BY <1>2, <1>3, TypesOfParts DEF RunTools, Next1, Goto, Works

LEMMA SlotIsPlain ==
    ASSUME Shape, ControlInv,
           \/ \E m \in Inbound : ReserveWebTurn(m) \/ AcquireTurn(m)
           \/ ReleaseTurn
    PROVE  PlainStep
  <1>1. PICK m \in Inbound, label \in {"started", "ended"} : pc' = [pc EXCEPT ![m] = label]
    <2>1. CASE ReleaseTurn
      BY <2>1, TurnIsHeld DEF TurnStep, ReleaseTurn, Next1, Goto
    <2>2. CASE \E m \in Inbound : ReserveWebTurn(m) \/ AcquireTurn(m)
      BY <2>2 DEF ReserveWebTurn, AcquireTurn, TakeTurn, Goto
    <2>3. QED BY <2>1, <2>2
  <1>2. /\ UNCHANGED <<storeVars, calls>> /\ work' = NoWork
        /\ turn' = NoTurn \/ (\E n : turn'.owner = n /\ n \in Inbound /\ pc'[n] = "started")
    <2>1. CASE ReleaseTurn
      BY <2>1 DEF ReleaseTurn
    <2>2. ASSUME NEW n \in Inbound, ReserveWebTurn(n) \/ AcquireTurn(n)
          PROVE  /\ UNCHANGED <<storeVars, calls>> /\ work' = NoWork
                 /\ turn'.owner = n /\ pc'[n] = "started"
      <3>1. pc \in [Messages -> PCs] /\ n \in Messages
        BY DEF Shape, ControlShape, Messages
      <3>2. QED BY <2>2, <3>1 DEF ReserveWebTurn, AcquireTurn, TakeTurn, Goto
    <2>3. QED BY <2>1, <2>2
  <1>3. \A label2 : label2 # "started" => ~At(label2)'
    BY <1>2 DEF At, Owner
  <1>4. Owed' = {} /\ Padded' = {}
    BY <1>3 DEF Owed, Padded
  <1>5. WireFrame
    BY <1>2, <1>4 DEF WireFrame
  <1>6. work'.request = <<>>
    BY <1>2 DEF NoWork
  <1>7. ~InLoop'
    BY <1>3 DEF InLoop, LoopPCs
  <1>8. QED BY <1>2, <1>5, <1>6, <1>7, NoteIsPlain DEF PlainStep, StoresPlain, LoopFrame

LEMMA OutsideIsPlain ==
    ASSUME Shape, ControlInv,
           \/ \E m \in Inbound : Route(m) \/ WaitTimesOut(m)
           \/ ExecuteTask \/ CleanupIdleQueue \/ StopTurn
           \/ \E g \in Injected : InjectGroupMessage(g) /\ pc[g] = "record"
           \/ \E g \in Injected : WebChatHistory(g)
           \/ ReplicaAppends
    PROVE  PlainStep
  <1>0. /\ pc \in [Messages -> PCs] /\ Inbound \subseteq Messages /\ Injected \subseteq Messages
        /\ Inbound \cap Injected = {} /\ TurnPCs \cap {"new", "waiting", "queued"} = {}
        /\ turn # NoTurn => Owner \in Inbound /\ pc[Owner] \in TurnPCs
    BY ConversationAssumption, Labels DEF Shape, ControlShape, Messages, ControlInv, SlotInv, Owner
  <1>1. ASSUME NEW m \in Inbound, pc[m] \in {"new", "waiting", "queued"},
               \E label : pc' = [pc EXCEPT ![m] = label]
        PROVE  turn # NoTurn => pc'[Owner] = pc[Owner]
    <2>1. turn # NoTurn => Owner # m
      BY <1>0, <1>1
    <2>2. QED BY <1>0, <1>1, <2>1
  <1>2. ASSUME NEW m \in Inbound, Route(m) \/ WaitTimesOut(m) PROVE PlainStep
    <2>1. /\ pc[m] \in {"new", "waiting", "queued"}
          /\ \E label : pc' = [pc EXCEPT ![m] = label]
          /\ UNCHANGED <<turn, work, storeVars, calls>>
      BY <1>2 DEF Route, WaitTimesOut, Goto, turnVars
    <2>2. WireFrame /\ \A x : LoopFrame(x)
      BY <1>1, <2>1, FrameOutside
    <2>3. QED BY <2>1, <2>2, NoteIsPlain DEF PlainStep, StoresPlain
  <1>3. CASE ExecuteTask
    <2>1. /\ chatQueue # <<>> /\ pc' = [pc EXCEPT ![Head(chatQueue)] = "waiting"]
          /\ UNCHANGED <<turn, work, storeVars, calls>>
      BY <1>3 DEF ExecuteTask, Goto, turnVars
    <2>2. /\ 1 \in 1..Len(chatQueue) /\ Head(chatQueue) = chatQueue[1]
      BY <2>1, QueueOf, EmptySeq, HeadTailProperties
    <2>3. Head(chatQueue) \in Inbound /\ pc[Head(chatQueue)] = "queued"
      BY <2>2, QueueOf DEF QueueInv
    <2>4. WireFrame /\ \A x : LoopFrame(x)
      BY <1>1, <2>1, <2>3, FrameOutside
    <2>5. QED BY <2>1, <2>4, NoteIsPlain DEF PlainStep, StoresPlain
  <1>4. CASE CleanupIdleQueue
    <2>1. UNCHANGED <<pc, turn, work, storeVars, calls>>
      BY <1>4 DEF CleanupIdleQueue, turnVars
    <2>2. WireFrame /\ \A x : LoopFrame(x)
      BY <2>1, FrameOutside
    <2>3. QED BY <2>1, <2>2, NoteIsPlain DEF PlainStep, StoresPlain
  <1>5. CASE StopTurn
    <2>1. /\ turn # NoTurn /\ UNCHANGED <<pc, work, storeVars, calls>>
          /\ \E s : turn' = [turn EXCEPT !.cancelled = TRUE, !.state = s]
      BY <1>5 DEF StopTurn
    <2>2. turn'.owner = turn.owner
      BY <2>1, TypesOfParts DEF Turns
    <2>3. turn' # NoTurn
      <3>1. NoTurn.owner = NoMessage
        BY DEF NoTurn
      <3>2. turn.owner # NoMessage
        BY <1>0, <2>1, ConversationAssumption DEF Owner
      <3>3. QED BY <2>2, <3>1, <3>2
    <2>4. WireFrame /\ \A x : LoopFrame(x)
      BY <2>1, <2>2, <2>3, FrameOutside
    <2>5. QED BY <2>1, <2>4, NoteIsPlain DEF PlainStep, StoresPlain
  <1>6. ASSUME NEW g \in Injected, InjectGroupMessage(g), pc[g] = "record" PROVE PlainStep
    <2>1. /\ SessionAppend(User(g)) /\ UNCHANGED <<read, turn, work, calls>>
          /\ pc' = [pc EXCEPT ![g] = "ended"]
      BY <1>6 DEF InjectGroupMessage, AppendUser, Goto, turnVars
    <2>2. turn # NoTurn => pc'[Owner] = pc[Owner]
      BY <1>0, <2>1
    <2>3. WireFrame /\ \A x : LoopFrame(x)
      BY <2>1, <2>2, FrameOutside
    <2>4. Plain(User(g))
      BY <1>0, NoteIsPlain
    <2>5. QED BY <2>1, <2>3, <2>4 DEF PlainStep, StoresPlain
  <1>7. CASE ReplicaAppends
    <2>1. /\ durable'.msgs = Append(durable.msgs, User(Replica))
          /\ UNCHANGED <<pc, turn, work, session, read, calls>>
      BY <1>7 DEF ReplicaAppends, turnVars
    <2>2. WireFrame /\ \A x : LoopFrame(x)
      BY <2>1, FrameOutside
    <2>3. QED BY <2>1, <2>2, NoteIsPlain DEF PlainStep, StoresPlain
  <1>8. ASSUME NEW g \in Injected, WebChatHistory(g) PROVE PlainStep
    <2>1. /\ pc[g] = "record" /\ pc' = [pc EXCEPT ![g] = "ended"]
          /\ UNCHANGED <<turn, work, storeVars, calls>>
      BY <1>8 DEF WebChatHistory, Goto, turnVars
    <2>2. turn # NoTurn => pc'[Owner] = pc[Owner]
      BY <1>0, <2>1
    <2>3. WireFrame /\ \A x : LoopFrame(x)
      BY <2>1, <2>2, FrameOutside
    <2>4. QED BY <2>1, <2>3, NoteIsPlain DEF PlainStep, StoresPlain
  <1>9. QED BY <1>2, <1>3, <1>4, <1>5, <1>6, <1>7, <1>8

(***************************************************************************)
(* Every result that is stored or sent has its call.                        *)
(***************************************************************************)
LEMMA EmptyClosed == Closed(<<>>)
  BY EmptySeq DEF Closed, Indices

LEMMA ClosedAppend ==
    ASSUME NEW msgs \in History, NEW x \in Message, Closed(msgs),
           x.role # "tool" \/ ToolCalls(x.id) \in Range(msgs)
    PROVE  Closed(Append(msgs, x))
  <1> DEFINE new == Append(msgs, x)
  <1>1. /\ Len(msgs) \in Nat /\ DOMAIN new = 1..(Len(msgs) + 1) /\ DOMAIN msgs = 1..Len(msgs)
        /\ new[Len(msgs) + 1] = x
        /\ \A i \in 1..Len(msgs) : new[i] = msgs[i]
        /\ Range(new) = Range(msgs) \cup {x}
    BY HistoryRange, AppendProperties, LenProperties DEF History
  <1> HIDE DEF new
  <1>2. ASSUME NEW j \in Indices(new, "tool")
        PROVE  ToolCalls(new[j].id) \in Range(new)
    <2>1. CASE j = Len(msgs) + 1
      BY <1>1, <1>2, <2>1 DEF Indices
    <2>2. CASE j \in 1..Len(msgs)
      <3>1. j \in Indices(msgs, "tool") /\ new[j] = msgs[j]
        BY <1>1, <1>2, <2>2 DEF Indices
      <3>2. QED BY <1>1, <3>1 DEF Closed
    <2>3. QED BY <1>1, <1>2, <2>1, <2>2 DEF Indices
  <1>3. QED BY <1>2 DEF Closed, new

LEMMA OwedInLoop ==
    /\ Owed # {} => InLoop /\ ~At("top")
    /\ InLoop \/ Owed # {} => Padded = {}
  <1>1. Owed # {} => At("called") \/ At("results")
    BY DEF Owed
  <1>2. Padded # {} => At("leftover")
    BY DEF Padded
  <1>3. QED BY <1>1, <1>2, AtOne DEF InLoop, LoopPCs

\* An append of anything but a result without its call keeps the lists closed.
LEMMA AppendClosed ==
    ASSUME Shape, StoreInv, StoreClosed, NEW x \in Message, SessionAppend(x), UNCHANGED read,
           \/ x.role # "tool"
           \/ session.failed
           \/ ToolCalls(x.id) \in Range(session.msgs) \cup Range(durable.msgs)
    PROVE  /\ StoreClosed'
           /\ session.failed => session'.failed
           /\ ~session'.failed => durable'.msgs = session'.msgs
           /\ Range(durable.msgs) \subseteq Range(durable'.msgs)
           /\ Range(session'.msgs) = Range(session.msgs) \cup {x}
  <1>1. /\ session'.msgs = Append(session.msgs, x)
        /\ durable'.msgs = durable.msgs \/ durable'.msgs = session'.msgs
        /\ durable'.msgs \in {durable.msgs, Append(durable.msgs, x)}
        /\ session.failed => session'.failed
        /\ ~session'.failed => session.msgs = durable.msgs /\ durable'.msgs = session'.msgs
    BY AppendStores DEF Shape
  <1>2. /\ Range(session'.msgs) = Range(session.msgs) \cup {x}
        /\ Range(durable.msgs) \subseteq Range(durable'.msgs)
    <2>1. /\ Range(Append(session.msgs, x)) = Range(session.msgs) \cup {x}
          /\ Range(Append(durable.msgs, x)) = Range(durable.msgs) \cup {x}
      BY HistoriesOf, HistoryRange
    <2>2. QED BY <1>1, <2>1
  <1>3. ~session'.failed => Closed(session'.msgs)
    <2>1. SUFFICES ASSUME ~session'.failed PROVE Closed(session'.msgs)
      OBVIOUS
    <2>2. session.msgs = durable.msgs /\ ~session.failed
      BY <1>1, <2>1
    <2>3. QED BY <1>1, <2>2, HistoriesOf, ClosedAppend DEF StoreClosed
  <1>4. CASE session'.failed
    <2>1. durable'.msgs = durable.msgs
      BY <1>4 DEF SessionAppend, Shape, StoreShape
    <2>2. QED BY <1>1, <1>2, <1>3, <1>4, <2>1 DEF StoreClosed
  <1>5. CASE ~session'.failed
    BY <1>1, <1>2, <1>3, <1>5 DEF StoreClosed
  <1>6. QED BY <1>4, <1>5

LEMMA PlainCalls ==
    ASSUME Shape, StoreInv, CallsInv, PlainStep
    PROVE  CallsInv'
  <1>1. PICK x : Plain(x) /\ StoresPlain(x) /\ WireFrame /\ LoopFrame(x)
    BY DEF PlainStep
  <1>2. x \in Message /\ x.role # "tool"
    BY <1>1 DEF Plain
  <1>3. /\ StoreClosed' /\ (session.failed => session'.failed)
        /\ Range(durable.msgs) \subseteq Range(durable'.msgs)
        /\ Range(session.msgs) \subseteq Range(session'.msgs)
    <2>1. CASE UNCHANGED storeVars
      BY <2>1 DEF storeVars, CallsInv, StoreClosed
    <2>2. CASE SessionAppend(x) /\ UNCHANGED read
      BY <1>2, <2>2, AppendClosed DEF CallsInv
    <2>3. CASE durable'.msgs = Append(durable.msgs, x) /\ UNCHANGED <<session, read>>
      <3>1. Closed(durable'.msgs)
        BY <1>2, <2>3, HistoriesOf, ClosedAppend DEF CallsInv, StoreClosed
      <3>2. Range(durable'.msgs) = Range(durable.msgs) \cup {x}
        BY <1>2, <2>3, HistoriesOf, HistoryRange
      <3>3. QED BY <2>3, <3>1, <3>2 DEF CallsInv, StoreClosed
    <2>4. QED BY <1>1, <2>1, <2>2, <2>3 DEF StoresPlain
  <1>4. /\ Range(Append(work.request, x)) = Range(work.request) \cup {x}
        /\ Closed(work.request) => Closed(Append(work.request, x))
    BY <1>2, HistoriesOf, HistoryRange, ClosedAppend
  <1>5. (Owed # {} => InLoop /\ ~At("top")) /\ (Owed # {} => InLoop /\ ~At("top"))'
    <2>1. Owed # {} => InLoop /\ ~At("top")
      BY OwedInLoop
    <2>2. (Owed # {} => InLoop /\ ~At("top"))'
      BY OwedInLoop, PTL
    <2>3. QED BY <2>1, <2>2
  <1>6. Owed' # {} => Range(work.request) \subseteq Range(work'.request)
    BY <1>1, <1>4, <1>5 DEF LoopFrame
  <1>7. Owed' \subseteq Owed /\ Padded' \subseteq Padded
    BY <1>1 DEF WireFrame
  <1>8. InLoop' => Closed(work'.request) \/ (At("top")' /\ session'.failed)
    <2>1. CASE At("top")' /\ work'.request = session'.msgs
      BY <1>3, <2>1 DEF StoreClosed
    <2>2. CASE /\ InLoop /\ work'.request \in {work.request, Append(work.request, x)}
               /\ At("top") => At("top")' \/ ~session.failed
      BY <1>3, <1>4, <2>2 DEF CallsInv
    <2>3. QED BY <1>1, <2>1, <2>2 DEF LoopFrame
  <1>9. QED BY <1>3, <1>6, <1>7, <1>8 DEF CallsInv

LEMMA CallCalls ==
    ASSUME Shape, ControlInv, StoreInv, CallsInv, ModelCallsTools
    PROVE  CallsInv'
  <1> DEFINE x == ToolCalls(calls + 1)
  <1>1. /\ At("calling") /\ turn # NoTurn
        /\ SessionAppend(x) /\ UNCHANGED read /\ calls' = calls + 1
        /\ work'.request = Append(work.request, x) /\ UNCHANGED turn
        /\ pc' = [pc EXCEPT ![Owner] = "called"]
    BY TypesOfParts DEF ModelCallsTools, Works, At, Next1, Goto, turnVars
  <1>2. \A label : At(label)' <=> label = "called"
    BY <1>1, TurnGoesOn
  <1>3. x \in Message /\ x.role # "tool"
    <2>1. calls \in Nat /\ calls + 1 \in Nat
      BY TypesOfParts
    <2>2. QED BY <2>1, MessageKinds DEF ToolCalls
  <1>4. /\ StoreClosed'
        /\ ~session'.failed => durable'.msgs = session'.msgs
        /\ Range(session'.msgs) = Range(session.msgs) \cup {x}
    BY <1>1, <1>3, AppendClosed DEF CallsInv
  <1>5. Range(work'.request) = Range(work.request) \cup {x} /\ Closed(work'.request)
    <2>1. Closed(work.request)
      BY <1>1, AtOne DEF CallsInv, InLoop, LoopPCs
    <2>2. QED BY <1>1, <1>3, <2>1, HistoriesOf, HistoryRange, ClosedAppend
  <1>6. Owed' = {ToolResult(calls', p) : p \in Parts} /\ Padded' = {}
    BY <1>2 DEF Owed, Padded
  <1>7. \A y \in Owed' : ToolCalls(y.id) = x
    BY <1>1, <1>6 DEF ToolResult
  <1> HIDE DEF x
  <1>8. QED BY <1>4, <1>5, <1>6, <1>7 DEF CallsInv

LEMMA ResultCalls ==
    ASSUME Shape, ControlInv, StoreInv, CallsInv, RecordResult
    PROVE  CallsInv'
  <1> DEFINE part == CHOOSE p \in work.parts : \A q \in work.parts : p <= q
             x == ToolResult(calls, part)
  <1>1. /\ At("results") /\ part \in work.parts /\ work.parts \subseteq Parts
        /\ SessionAppend(x) /\ UNCHANGED <<read, calls, pc, turn>>
        /\ work'.request = Append(work.request, x) /\ work'.parts = work.parts \ {part}
    BY TypesOfParts, SmallestPart DEF RecordResult, Works, turnVars
  <1> HIDE DEF part
  <1>2. /\ \A label : At(label) <=> label = "results"
        /\ \A label : At(label)' <=> label = "results"
    <2>1. \A label : At(label) <=> label = "results"
      BY <1>1, AtOne
    <2>2. QED BY <1>1, <2>1, TurnPauses
  <1>3. /\ x \in Owed /\ Owed' \subseteq Owed /\ Padded' = {}
        /\ \A y \in Owed : y.id = calls
    BY <1>1, <1>2 DEF Owed, Padded, ToolResult
  <1>4. /\ x.id = calls /\ x \in Message
        /\ ToolCalls(x.id) \in Range(work.request)
        /\ session.failed \/ ToolCalls(x.id) \in Range(durable.msgs)
    BY <1>3, OwedAreResults DEF CallsInv
  <1> HIDE DEF x
  <1>5. /\ StoreClosed' /\ (session.failed => session'.failed)
        /\ Range(durable.msgs) \subseteq Range(durable'.msgs)
    BY <1>1, <1>4, AppendClosed DEF CallsInv
  <1>6. Range(work'.request) = Range(work.request) \cup {x} /\ Closed(work'.request)
    <2>1. Closed(work.request)
      BY <1>2 DEF CallsInv, InLoop, LoopPCs
    <2>2. QED BY <1>1, <1>4, <2>1, HistoriesOf, HistoryRange, ClosedAppend
  <1>7. QED BY <1>3, <1>4, <1>5, <1>6 DEF CallsInv

LEMMA PadBeginsCalls ==
    ASSUME Shape, ControlInv, WireInv, CallsInv, PadBegins
    PROVE  CallsInv'
  <1>1. /\ At("pad") /\ turn # NoTurn
        /\ UNCHANGED <<session, read, durable, turn, calls>>
        /\ work'.parts = Unanswered(session.msgs) /\ work'.orphan = LatestCall(session.msgs)
        /\ pc' = [pc EXCEPT ![Owner] = "leftover"]
    BY TypesOfParts DEF PadBegins, Works, At, Next1, Goto, turnVars, storeVars
  <1>2. \A label : At(label)' <=> label = "leftover"
    BY <1>1, TurnGoesOn
  <1>3. /\ Owed' = {} /\ ~InLoop'
        /\ Padded' = {ToolResult(LatestCall(session.msgs), p) : p \in Unanswered(session.msgs)}
    BY <1>1, <1>2 DEF Owed, Padded, InLoop, LoopPCs
  <1>4. /\ HistoryOK(session.msgs, calls) /\ session.msgs \in History /\ calls \in Nat
    BY HistoriesOf DEF WireInv, ListsOK
  <1>5. ASSUME NEW x \in Padded'
        PROVE  ToolCalls(x.id) \in Range(session.msgs)
    BY <1>3, <1>4, UnansweredIsAbsent DEF ToolResult
  <1>6. StoreClosed'
    BY <1>1 DEF CallsInv, StoreClosed
  <1>7. QED BY <1>1, <1>3, <1>5, <1>6 DEF CallsInv

LEMMA PadCalls ==
    ASSUME Shape, ControlInv, StoreInv, CallsInv, PadOrphan
    PROVE  CallsInv'
  <1> DEFINE part == Min(work.parts)
             x == ToolResult(work.orphan, part)
  <1>1. /\ At("leftover") /\ part \in work.parts /\ work.parts \subseteq Parts
        /\ SessionAppend(x) /\ UNCHANGED <<read, calls, pc, turn>>
        /\ work'.parts = work.parts \ {part} /\ work'.orphan = work.orphan
    BY TypesOfParts, SmallestPart DEF PadOrphan, Works, turnVars, ghostVars
  <1> HIDE DEF part
  <1>2. /\ \A label : At(label) <=> label = "leftover"
        /\ \A label : At(label)' <=> label = "leftover"
    <2>1. \A label : At(label) <=> label = "leftover"
      BY <1>1, AtOne
    <2>2. QED BY <1>1, <2>1, TurnPauses
  <1>3. x \in Padded /\ Padded' \subseteq Padded /\ Owed' = {} /\ ~InLoop'
    BY <1>1, <1>2 DEF Owed, Padded, InLoop, LoopPCs
  <1>4. x \in Message /\ (session.failed \/ ToolCalls(x.id) \in Range(session.msgs))
    BY <1>3, OwedAreResults DEF CallsInv
  <1> HIDE DEF x
  <1>5. /\ StoreClosed' /\ (session.failed => session'.failed)
        /\ Range(session'.msgs) = Range(session.msgs) \cup {x}
    BY <1>1, <1>4, AppendClosed DEF CallsInv
  <1>6. QED BY <1>3, <1>5 DEF CallsInv

\* A Get leaves closed lists behind; it clears a failure only if it completes.
LEMMA GetsClosed ==
    ASSUME Shape, StoreClosed, shadowed \in BOOLEAN, NEW m \in Messages,
           NEW installing, NEW next, GetLoads(m, installing, next) \/ GetInstalls(m, next)
    PROVE  /\ StoreClosed' /\ UNCHANGED durable
           /\ \/ UNCHANGED session.failed /\ UNCHANGED session.msgs
              \/ session'.failed
              \/ shadowed' = (shadowed \/ HidesFromTurn)
  <1>1. CASE session.cached /\ GetLoads(m, installing, next)
    <2>1. UNCHANGED <<session, durable>> /\ read' = [read EXCEPT ![m] = durable]
      BY <1>1 DEF GetLoads
    <2>2. \A n \in Messages : read'[n] \in {read[n], durable}
      BY <2>1 DEF Shape, StoreShape
    <2>3. QED BY <2>1, <2>2 DEF StoreClosed
  <1>2. CASE ~session.cached /\ GetLoads(m, installing, next)
    <2>1. PICK failed \in BOOLEAN :
              /\ GetCompletes(failed)
              /\ session' = [cached |-> TRUE, failed |-> failed,
                             msgs |-> IF failed THEN <<>> ELSE durable.msgs,
                             rev |-> IF failed THEN 0 ELSE durable.rev]
      BY <1>2 DEF GetLoads
    <2>2. UNCHANGED <<read, durable>>
      BY <1>2 DEF GetLoads
    <2>3. StoreClosed'
      BY <2>1, <2>2 DEF StoreClosed
    <2>4. QED BY <2>1, <2>2, <2>3 DEF GetCompletes
  <1>3. CASE GetInstalls(m, next)
    <2>1. PICK failed \in BOOLEAN :
              /\ GetCompletes(failed)
              /\ session' = IF failed THEN [session EXCEPT !.failed = TRUE]
                            ELSE [session EXCEPT !.msgs = read[m].msgs, !.rev = read[m].rev,
                                                 !.failed = FALSE]
      BY <1>3 DEF GetInstalls
    <2>2. UNCHANGED durable /\ \A n \in Messages : read'[n] \in {read[n], NoRead}
      BY <1>3 DEF GetInstalls, Shape, StoreShape
    <2>3. /\ failed => session'.failed
          /\ ~failed => session'.msgs = read[m].msgs
      BY <2>1 DEF Shape, StoreShape
    <2>4. StoreClosed'
      BY <2>1, <2>2, <2>3, EmptyClosed DEF StoreClosed, NoRead
    <2>5. QED BY <2>1, <2>2, <2>3, <2>4 DEF GetCompletes
  <1>4. QED BY <1>1, <1>2, <1>3

LEMMA OwnerGetsCalls ==
    ASSUME Shape, ControlInv, CallsInv, shadowed \in BOOLEAN,
           LoadSession \/ InstallSession \/ LoadForLeftover \/ InstallForLeftover
    PROVE  CallsInv'
  <1>1. /\ turn # NoTurn /\ Owner \in Messages /\ turn'.owner = turn.owner
        /\ \E installing \in {"install", "installLeftover"}, next \in {"record", "pad"} :
              GetLoads(Owner, installing, next) \/ GetInstalls(Owner, next)
    BY OwnerOf, TypesOfParts
    DEF LoadSession, InstallSession, LoadForLeftover, InstallForLeftover, ControlInv, BindSession,
        Turns, turnVars
  <1>2. PICK installing \in {"install", "installLeftover"}, next \in {"record", "pad"} :
           GetLoads(Owner, installing, next) \/ GetInstalls(Owner, next)
    BY <1>1
  <1>3. StoreClosed'
    BY <1>1, <1>2, GetsClosed DEF CallsInv
  <1>4. \E label \in {"install", "installLeftover", "record", "pad"} :
           pc' = [pc EXCEPT ![Owner] = label]
    BY <1>2 DEF GetLoads, GetInstalls, Goto
  <1>5. PICK label \in {"install", "installLeftover", "record", "pad"} :
           pc' = [pc EXCEPT ![Owner] = label]
    BY <1>4
  <1>6. \A other : At(other)' <=> other = label
    BY <1>1, <1>5, TurnGoesOn
  <1>7. Owed' = {} /\ Padded' = {} /\ ~InLoop'
    BY <1>6 DEF Owed, Padded, InLoop, LoopPCs
  <1>8. QED BY <1>3, <1>7 DEF CallsInv

LEMMA InjectedGetsCalls ==
    ASSUME Shape, ControlInv, CallsInv, shadowed \in BOOLEAN, ~shadowed',
           NEW g \in Injected, InjectGroupMessage(g), pc[g] # "record"
    PROVE  CallsInv'
  <1>1. /\ g \in Messages /\ g \notin Inbound
        /\ UNCHANGED <<turn, work, calls>>
        /\ GetLoads(g, "install", "record") \/ GetInstalls(g, "record")
    BY ConversationAssumption DEF InjectGroupMessage, Messages, turnVars
  <1>2. turn # NoTurn => pc'[Owner] = pc[Owner]
    <2>1. turn # NoTurn => Owner # g /\ Owner \in Messages
      BY <1>1, ConversationAssumption DEF ControlInv, SlotInv, Owner, Messages
    <2>2. \E label : pc' = [pc EXCEPT ![g] = label]
      BY <1>1 DEF GetLoads, GetInstalls, Goto
    <2>3. QED BY <2>1, <2>2 DEF Shape, ControlShape
  <1>3. Owed' = Owed /\ Padded' = Padded /\ \A label : At(label)' <=> At(label)
    BY <1>1, <1>2, TurnUntouched
  <1>4. InLoop' <=> InLoop
    BY <1>3 DEF InLoop
  <1>5. /\ StoreClosed' /\ UNCHANGED durable
        /\ \/ UNCHANGED session.failed /\ UNCHANGED session.msgs
           \/ session'.failed
           \/ ~HidesFromTurn
    BY <1>1, GetsClosed DEF CallsInv
  <1>6. Padded # {} => HidesFromTurn
    BY DEF Padded, HidesFromTurn
  <1>7. Owed # {} => InLoop
    BY OwedInLoop
  <1>8. CASE ~HidesFromTurn
    <2>1. Padded = {} /\ (InLoop => ~session.failed)
      BY <1>6, <1>8 DEF HidesFromTurn
    <2>2. QED BY <1>1, <1>3, <1>4, <1>5, <1>7, <2>1 DEF CallsInv
  <1>9. CASE session'.failed
    BY <1>1, <1>3, <1>4, <1>5, <1>9 DEF CallsInv
  <1>10. CASE UNCHANGED session.failed /\ UNCHANGED session.msgs
    BY <1>1, <1>3, <1>4, <1>5, <1>10 DEF CallsInv
  <1>11. QED BY <1>5, <1>8, <1>9, <1>10

LEMMA RestartCalls ==
    ASSUME Shape, CallsInv, Restart
    PROVE  CallsInv'
  <1>1. /\ UNCHANGED durable /\ session'.msgs = <<>> /\ turn' = NoTurn
        /\ \A m \in Messages : read'[m].msgs = <<>>
    BY DEF Restart, NoSession, NoRead
  <1>2. \A label : ~At(label)'
    BY <1>1 DEF At
  <1>3. Owed' = {} /\ Padded' = {} /\ ~InLoop'
    BY <1>2 DEF Owed, Padded, InLoop
  <1>4. QED BY <1>1, <1>3, EmptyClosed DEF CallsInv, StoreClosed

LEMMA CallsInit ==
    ASSUME ConversationInit
    PROVE  CallsInv
  <1> USE DEF ConversationInit
  <1>1. /\ durable.msgs = <<>> /\ session.msgs = <<>>
        /\ \A m \in Messages : read[m].msgs = <<>>
        /\ \A label : ~At(label)
    BY DEF NoRead, NoSession, NoWork, At
  <1>2. Owed = {} /\ Padded = {} /\ ~InLoop
    BY <1>1 DEF Owed, Padded, InLoop
  <1>3. QED BY <1>1, <1>2, EmptyClosed DEF CallsInv, StoreClosed

LEMMA CallsStep ==
    ASSUME ConversationInv, WireInv, CallsInv, [ConversationNext]_conversationVars, ~shadowed'
    PROVE  CallsInv'
  <1>1. Shape /\ ControlInv /\ StoreInv /\ shadowed \in BOOLEAN
    BY DEF ConversationInv
  <1>2. CASE UNCHANGED conversationVars
    BY <1>2
    DEF conversationVars, CallsInv, StoreClosed, Owed, Padded, InLoop, At, Owner
  <1>3. CASE ConversationNext
    <2>1. CASE \E g \in Injected : InjectGroupMessage(g)
      BY <1>1, <1>3, <2>1, InjectedGetsCalls, OutsideIsPlain, PlainCalls
    <2>2. CASE TurnStep
      BY <1>1, <2>2, QuietTurnIsPlain, RecordingIsPlain, FoldingIsPlain, RunToolsIsPlain,
         SlotIsPlain, PlainCalls, OwnerGetsCalls, CallCalls, ResultCalls, PadBeginsCalls,
         PadCalls
      DEF TurnStep
    <2>3. CASE Restart
      BY <1>1, <2>3, RestartCalls
    <2>4. CASE \/ \E m \in Inbound :
                     Route(m) \/ ReserveWebTurn(m) \/ AcquireTurn(m) \/ WaitTimesOut(m)
               \/ ExecuteTask \/ CleanupIdleQueue \/ StopTurn \/ ReplicaAppends
               \/ \E g \in Injected : WebChatHistory(g)
      BY <1>1, <2>4, SlotIsPlain, OutsideIsPlain, PlainCalls
    <2>5. QED BY <1>3, <2>1, <2>2, <2>3, <2>4 DEF ConversationNext
  <1>4. QED BY <1>2, <1>3

(***************************************************************************)
(* Requests are accepted while nothing is hidden from the turns.            *)
(***************************************************************************)
LEMMA WireInit ==
    ASSUME ConversationInit
    PROVE  WireInv
  <1> USE DEF ConversationInit
  <1>1. /\ durable.msgs = <<>> /\ session.msgs = <<>> /\ work.request = <<>>
        /\ \A m \in Messages : read[m].msgs = <<>>
        /\ \A label : ~At(label)
    BY DEF NoRead, NoSession, NoWork, At
  <1>2. Owed = {} /\ Padded = {}
    BY <1>1 DEF Owed, Padded
  <1>3. QED BY <1>1, <1>2, EmptyOK, EmptyRange DEF WireInv, ListsOK, FreshOK

LEMMA WireStep ==
    ASSUME ConversationInv, WireInv, [ConversationNext]_conversationVars, ~shadowed'
    PROVE  WireInv'
  <1>1. Shape /\ ControlInv /\ StoreInv /\ shadowed \in BOOLEAN
    BY DEF ConversationInv
  <1>2. CASE UNCHANGED conversationVars
    BY <1>2
    DEF conversationVars, WireInv, ListsOK, FreshOK, Owed, Padded, At, Owner
  <1>3. CASE ConversationNext
    <2>1. CASE \E g \in Injected : InjectGroupMessage(g)
      BY <1>1, <1>3, <2>1, InjectedGetsKept, OutsideIsPlain, PlainKept
    <2>2. CASE TurnStep
      BY <1>1, <2>2, QuietTurnIsPlain, RecordingIsPlain, FoldingIsPlain, RunToolsIsPlain,
         SlotIsPlain, PlainKept, OwnerGetsKept, CallKept, ResultKept, PadBeginsKept, PadKept
      DEF TurnStep
    <2>3. CASE Restart
      BY <1>1, <2>3, RestartWires
    <2>4. CASE \/ \E m \in Inbound :
                     Route(m) \/ ReserveWebTurn(m) \/ AcquireTurn(m) \/ WaitTimesOut(m)
               \/ ExecuteTask \/ CleanupIdleQueue \/ StopTurn \/ ReplicaAppends
               \/ \E g \in Injected : WebChatHistory(g)
      BY <1>1, <2>4, SlotIsPlain, OutsideIsPlain, PlainKept
    <2>5. QED BY <1>3, <2>1, <2>2, <2>3, <2>4 DEF ConversationNext
  <1>4. QED BY <1>2, <1>3

Unspoiled == ~shadowed => WireInv /\ CallsInv

\* As long as nothing is hidden from the turns, all lists are in order.
LEMMA UnspoiledStays == ConversationSpec => []Unspoiled
  <1>1. ConversationInit => Unspoiled
    BY WireInit, CallsInit DEF Unspoiled
  <1>2. ConversationInv /\ Unspoiled /\ [ConversationNext]_conversationVars => Unspoiled'
    <2>1. SUFFICES ASSUME ConversationInv, Unspoiled, [ConversationNext]_conversationVars,
                          ~shadowed'
                   PROVE  WireInv' /\ CallsInv'
      BY DEF Unspoiled
    <2>2. ~shadowed
      BY <2>1, ShadowStep DEF ConversationInv, ControlInv, conversationVars
    <2>3. WireInv /\ CallsInv
      BY <2>1, <2>2 DEF Unspoiled
    <2>4. QED BY <2>1, <2>3, WireStep, CallsStep
  <1>3. QED BY <1>1, <1>2, ConversationInvariant, PTL DEF ConversationSpec

\* Every request to Anthropic is one that the API accepts, with any number of
\* messages, readers, stops, failed saves, restarts and writes of other replicas:
\* each reply follows its call, and no call is answered twice, unless a Get outside
\* the turns made the loop believe that a failed save went through or replaced the
\* list under the padding (anthropic.go 60-96, loop.go 2852-2895, manager.go
\* 312-375).
THEOREM RequestsAreAccepted == ConversationSpec => []AnthropicAccepts
  <1>1. ASSUME ConversationInv, Unspoiled PROVE AnthropicAccepts
    <2>1. SUFFICES ASSUME At("calling"), ~shadowed
                   PROVE  WellPaired(work.request, AnthropicReplies(work.request))
      BY DEF AnthropicAccepts
    <2>2. work.request \in History /\ calls \in Nat /\ HistoryOK(work.request, calls)
      BY <1>1, <2>1, HistoriesOf DEF ConversationInv, Unspoiled, WireInv
    <2>3. Closed(work.request)
      BY <1>1, <2>1, AtOne DEF Unspoiled, CallsInv, InLoop, LoopPCs
    <2>4. QED BY <2>2, <2>3, PairedIsAccepted
  <1>2. QED BY <1>1, ConversationInvariant, UnspoiledStays, PTL
=============================================================================
