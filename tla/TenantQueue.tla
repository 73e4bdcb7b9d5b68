------------------------------ MODULE TenantQueue ------------------------------
(***************************************************************************)
(* What the Redis scripts of a fair-queue resource promise their callers:    *)
(* one first-in, first-out queue of tenants.  A tenant waits, is served, or  *)
(* is out.  A request for a tenant that is being served is remembered: the   *)
(* tenant cannot leave before it has waited and been served again.           *)
(***************************************************************************)
EXTENDS Integers, Sequences, FiniteSets, Functions

CONSTANT Tenants

VARIABLES
    waiting,    \* the tenants that wait, first in line first
    served,     \* the tenants that are being served
    requested   \* those of them for which a request came since they are

queueVars == <<waiting, served, requested>>

Init == waiting = <<>> /\ served = {} /\ requested = {}

\* The sequences that list S without repetition.
Orders(S) ==
    {f \in [1..Cardinality(S) -> S] : \A i, j \in 1..Cardinality(S) : f[i] = f[j] => i = j}

Request(t) ==
    \/ /\ t \in served
       /\ requested' = requested \cup {t}
       /\ UNCHANGED <<waiting, served>>
    \/ /\ t \notin served /\ t \notin Range(waiting)
       /\ waiting' = Append(waiting, t)
       /\ UNCHANGED <<served, requested>>

Serve ==
    /\ waiting # <<>>
    /\ waiting' = Tail(waiting)
    /\ served' = served \cup {Head(waiting)}
    /\ UNCHANGED requested

\* Tenants whose service ended or timed out wait again, in some order.
Return(S) ==
    /\ S # {}
    /\ \E order \in Orders(S) : waiting' = waiting \o order
    /\ served' = served \ S
    /\ requested' = requested \ S

Leave(t) ==
    /\ t \in served \ requested
    /\ served' = served \ {t}
    /\ UNCHANGED <<waiting, requested>>

Next ==
    \/ \E t \in Tenants : Request(t) \/ Leave(t)
    \/ Serve
    \/ \E S \in SUBSET served : Return(S)

Spec == Init /\ [][Next]_queueVars
================================================================================
