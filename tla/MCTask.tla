------------------------------- MODULE MCTask -------------------------------
(* Tasks k1 and k2, one after the other of document d1, and k3 of document d2. *)
EXTENDS FairTask, TLC

CONSTANTS k1, k2, k3, d1, d2, u1, u2, w1, w2, p1

Documents == [k \in Tasks |-> IF k = k3 THEN d2 ELSE d1]
OneUser == [d \in Docs |-> u1]
TwoUsers == (d1 :> u1) @@ (d2 :> u2)
OneProcess == [w \in Slots |-> p1]

\* Two tasks of one document with any one fault, or with a user disabled and
\* enabled again; or two documents that compete, with any one fault.
SupersedeOrCompete ==
    {[tasks |-> {k1, k2}, faults |-> 1, reenables |-> 0],
     [tasks |-> {k1, k2}, faults |-> 0, reenables |-> 1],
     [tasks |-> {k1, k3}, faults |-> 1, reenables |-> 0]}
Compete == {[tasks |-> {k1, k3}, faults |-> 1, reenables |-> 0]}
Reenabled == {[tasks |-> {k1, k3}, faults |-> 0, reenables |-> 1]}

Symmetry == Permutations(Slots)
============================================================================
