---------------------------- MODULE MCScheduler ----------------------------
(* Two processes and two tenants. *)
EXTENDS FairScheduler, TLC

CONSTANTS t1, t2, k1, k2

\* One task per tenant, or both tasks in one tenant.
TwoTenants == (k1 :> t1) @@ (k2 :> t2)
OneTenant == (k1 :> t1) @@ (k2 :> t1)

NoFailure == [tasks |-> Tasks, crashes |-> 0, deferrals |-> 0, redundant |-> 0, passes |-> 0]
One == [NoFailure EXCEPT !.tasks = {k1}]

\* Any one failure of two tasks.
AnyFailure == {[NoFailure EXCEPT !.deferrals = 1]}

\* Two tasks without a failure; one task with any two failures, with one and a crash
\* or a pass of the reconciler, or with activations that are not needed.
CrashOrPass ==
    {NoFailure, [One EXCEPT !.deferrals = 2], [One EXCEPT !.deferrals = 1, !.crashes = 1],
     [One EXCEPT !.deferrals = 1, !.passes = 1], [One EXCEPT !.redundant = 1]}

MCStables == Tasks \X (1..MaxClaims + 1)
Symmetry == Permutations(Procs) \cup Permutations(Tasks)
============================================================================
