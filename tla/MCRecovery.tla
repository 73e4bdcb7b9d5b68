------------------------------ MODULE MCRecovery ------------------------------
(* FairRecovery on one task. *)
EXTENDS FairRecovery, TLC

CONSTANTS x1, t1, r1, r2, o1, o2

OneTask == x1 :> t1

Scenario(procs, tasks, stop, loss, diverge) ==
    [procs |-> procs, tasks |-> tasks, stop |-> stop, loss |-> loss, diverge |-> diverge]

TwoRuntimes == Scenario({r1, r2}, {"running"}, 1, 0, 0)
TwiceInterrupted == Scenario({r1, o1}, {"published"}, 2, 0, 0)

\* Safety: two runtimes that find the state damaged while a delivery is held, two
\* operators and a loss, a command interrupted twice, a command after damage.
Rebuilds == {TwoRuntimes, TwiceInterrupted,
             Scenario({r1, r2}, {"published"}, 0, 0, 1),
             Scenario({r1, o1, o2}, {"published"}, 1, 1, 0),
             Scenario({r1, o1}, {"absent", "published"}, 1, 0, 1)}

\* Liveness: two runtimes, or a runtime and a command that is rerun.
NormalAndForce == {TwoRuntimes, TwiceInterrupted, Scenario({r1, r2}, {"absent"}, 0, 0, 0)}

Interrupted == {TwoRuntimes}
===============================================================================
