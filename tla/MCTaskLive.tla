------------------------------ MODULE MCTaskLive ------------------------------
(* Two parts of a process that share no state: the tasks k1 and k3 of two       *)
(* documents, and the worker runtime.  A behaviour gives work to one of them.   *)
EXTENDS MCTask, FairRuntime

CONSTANTS c1

Quiet == [permits |-> {}, dispatches |-> {}, stop |-> FALSE, fatal |-> 0, opens |-> 0,
          rebuilds |-> 0, expire |-> 0, slow |-> 0, fault |-> 0]

\* Shutdown and fatal errors with two permits; a rebuild under an attempt and a
\* run, with a failed call and an exhausted budget; one permit with failing calls;
\* a dispatch across an opening of the gates.
Serve ==
    {[Quiet EXCEPT !.permits = {1, 2}, !.stop = TRUE, !.fatal = 1],
     [Quiet EXCEPT !.permits = {1}, !.stop = TRUE, !.opens = 1, !.rebuilds = 1, !.slow = 1,
                   !.fault = 1],
     [Quiet EXCEPT !.permits = {1}, !.stop = TRUE, !.opens = 1, !.fault = 1, !.expire = 1,
                   !.slow = 1],
     [Quiet EXCEPT !.permits = {1}, !.dispatches = {c1}, !.stop = TRUE, !.fatal = 1,
                   !.opens = 1]}

MCScenarios == Serve \cup {Quiet}

TaskLiveNext ==
    \/ bound = Quiet /\ Next /\ UNCHANGED runtimeVars
    \/ bound # Quiet /\ RuntimeNext /\ UNCHANGED vars

\* What has no work has no step that fairness asks for.
TaskLiveSpec ==
    /\ Init /\ RuntimeInit /\ [][TaskLiveNext]_<<vars, runtimeVars>>
    /\ Fairness /\ RuntimeFairness
===============================================================================
