------------------------------ MODULE MCProgress ------------------------------
(***************************************************************************)
(* Instances for TLC of the components with something that must happen in  *)
(* the end.  As in MCComponents one of them is picked and runs alone, under*)
(* its own fairness.                                                       *)
(***************************************************************************)
EXTENDS EventStream, ServiceControl, Loader, TaskScheduler

CONSTANT Focuses    \* the components that are run

VARIABLE focus

Everything == <<streamVars, controlVars, loaderVars, vars, focus>>

ProgressInit ==
    /\ focus \in Focuses
    /\ StreamInit /\ ControlInit /\ LoaderInit /\ Init

ProgressNext ==
    /\ UNCHANGED focus
    /\ \/ focus = "stream" /\ StreamNext /\ UNCHANGED <<controlVars, loaderVars, vars>>
       \/ focus = "control" /\ ControlNext /\ UNCHANGED <<streamVars, loaderVars, vars>>
       \/ focus = "loader" /\ LoaderNext /\ UNCHANGED <<streamVars, controlVars, vars>>
       \/ focus = "task" /\ Next /\ UNCHANGED <<streamVars, controlVars, loaderVars>>

ProgressSpec ==
    /\ ProgressInit /\ [][ProgressNext]_Everything
    /\ \/ focus = "stream" /\ StreamFairness
       \/ focus = "control" /\ ControlFairness
       \/ focus = "loader" /\ LoaderFairness
       \/ focus = "task" /\ Fairness

MCAppOf == [t \in Tasks |-> "app"]
=============================================================================
