--------------------------- MODULE MCTaskScheduler ---------------------------
(* Instances of TaskScheduler for TLC: which App each task belongs to.      *)
EXTENDS TaskSchedulerInv

CONSTANTS t1, t2, a1, a2

OneApp == [t \in Tasks |-> a1]
=============================================================================
