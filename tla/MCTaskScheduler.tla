-------------------------- MODULE MCTaskScheduler --------------------------
(* The instance of TaskScheduler for TLC: the scheduler s and two callers.   *)
EXTENDS TaskScheduler

CONSTANTS s, a, b, e1, e2, e3
=============================================================================
