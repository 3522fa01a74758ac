------------------------------ MODULE MCSched ------------------------------
(* The instance of Sched that TLC checks: two harts, as the makefile       *)
(* builds it (CPUS = 2).                                                   *)
EXTENDS Sched
=============================================================================
