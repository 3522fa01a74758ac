----------------------------- MODULE MCWaitExit -----------------------------
(* WaitExit as TLC checks it.  With NPROC = 5 there are init and three     *)
(* more pids, so that an orphan meets siblings; with NPROC = 4, init has   *)
(* two children or a child with a child of its own.  Pids are reused as    *)
(* soon as a zombie is reaped.                                             *)
EXTENDS WaitExit
=============================================================================
