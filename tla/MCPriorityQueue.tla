-------------------------- MODULE MCPriorityQueue --------------------------
(* Five sleepers, pids 1 to 5, fill a heap of three levels; two wake-up    *)
(* ticks give equal and different keys.                                    *)
EXTENDS PriorityQueue
=============================================================================
