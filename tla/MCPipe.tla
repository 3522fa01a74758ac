------------------------------- MODULE MCPipe -------------------------------
(* Three processes share a pipe of two bytes: two on the same end compete, *)
(* and a transfer that finds the ring partly filled has to block.          *)
EXTENDS Pipe, TLC

CONSTANTS p1, p2, p3

MCProcs == {p1, p2, p3}
Sym == Permutations(MCProcs)
=============================================================================
