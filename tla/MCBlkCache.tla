----------------------------- MODULE MCBlkCache -----------------------------
(* Two or three processes, three blocks and two buffers: buffers are       *)
(* recycled, clean and dirty, and with three readers processes sleep.      *)
EXTENDS BlkCache, TLC

CONSTANTS p1, p2, p3

TwoProcs   == {p1, p2}
ThreeProcs == {p1, p2, p3}
SymTwo     == Permutations(TwoProcs)
SymThree   == Permutations(ThreeProcs)

(* When the cache has given up every block there is nothing left to check. *)
SomeSound == spoilt # Blocks
=============================================================================
