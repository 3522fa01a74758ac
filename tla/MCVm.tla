-------------------------------- MODULE MCVm --------------------------------
EXTENDS Vm, TLC

MCSizes == <<2, 4>>

ProcSymmetry == Permutations(Procs)
=============================================================================
