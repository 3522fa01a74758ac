------------------------------- MODULE MCTty -------------------------------
EXTENDS Tty, TLC

ReaderSymmetry == Permutations(Readers)
=============================================================================
