---------------------------- MODULE MCVirtioDisk ----------------------------
EXTENDS VirtioDisk

MCProcs  == {11, 12, 13}
=============================================================================
