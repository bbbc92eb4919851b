---------------------------- MODULE MCTaskQueue ----------------------------
EXTENDS TaskQueue, TLC

CONSTANTS t1, t2, t3

Symmetry == Permutations(Calls)
=============================================================================
