---------------------------- MODULE MCItemWrites ----------------------------
EXTENDS ItemWrites, TLC

CONSTANTS r1, r2, r3, f1, f2

Symmetry == Permutations(Requests) \cup Permutations(Files)
=============================================================================
