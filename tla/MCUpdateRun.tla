----------------------------- MODULE MCUpdateRun -----------------------------
EXTENDS UpdateRun, TLC
Symmetry == Permutations(Refs)
=============================================================================
