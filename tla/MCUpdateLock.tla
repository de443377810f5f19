---- MODULE MCUpdateLock ----
EXTENDS UpdateLock, TLC
Symmetry == Permutations(Writers) \cup Permutations(Probes)
====
