---------------------------- MODULE MCSnapshotStore ----------------------------
EXTENDS SnapshotStore, TLC
Symmetry == Permutations(Refs) \cup Permutations(Scratch)
              \cup Permutations(Readers) \cup Permutations(Writers)

Everywhere == Steps \ {"off"}
=============================================================================
