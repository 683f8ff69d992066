--------------------------- MODULE MCThreadFamily ---------------------------
EXTENDS ThreadFamily, TLC
Symmetry == Permutations(Workers) \cup Permutations(Clusters)
=============================================================================
