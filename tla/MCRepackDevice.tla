--------------------------- MODULE MCRepackDevice ---------------------------
EXTENDS RepackDevice, TLC

Symmetry == Permutations(Workers) \cup Permutations(Inodes)
=============================================================================
