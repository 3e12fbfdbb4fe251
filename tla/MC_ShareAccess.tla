--------------------------- MODULE MC_ShareAccess ---------------------------
\* Instances of ShareAccess for TLC.
EXTENDS ShareAccess, TLC

Symmetry == Permutations(Visits) \union Permutations(Shares)
=============================================================================
