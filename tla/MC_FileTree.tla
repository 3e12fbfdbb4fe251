----------------------------- MODULE MC_FileTree ----------------------------
\* Instances of FileTree for TLC.
EXTENDS FileTree, TLC

Symmetry == Permutations(Nodes)
=============================================================================
