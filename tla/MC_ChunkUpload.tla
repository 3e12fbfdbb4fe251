--------------------------- MODULE MC_ChunkUpload ---------------------------
\* Instances of ChunkUpload for TLC: the sets of faults of each run, and the
\* symmetry of node and request identities (safety runs only).
EXTENDS ChunkUpload, TLC

AllFaults == FaultKinds
NetworkFaults == {"refuse", "lostReply"}
TimeoutFaults == {"timeout"}

Symmetry == Permutations(Nodes) \union Permutations(Requests)
=============================================================================
