----------------------------- MODULE MC_Collab ------------------------------
EXTENDS CollabRooms, TLC
Symmetry == Permutations(Sockets) \union Permutations(Docs)
              \union Permutations(Instances) \union Permutations(Auths)
=============================================================================
