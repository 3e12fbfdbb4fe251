---------------------------- MODULE MC_Accounts -----------------------------
\* Instance of Accounts for TLC.
EXTENDS Accounts, TLC

Symmetry == Permutations(Devices) \union Permutations(Requests)
              \union Permutations(Passwords)
=============================================================================
