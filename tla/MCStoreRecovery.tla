--------------------------- MODULE MCStoreRecovery ---------------------------
EXTENDS StoreRecovery, TLC

Symmetry == Permutations(Account) \cup Permutations(Name)
==============================================================================
