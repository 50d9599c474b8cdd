---------------------------- MODULE MCMessageSend ----------------------------
EXTENDS MessageRead, TLC

Symmetry == Permutations(Request)
==============================================================================
