---------------------------- MODULE MCSdkOutbox ------------------------------
(* Instances of SdkOutbox for TLC. *)
EXTENDS SdkOutbox, TLC

Symmetry == Permutations(Task)
==============================================================================
