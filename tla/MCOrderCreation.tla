-------------------------- MODULE MCOrderCreation --------------------------
(* Instances of OrderCreation for TLC. *)
EXTENDS OrderCreation, TLC

\* Requests differ only by name.
RequestSymmetry == Permutations(Requests)
=============================================================================
