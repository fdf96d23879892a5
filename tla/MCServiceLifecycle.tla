------------------------- MODULE MCServiceLifecycle -------------------------
(* Instance of ServiceLifecycle for TLC. *)
EXTENDS ServiceLifecycle

CONSTANTS r1, w1
=============================================================================
