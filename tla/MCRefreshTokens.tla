-------------------------- MODULE MCRefreshTokens --------------------------
(* Instance of RefreshTokens for TLC. *)
EXTENDS RefreshTokens, TLC

CONSTANTS c1, c2

Symmetry == Permutations(Calls)
=============================================================================
