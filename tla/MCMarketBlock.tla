--------------------------- MODULE MCMarketBlock ---------------------------
(* Instance of MarketBlock for TLC. *)
EXTENDS MarketBlock

CONSTANTS r1, w1
=============================================================================
