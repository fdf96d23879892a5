--------------------------- MODULE MCMarketPoller ---------------------------
(* Model values for model checking MarketPoller.                           *)
EXTENDS MarketPoller

CONSTANTS i1, i2, w1, w2
=============================================================================
