--------------------------- MODULE MCMarketViewer ---------------------------
(* Model values for model checking MarketViewer.                           *)
EXTENDS MarketViewer

CONSTANT i1
=============================================================================
