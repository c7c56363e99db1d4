-------------------------- MODULE MCMarketObjects --------------------------
(* An instance of MarketObjects for TLC. *)
EXTENDS MarketObjects

=============================================================================
