----------------------------- MODULE MCTradeWrite ----------------------------
(* Small instances of TradeWrite for TLC, by itself. *)
EXTENDS TradeWrite
=============================================================================
