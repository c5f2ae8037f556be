--------------------------- MODULE MCTradeMonitor ---------------------------
(* A small instance of TradeMonitor for TLC; the cfg file gives the values.*)
EXTENDS TradeMonitor
=============================================================================
