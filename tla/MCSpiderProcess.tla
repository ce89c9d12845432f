--------------------------- MODULE MCSpiderProcess ---------------------------
(***************************************************************************)
(* A small instance of SpiderProcess for TLC.                              *)
(***************************************************************************)
EXTENDS SpiderProcess

TickerAndCandles == <<"ticker", "5min">>
=============================================================================
