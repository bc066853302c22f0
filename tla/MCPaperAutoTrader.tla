------------------------- MODULE MCPaperAutoTrader -------------------------
(* Two tickers, interchangeable.                                           *)
EXTENDS PaperAutoTrader, TLC

Symmetry == Permutations(Ticker)
=============================================================================
