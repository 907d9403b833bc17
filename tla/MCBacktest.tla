------------------------------ MODULE MCBacktest ------------------------------
(* Backtest, and the orders of SimulatedMarket, on small instances.        *)
EXTENDS Backtest

AllKinds == {"grid", "infinity_grid"} \union Counting \union Flagged \union Dipping \union Domain

CandleBounds ==
  [k \in AllKinds |->
     CASE k = "grid" -> 7 [] k = "infinity_grid" -> 6 [] k = "macd_momentum" -> 5 [] OTHER -> 4]
=============================================================================
