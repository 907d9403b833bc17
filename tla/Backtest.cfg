SPECIFICATION Spec
CONSTANTS
  Symbols = {x}
  Prices = {1, 2, 3, 4, 5}
  Quantities = {1, 2}
  Scale = 10
  Slip = 1
  Fee = 1
  StartBalance = 900
  MaxOrders = 4
  GridSize = 6
  ProfitPart = 3
  TestPart = 1
  Lookback = 2
  StopPart = 4
  Kinds <- AllKinds
  MaxOpen = 3
  MaxCandles <- CandleBounds
INVARIANT NeverBoughtTwice
PROPERTY AccountsHold
\* The period ends, and so do the orders.
CHECK_DEADLOCK FALSE
