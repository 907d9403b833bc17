\* All accounts without stops, and stops of every level, three at a time.
SPECIFICATION StopSpec
CONSTANTS
  Strategies = {s1, s2}
  Symbols = {x, y}
  MaxPositions = 2
  MaxExposure = 2
  SymbolCap = 1
  StartBalance = 20
  LossPercent = 20
  Losses = {4, 30}
  Profits = {}
  Cooldown = 1
  MaxUnreported = 2
  MaxDays = 1
  MaxTrades = 2
  MaxSeconds = 1
  MaxActive = 3
INVARIANTS LimitsHold StopsTellKills
PROPERTY LossLimitHolds
CONSTRAINT StopsOverQuiet
SYMMETRY Symmetry
\* When the seconds have passed and nothing is left to report, all may rest.
CHECK_DEADLOCK FALSE
