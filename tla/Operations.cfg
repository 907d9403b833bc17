\* One service at a time, each with its own bounds.
SPECIFICATION OperationsSpec
CONSTANTS
  MaxTrade = 3
  MaxClock = 3
  MaxStarts = 2
  Symbols = {x, y}
  Excluded = {x}
  Euro = {y}
  Indicators = {sma, rsi}
  Clients = {a, b}
  MaxRules = 1
  MaxRequests = 2
  MaxTrades = 2
  BatchSize = 2
  NoRow = NoRow
  Candles <- Shapes
  Definitions <- Parameters
  DefaultWindow = 6
  Margin = 1
  WideMargin = 0
  MaxCandles = 4
  MaxEvents = 3
  MaxMemory = 2
  Jobs = {j1, j2}
  MaxVersions = 2
  MaxResets = 1
  PageSize = 1
INVARIANTS TradesReachTheirRows SyncTakesEffect AnswersAreTrue RecordsAreKept IndicatorsSound
SYMMETRY Symmetry
CHECK_DEADLOCK FALSE
