\* Trades in any order, ticks at any second and flush() at any time; or gaps,
\* failing requests and kills.  The exchange stops trading at its bound.
SPECIFICATION IngestSpec
CONSTANTS
  MaxTrade = 4
  MaxClock = 3
  MaxId = 5
  MaxStarts = 2
  PersistEvery = 3
  BatchLimit = 2
INVARIANTS EveryTradeOnce CandleTellsItsSecond LossesAreExplained
PROPERTIES EventuallyEmitted RecoveryAdvances ImplementsFeed
CHECK_DEADLOCK FALSE
