SPECIFICATION SidesSpec
CONSTANTS
  Strategies = {s1, s2}
  Prices = {p}
  ReloadInterval = 1
  Debounce = 2
  Window = 2
  Timeout = 1
  MaxRetries = 1
  MaxClock = 3
  MaxSignals = 3
  Channels = {c}
  MaxTicks = 2
  MaxBreaks = 1
  MaxCalls = 3
  Pairs = {x, y}
  Hour = 2
  Day = 2
  Week = 4
  Enough = 3
  Minute = 2
  Page = 2
  MaxErrors = 1
  Histories = {3}
  Until = 3
INVARIANTS RepeatsCaught OrdersAndRowsAgree DeactivationTakesEffect RunnersAreSound
CONSTRAINT LastIsOnlyRouted
SYMMETRY Symmetry
\* The clock is bounded.
CHECK_DEADLOCK FALSE
