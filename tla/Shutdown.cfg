\* Three connections and three candles, until the pipeline is stopped.
SPECIFICATION LiveSpec
CONSTANTS
  MaxConnections = 3
  MaxDelay = 4
  MaxFailures = 3
  Seconds = {s1}
  MaxVersion = 3
  BatchSize = 2
INVARIANTS NoCandleDropped StopLeavesNothing
PROPERTIES LatestVersionStays NothingHangs
\* Nothing runs after the stop.
CHECK_DEADLOCK FALSE
