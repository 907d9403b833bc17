\* Two symbols, the pipeline and two jobs.
SPECIFICATION Spec
CONSTANTS
  Symbols = {btc, eth}
  Period = 2
  Limit = 2
  Chunk = 3
  Batch = 2
  Hour = 4
  MaxClock = 6
  Starts = {4}
  MaxJobs = 1
  MaxFailures = 1
INVARIANT JobsReachTheirRows
PROPERTY RowsAreOfTheirTime
SYMMETRY Symmetry
\* When the clock and the jobs have come to their bounds nothing is left.
CHECK_DEADLOCK FALSE
