SPECIFICATION ResearchSpec
CONSTANTS
  Length = 2
  Horizon = 1
  Slack = 1
  Stride = 2
  LookAhead = 2
  MinAfter = 0
  Part = 4
  ValShare = 1
  TestShare = 1
  Whole = 3
  ValPart = 2
  Hours <- HoursOf
  Width = 3
  Hold = 2
  Runs = {1, 2}
  Types = {"cnn_gru", "simple"}
  Resumable = "cnn_gru"
  Losses = {1, 2}
  Patience = 1
  MaxEpochs = 2
  Days = 2
  Seconds <- SecondsOf
  MaxClock <- ClockBounds
  Batch = 3
  Ensemble = 2
  Jobs = {1, 2}
CONSTRAINT Few
INVARIANTS
  SamplesAreSound
  TargetsAreSmoothed
  NothingLooksAhead
  TradesAddUp
  FilesAreTheirs
\* When the seconds are recorded and the scripts have ended nothing is left.
CHECK_DEADLOCK FALSE
