SPECIFICATION Spec
CONSTANTS
  MaxTrade = 3
  MaxClock = 3
  MaxStarts = 2
PROPERTY StoredNeverShrinks
\* The exchange and the clock stop at their bounds.
CHECK_DEADLOCK FALSE
