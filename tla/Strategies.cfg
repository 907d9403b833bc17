\* Operations of three clients on what runs of one strategy; and requests of
\* two on its rows, from its creation on; and three versions of what it says.
SPECIFICATION StrategiesSpec
CONSTANTS
  Clients = {a, b, c}
  Requesters = {c1, c2}
  NoRow = NoRow
  MaxVersions = 3
  MaxRequests = 4
  Configs <- Written
  MaxConfigs = 3
  Percent = 100
  Absent = Absent
INVARIANTS ManagerAgrees Recorded VersionsAreSound OwnPricesOnly
PROPERTIES OnlyValidTransitions WritesAreSound
SYMMETRY Symmetry
\* When all requests have been answered nothing is left to do.
CHECK_DEADLOCK FALSE
