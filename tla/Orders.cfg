\* Calls of two tasks on one live market service.
SPECIFICATION Spec
CONSTANTS
  Tasks = {t1, t2}
  None = None
  ClientIds = {"a", "b"}
  DefaultUnit = 10
  DefaultNotional = 100000
  Huge = 1000000000
  Requests <- SomeRequests
  Rulebooks <- SomeRulebooks
  MaxRetries = 1
  MaxAdjusts = 3
  MaxOrders = 3
  MaxObjects = 3
  MaxCalls = 3
INVARIANTS OrdersAccountedFor TableTellsTheExchange WithinTheRequest
SYMMETRY Symmetry
\* When all calls have returned nothing is left to do.
CHECK_DEADLOCK FALSE
