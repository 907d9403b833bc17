SPECIFICATION Spec
CONSTANTS
  Clients = {a}
INVARIANT DeactivatedRests
