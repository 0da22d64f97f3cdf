SPECIFICATION Spec
CONSTANTS
  Tasks = {c1, c2}
  SingleFlight = TRUE
  IdleMs = 2
  MaxTime = 4
  MaxNonce = 2
  MaxKeys = 2
  MaxAdjusts = 1
INVARIANTS TypeOK NoReplay SealedForRequester
PROPERTY SteadyIdleBounded
