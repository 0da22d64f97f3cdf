SPECIFICATION Spec
CONSTANTS
  Reqs = {a, b}
  NoReq = NoReq
  SingleFlight = FALSE
  APPROVAL_TIMEOUT = 2
  MaxTime = 4
  MaxCancels = 1
  MayTearDown = TRUE
CHECK_DEADLOCK FALSE
INVARIANTS TypeOK NoLostRequest
PROPERTIES FullWindow EveryRequestAnswered ImplementsTrait
