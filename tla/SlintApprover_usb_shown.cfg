SPECIFICATION Spec
CONSTANTS
  Reqs = {a, b}
  NoReq = NoReq
  SingleFlight = TRUE
  APPROVAL_TIMEOUT = 2
  MaxTime = 5
  MaxCancels = 0
  MayTearDown = FALSE
CHECK_DEADLOCK FALSE
INVARIANT ApprovedWasShown
