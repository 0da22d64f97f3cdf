SPECIFICATION EngineSpec
CONSTANTS
  Origins = {o}
  Usernames = {u, v}
  NoHint = NoHint
  CARD_COLOR_COUNT = 1
  Reqs = {r1}
  Committers = {r1}
  SingleFlight = FALSE
  UserEdits = TRUE
  WriteMayFail = TRUE
  FilePicker = FALSE
  MaxFresh = 8
  MaxItems = 0
  MaxCrashes = 0
  MaxKeys = 2
INVARIANTS NothingWithoutConsent ErrorHasNoEffect ReportedIsDone
SYMMETRY UsernameSymmetry
