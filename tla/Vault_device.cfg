SPECIFICATION Spec
CONSTANTS
  Origins = {o}
  Usernames = {u}
  CARD_COLOR_COUNT = 1
  Committers = {e}
  WriteMayFail = TRUE
  FilePicker = TRUE
  MaxFresh = 4
  MaxItems = 2
  MaxCrashes = 1
INVARIANTS TypeOK UniqueIds DriftOnlyByRace OwedIsDurable BatchOnlyAdds
PROPERTIES SavedIsWhatFills DurableNotLost BatchAllOrNothing
