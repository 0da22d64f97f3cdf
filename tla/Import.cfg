SPECIFICATION Spec
CONSTANTS
  MaxText = 5
  MaxHost = 6
  MaxBytes = 90
INVARIANTS RoundTrip RowsAreParity MappingAsDocumented StagedFillsItsSite RegistrableIsByLabel
CHECK_DEADLOCK FALSE
