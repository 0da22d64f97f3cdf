SPECIFICATION Spec
CONSTANTS
  MAX_LINE_BYTES = 3
  Packet = 2
  LineSizes = {3, 5}
  ResponseSizes = {1}
  MaxLines = 1
  MaxUnplugs = 0
  MaxErrors = 0
INVARIANT OverCapIsRejected
CHECK_DEADLOCK FALSE
