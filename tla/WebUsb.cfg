SPECIFICATION Spec
CONSTANTS
  MAX_LINE_BYTES = 3
  Packet = 2
  LineSizes = {0, 3, 5}
  ResponseSizes = {1, 2}
  MaxLines = 3
  MaxUnplugs = 1
  MaxErrors = 1
INVARIANTS TypeOK NothingSpliced ReaderAgainstLineSplitter 
PROPERTY EveryLineAnswered
CHECK_DEADLOCK FALSE
