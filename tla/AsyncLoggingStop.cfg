SPECIFICATION Safety
CONSTANTS
  BufferSize = 3
  MaxRecords = 3
  Null = Null
INVARIANT AllWrittenAtEnd
CHECK_DEADLOCK FALSE
