\* All operations.
SPECIFICATION Spec
CONSTANTS
  CheapPrepend = 1
  InitialSize = 3
  ExtraSize = 2
  MaxBytes = 7
PROPERTY WriteFdSendsReadable
CHECK_DEADLOCK FALSE
