\* All operations.
SPECIFICATION Spec
CONSTANTS
  CheapPrepend = 1
  InitialSize = 3
  ExtraSize = 2
  MaxBytes = 7
INVARIANT NoByteLost
CHECK_DEADLOCK FALSE
