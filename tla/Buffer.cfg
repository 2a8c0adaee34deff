\* Room for three bytes: appends that fit, that move the data and that grow
\* the vector; reads that leave room, that fill it exactly and that overflow.
SPECIFICATION Spec
CONSTANTS
  CheapPrepend = 1
  InitialSize = 3
  ExtraSize = 2
  MaxBytes = 10
INVARIANTS TypeOK BytesKept
CHECK_DEADLOCK FALSE
