\* Three threads, as in the echo server; the third may quit by itself.  Up to
\* two connections on each loop.
SPECIFICATION Spec
CONSTANTS
  NumThreads = 3
  MaxCalls = 2
  Quitters = {3}
INVARIANTS TypeOK LoopsExist Balanced ConnectionsReleased
PROPERTIES StartReturns RunningLoopQuits TeardownEnds
CHECK_DEADLOCK FALSE
