SPECIFICATION Spec
CONSTANTS
  NumThreads = 2
  MaxCalls = 1
  Quitters = {}
PROPERTY PoolIsDestroyed
CHECK_DEADLOCK FALSE
