SPECIFICATION UsersSafety
CONSTANTS
  Conns = {c1}
  Fds = {fd1}
  NumThreads = 1
  None = None
  UserActs = {"none", "send", "shutdown", "sendAndShutdown"}
  Shared = {c1}
  MaxCalls = 1
INVARIANT GivesUpWriting
CHECK_DEADLOCK FALSE
