\* Two connections on one loop of the pool.
SPECIFICATION Safety
CONSTANTS
  Conns = {c1, c2}
  Fds = {fd1, fd2}
  NumThreads = 1
  None = None
  UserActs = {"none", "send", "shutdown"}
SYMMETRY Symmetry
INVARIANTS TypeOK NoFatal NoDangling DestroyedAfterDown DownIsFinal
CHECK_DEADLOCK FALSE
