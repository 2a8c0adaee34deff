\* One connection, its loop, the main loop and a user's thread that makes two
\* calls on the connection.
SPECIFICATION UsersSpec
CONSTANTS
  Conns = {c1}
  Fds = {fd1}
  NumThreads = 1
  None = None
  UserActs = {"none", "send", "shutdown", "sendAndShutdown"}
  Shared = {c1}
  MaxCalls = 2
INVARIANTS NoFatal NeverUpAgain
PROPERTY PeerGoneIsDestroyed
CHECK_DEADLOCK FALSE
