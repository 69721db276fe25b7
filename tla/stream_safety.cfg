SPECIFICATION Spec
CONSTANTS
  s1 = s1
  s2 = s2
  Streams = {s1, s2}
  MaxData = 2
  RecvCap = 1
  PoolSize = 3
  Senders = {}
  Shutdown = TRUE
SYMMETRY Alike
INVARIANTS TypeOK EofIsLast SessionsMatchHandlers WorkerLeft
CHECK_DEADLOCK FALSE
