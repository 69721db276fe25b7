SPECIFICATION FairSpec
CONSTANTS
  s1 = s1
  s2 = s2
  Streams = {s1}
  MaxData = 2
  RecvCap = 2
  PoolSize = 2
  Senders = {s1}
  Shutdown = TRUE
PROPERTIES SubmitReturns CloseStopsAll EndStopsHandler KeepsStream
CHECK_DEADLOCK FALSE
