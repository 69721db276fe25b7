SPECIFICATION FairSpec
CONSTANTS
  s1 = s1
  s2 = s2
  Streams = {s1}
  MaxData = 1
  RecvCap = 1
  PoolSize = 3
  Senders = {s1}
  Shutdown = FALSE
PROPERTY EndReachesHandler
