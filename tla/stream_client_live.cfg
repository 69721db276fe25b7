SPECIFICATION FairSpec
CONSTANTS
  t1 = t1
  t2 = t2
  k1 = k1
  k2 = k2
  Senders = {t1}
  Closers = {k1}
  MaxSend = 1
  MaxPeer = 2
  RecvCap = 1
PROPERTIES RecvReturns
CHECK_DEADLOCK FALSE
