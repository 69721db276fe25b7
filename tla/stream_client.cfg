SPECIFICATION Spec
CONSTANTS
  t1 = t1
  t2 = t2
  k1 = k1
  k2 = k2
  Senders = {t1, t2}
  Closers = {k1, k2}
  MaxSend = 2
  MaxPeer = 3
  RecvCap = 2
SYMMETRY Alike
INVARIANTS TypeOK LateDataCrashes NothingMissed OneEnd NumbersIncrease FewBehindEnd
PROPERTIES KeepsStream
CHECK_DEADLOCK FALSE
