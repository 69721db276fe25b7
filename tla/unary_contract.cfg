SPECIFICATION DeadlineSpec
CONSTANTS
  cl1 = cl1
  cl2 = cl2
  a = a
  b = b
  Clients = {cl1}
  Calls = {a}
  Owner <- OneCall
  Retry = 1
  PoolSize = 1
  Recovery = FALSE
  Lossy = TRUE
  Shutdown = TRUE
INVARIANTS IInv SocketQuietWhenClosed
PROPERTIES KeepsContract CallsReturn ClosesReturn
CHECK_DEADLOCK FALSE
