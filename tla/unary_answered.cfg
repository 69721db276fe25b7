SPECIFICATION FairSpec
CONSTANTS
  cl1 = cl1
  cl2 = cl2
  a = a
  b = b
  Clients = {cl1, cl2}
  Calls = {a, b}
  Owner <- TwoClients
  Retry = 0
  PoolSize = 1
  Recovery = TRUE
  Lossy = FALSE
  Shutdown = FALSE
INVARIANTS AnswerUnderWay
PROPERTIES CallsReturn
