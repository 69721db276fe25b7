SPECIFICATION Spec
CONSTANTS
  cl1 = cl1
  cl2 = cl2
  a = a
  b = b
  Clients = {cl1}
  Calls = {a, b}
  Owner <- OneClient
  Retry = 1
  PoolSize = 1
  Recovery = FALSE
  Lossy = TRUE
  Shutdown = FALSE
SYMMETRY SwapCalls
INVARIANTS TypeOK AnswerMatchesCall AtMostOnce PendingMatchesCalls
