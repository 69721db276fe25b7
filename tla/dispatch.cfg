SPECIFICATION Spec
CONSTANTS
  r1 = r1
  r2 = r2
  Requests = {r1, r2}
  Scenarios <- TheScenarios
SYMMETRY Alike
INVARIANTS DInv NoneLost Answered Understood OnlyReachable
CHECK_DEADLOCK FALSE
