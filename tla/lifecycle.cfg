SPECIFICATION LiveSpec
CONSTANTS
  g1 = g1
  g2 = g2
  k1 = k1
  k2 = k2
  q1 = q1
  Runs = {g1, g2}
  Closes = {k1, k2}
  Quits = {q1}
INVARIANTS LInv CloseLeavesOvertaken ClientQuiet
PROPERTIES ClosesReturn
CHECK_DEADLOCK FALSE
