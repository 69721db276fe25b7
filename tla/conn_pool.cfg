SPECIFICATION Spec
CONSTANTS
  x = x
  y = y
  l1 = l1
  l2 = l2
  l3 = l3
  l4 = l4
  c1 = c1
  c2 = c2
  c3 = c3
  c4 = c4
  k1 = k1
  k2 = k2
  Addresses = {x, y}
  Leases = {l1, l2, l3, l4}
  Conns = {c1, c2, c3, c4}
  Closers = {k1, k2}
  Asks <- MCAsks
  Home <- MCHome
  Size = 2
SYMMETRY Alike
INVARIANTS PInv OpenUntilClosed CloseLeavesOnlyRacers
PROPERTIES KeepsLending
CHECK_DEADLOCK FALSE
