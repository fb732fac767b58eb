SPECIFICATION Spec
CONSTANTS
  g1 = g1
  g2 = g2
  Gateways <- MCGateways
  Ids = {a1, a2}
  Readers = {r1}
  TTL <- MCTTL
  Shortest = 1
  MaxTime = 3
  MaxFaults = 1
  None = None
SYMMETRY MCSymmetry
INVARIANT TypeOK
PROPERTY ShelfSpec
CHECK_DEADLOCK FALSE
