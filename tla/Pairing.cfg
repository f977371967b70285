SPECIFICATION Spec
CONSTANTS
  d1 = d1
  d2 = d2
  p1 = p1
  p2 = p2
  Daemons <- TwoDaemons
  Pairers <- TwoPairers
  MaxCrashes = 1
INVARIANTS TypeOK PairedStayPaired
PROPERTIES PageKeepsToken
