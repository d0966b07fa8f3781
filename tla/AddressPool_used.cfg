CONSTANTS
  Conns = {c1, c2, c3}
  Ids = {alice, bob}
  NullId = null
  NoPool = nopool
  Ranges <- LeaseRanges
  MaxTime = 0
  MaxRefcnt = 3
  MaxUsed = 3
SPECIFICATION Spec
SYMMETRY Symmetry
CHECK_DEADLOCK FALSE
INVARIANTS
  FullPoolIsUsedUp
