CONSTANTS
  Conns = {c1, c2, c3}
  Ids = {alice, bob}
  NullId = null
  NoPool = nopool
  Ranges <- OverlappingRanges
  MaxTime = 1
  MaxRefcnt = 3
  MaxUsed = 3
SPECIFICATION Spec
SYMMETRY Symmetry
CHECK_DEADLOCK FALSE
INVARIANTS
  LeasesCoverHolders
  OneIdentityPerAddress
  PassertsHold
  
PROPERTIES
  NamedPeerKeepsAddress
