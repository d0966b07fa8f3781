CONSTANTS
  Sts = {s1, s2, s3, s4}
  Nobody = nobody
  Chain <- OneChain
  Workers <- TwoWorkers
  MaxBasic = 1
  MaxCrit = 2
  Starts = {"ok", "nosocket", "nosockopt", "nothread"}
  MaxReq = 5
  MaxFaults = 1
SPECIFICATION Spec
SYMMETRY Symmetry
CHECK_DEADLOCK FALSE
INVARIANTS
  HelpersInStep
  ContinuationsMatchStates
