CONSTANTS
  Sts = {s1, s2}
  Nobody = nobody
  Chain <- OneChain
  Workers <- OneWorker
  MaxBasic = 1
  MaxCrit = 2
  Starts = {"ok"}
  MaxReq = 2
  MaxFaults = 0
SPECIFICATION Spec

CHECK_DEADLOCK FALSE
INVARIANTS
  SuspendedIsResumed
