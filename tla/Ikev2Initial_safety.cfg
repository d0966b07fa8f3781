CONSTANTS
  g1 = g1
  g2 = g2
  KeyingTries = 2
  MaxR = 3
  MaxRetrans = 0
  MaxInvalidKe = 2
  Groups <- Both
  FirstGroup = g1
  RGroup = g2
  Threshold = 1
  MaxHalfopen = 2
  Modes <- Auto
  Oppo = {FALSE, TRUE}
  MayOverload = TRUE
  MayReject = TRUE
  MaxDup = 1
  Patient = FALSE
SPECIFICATION Spec
CHECK_DEADLOCK FALSE
INVARIANTS
  HalfOpenSound
  EstablishedAgree
  SomebodyInCharge
