CONSTANTS
  g1 = g1
  g2 = g2
  KeyingTries = 2
  MaxR = 2
  MaxRetrans = 1
  MaxInvalidKe = 1
  Groups <- Both
  FirstGroup = g1
  RGroup = g2
  Threshold = 1
  MaxHalfopen = 1
  Modes <- AutoOrBusy
  Oppo = {FALSE, TRUE}
  MayOverload = TRUE
  MayReject = TRUE
  MaxDup = 0
  Patient = FALSE
SPECIFICATION Spec
CHECK_DEADLOCK FALSE
PROPERTY HalfOpenEnds
