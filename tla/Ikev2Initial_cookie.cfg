CONSTANTS
  g1 = g1
  g2 = g2
  KeyingTries = 2
  MaxR = 2
  MaxRetrans = 2
  MaxInvalidKe = 3
  Groups <- Both
  FirstGroup = g1
  RGroup = g2
  Threshold = 1
  MaxHalfopen = 4
  Modes <- Busy
  Oppo = {FALSE}
  MayOverload = FALSE
  MayReject = FALSE
  MaxDup = 0
  Patient = TRUE
SPECIFICATION ReliableSpec
CHECK_DEADLOCK FALSE
PROPERTY ComesUp
