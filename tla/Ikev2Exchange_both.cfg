CONSTANTS
  Configs <- OneWayOrBoth
  Window = 1
  MsgidMod = 8
  NSlots = 3
  MaxQueue = 2
  MaxLoss = 0
SPECIFICATION Spec
CHECK_DEADLOCK FALSE
INVARIANTS
  RequestIdsUnique
  EstablishedByBoth
  HandledOnce
