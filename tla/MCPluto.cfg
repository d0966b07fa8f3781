CONSTANTS
  west = west
  east = east
  c1 = c1
  c2 = c2
  Daemons = {west, east}
  Conns = {c1, c2}
  NoSt = NoSt
  NoPkt = NoPkt
  MaxStates = 5
  MaxRetransmits = 2
  AcceptedDuplicates = 2
  KeyingTries = 1
  Configs <- MCConfigs
  Scenarios <- MCScenarios
  MaxLoads = 3
  MaxFaults = 1
SPECIFICATION PlutoSpec
CHECK_DEADLOCK FALSE
INVARIANTS InstallOnce KeysAgree PendingHeld UpAtRest WantedNotForgotten
  EroutesBacked RoutesMatch  RoutingPasserts
