CONSTANTS
  ahSaid = ahSaid
  espSaid = espSaid
  tunSaid = tunSaid
  compSaid = compSaid
  otherSaid = otherSaid
  dataFlow = dataFlow
  gwFlow = gwFlow
  hostKey = hostKey
  netKey = netKey
  gwKey = gwKey
  data1 = data1
  data2 = data2
  own = own
  XmitSlots = {x1, x2}
  Skbs = {data1, data2, own}
  Own = {own}
  OuterFlow = gwFlow
  Keys = {hostKey, netKey, gwKey}
  LifeAt = {1}
  SeqTop = 4
  Flow <- MCFlow
  HostKey <- MCHostKey
  NetKey <- MCNetKey
  Dst <- MCDst
  Mishaps <- MCMishaps
  FlowRoutes <- MCFlowRoutes
  Saids = {ahSaid, espSaid, tunSaid}
  Ocf = {ahSaid, espSaid, compSaid}
  NoSa = NoSa
  MaxSa = 4
  MainTables = 2
  SubEntries = 2
  FreeListSize = 3
  Win = 3
  IntBits = 3
  WordBits = 6
  MaxSeq = 5
  Slots = {1, 2}
  RcvSlots = {p1, p2}
  MaxArrivals = 2
  MaxMessages = 6
  MaxNatt = 1
  Proto <- MCProto
  Packets <- MCPackets
SPECIFICATION MCSpec
CHECK_DEADLOCK FALSE
SYMMETRY SlotSymmetry
INVARIANTS  DeletedIsWiped    BuffersOwnedOnce GoneIsDropped WindowExact
PROPERTY TakesOnce
