SPECIFICATION Spec
CONSTANTS
  n1 = n1
  n2 = n2
  n3 = n3
  None = None
  Nick = {n1, n2, n3}
  Chan = {s}
  StreamChan = {s}
  LocalNick = n3
  LocalChan = s
  Dispatcher = {d1}
  Loop = {}
  MaxRoomSize = 3
  MaxStreamers = 2
  Faults = {}
  MaxPeers = 3
  MaxRooms = 2
  MaxLocals = 0
  MaxLost = 1
SYMMETRY NickSymmetry
INVARIANTS StreamerCap
PROPERTIES OnlySelfOrHostDemotes SuccessionByTenure
CHECK_DEADLOCK FALSE
