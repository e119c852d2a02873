SPECIFICATION Spec
CONSTANTS
  n1 = n1
  n2 = n2
  n3 = n3
  None = None
  Nick = {n1, n3}
  Chan = {v}
  StreamChan = {}
  LocalNick = n3
  LocalChan = v
  Dispatcher = {d1}
  Loop = {l1, l2}
  MaxRoomSize = 2
  MaxStreamers = 2
  Faults = {}
  MaxPeers = 2
  MaxRooms = 2
  MaxLocals = 2
  MaxLost = 0
SYMMETRY ThreadSymmetry
INVARIANTS NoRoomWedged
CHECK_DEADLOCK FALSE
