SPECIFICATION FairPSpec
CONSTANTS
  n1 = n1
  n2 = n2
  n3 = n3
  None = None
  Nick = {n1, n3}
  Chan = {s}
  StreamChan = {s}
  LocalNick = n3
  LocalChan = s
  Dispatcher = {d1}
  Loop = {l1}
  MaxRoomSize = 3
  MaxStreamers = 2
  Faults = {"local_track"}
  MaxPeers = 2
  MaxRooms = 2
  MaxLocals = 1
  MaxLost = 1
INVARIANTS RowsTold
PROPERTIES LostPeersLeave
CHECK_DEADLOCK FALSE
