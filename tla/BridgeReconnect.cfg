SPECIFICATION Spec
CONSTANTS
  Signals <- MCSignals
  From <- MCFrom
  ChunkId <- MCChunkId
  Total <- MCTotal
  Garbled = {"bobOffer"}
  Outs = {"sfuOffer"}
  OutTotal <- MCOutTotal
  MaxConns = 2
  Empty = Empty
INVARIANTS TypeOK LiveIsCurrent WrittenInOrder
PROPERTIES WholeOnce DeadLetGo
CHECK_DEADLOCK FALSE
