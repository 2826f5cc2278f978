SPECIFICATION FairSpec
CONSTANTS
  Slots = 3
  MaxLines = 4
  WaiterLimit = 4
  SemInitFails = {}
INVARIANTS
  SlotAccounting
  LinesInOrder
PROPERTIES
  FifoSafe
  FifoLive
  
CHECK_DEADLOCK FALSE
