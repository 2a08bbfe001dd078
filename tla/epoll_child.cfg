SPECIFICATION FairSpec
CONSTANTS
  MAX_LINE = 2
  Room = 1
  MaxBytes = 3
  MaxOver = 1
  Faults = {"setup", "resolve", "connect", "register", "read"}
INVARIANTS
  RelayInOrder
  RelayComplete
PROPERTIES
  NoLostEdge
  RelayEnds
CHECK_DEADLOCK FALSE
