SPECIFICATION FairSpec
CONSTANTS
  MAXBUF = 2
  Room = 1
  MaxBytes = 3
  Faults = {"config", "resolve", "connect", "ndelay", "select", "read"}
  FallsOff = {"ok", "negative"}
INVARIANTS
  InOrder
  AllPassedOn
PROPERTY
  SessionEnds
CHECK_DEADLOCK FALSE
