SPECIFICATION Spec
CONSTANTS
  Instance = {p1, p2, p3, p4}
  MaxFiles = 3
  Server = {s1, s2, s3}
  MaxNum = 16
  MaxListeners = 2
  MaxSessions = 3
INVARIANTS
  SingleUnlessRaced
  PidFileNamesInstance
  PidFileNamesServer
  OrderlyExit
  ChildGetsItsEnds
CHECK_DEADLOCK FALSE
