SPECIFICATION FairSpec
CONSTANTS
  MaxConns = 2
  MaxConnect = 2
  FirstFd = 1
  MaxFd = 8
  Listeners = {0}
  MaxErrs = 0
  Faults = {}
  ChildWrites = FALSE
  ChildCrashes = FALSE
PROPERTY AllAccepted
CHECK_DEADLOCK FALSE
