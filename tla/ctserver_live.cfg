SPECIFICATION FairSpec
CONSTANTS
  MaxConns = 3
  MaxConnect = 2
  FirstFd = 1
  MaxFd = 7
  Listeners = {0}
  MaxErrs = 0
  Faults = {"accept", "exec"}
  ChildWrites = TRUE
  ChildCrashes = TRUE
INVARIANT
  NoFdLeak
PROPERTIES
  SlotsReleased
  AllReaped
CHECK_DEADLOCK FALSE
