SPECIFICATION ServerFairSpec
CONSTANTS
  MaxConns = 3
  MaxConnect = 2
  FirstFd = 1
  MaxFd = 8
  Listeners = {0}
  MaxErrs = 1
  Faults = {"accept", "exec", "fork"}
  ChildWrites = TRUE
  ChildCrashes = FALSE
INVARIANTS
  SessionKeepsPipes
PROPERTIES
  AllReleased
  OutputRead
CHECK_DEADLOCK FALSE
