SPECIFICATION Spec
CONSTANTS
  MaxConns = 3
  MaxConnect = 2
  FirstFd = 2
  MaxFd = 9
  Listeners = {0, 1}
  MaxErrs = 1
  Faults = {"fork", "exec", "epoll_ctl"}
  ChildWrites = TRUE
  ChildCrashes = TRUE
INVARIANTS
  TypeOK
  SessionKeepsPipes
  EventsFresh
  StaleFdHarmless
  RunningCount
PROPERTY
  ImplementsPool
CHECK_DEADLOCK FALSE
