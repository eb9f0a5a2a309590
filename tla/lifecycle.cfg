SPECIFICATION FairSpec
CONSTANTS
  t1 = t1
  t2 = t2
  t3 = t3
  Task <- Callers
  NoTask = NoTask
  MaxCreated = 2
  MaxQueue = 2
CHECK_DEADLOCK FALSE
INVARIANT NoLeak
PROPERTIES EventsNeedHandle ConnectCompletes
