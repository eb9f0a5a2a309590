SPECIFICATION FairSpec
CONSTANTS
  t1 = t1
  t2 = t2
  Task <- OneCaller
  MaxEvents = 1
CHECK_DEADLOCK FALSE
PROPERTY ResultPosted
