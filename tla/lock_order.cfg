SPECIFICATION FairSpec
CONSTANTS
  MaxCalls = 1
  MaxSignals = 1
CHECK_DEADLOCK FALSE
PROPERTY NotifyAnswered
