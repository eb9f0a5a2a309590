SPECIFICATION FairSpec
CONSTANTS
  MaxCalls = 2
  MaxSignals = 1
CHECK_DEADLOCK FALSE
INVARIANTS NoMapRace AnswersOnce QuietAfterDestroy DeadlockOnlyInNotify
PROPERTIES EntryPointsReturn PortsAnswered
