SPECIFICATION Spec
CONSTANTS
  t1 = t1
  t2 = t2
  Task <- Callers
  MaxEvents = 3
SYMMETRY AnyCaller
CHECK_DEADLOCK FALSE
INVARIANTS RepliesInOrder NoMissedWakeup AnsweredOnce
PROPERTIES ReturnsAsPromised ImplementsPromise
