SPECIFICATION FairSpec
CONSTANTS
  Path <- NotifyPath
  Kind <- NotifyKind
  Parent <- NotifyParent
  Tracked = {value}
  Value = value
  value = value
  Untracked = {notifying}
  notifying = notifying
  MaxStamp = 3
  MaxPending = 1
CHECK_DEADLOCK FALSE
PROPERTIES ConnectAnswers CallsAnswered DevicesEventuallyCurrent
