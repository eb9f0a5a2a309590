SPECIFICATION Spec
CONSTANTS
  Path <- GattPath
  Kind <- GattKind
  Parent <- GattParent
  Tracked = {value}
  Value = value
  value = value
  Untracked = {}
  MaxStamp = 4
  MaxPending = 1
CHECK_DEADLOCK FALSE
INVARIANTS GattComplete NotifyDelivers QuietAfterStop
