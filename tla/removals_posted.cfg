SPECIFICATION Spec
CONSTANTS
  Path <- AdapterPath
  Kind <- AdapterKind
  Parent <- AdapterParent
  Tracked = {connected, rssi}
  Value = connected
  connected = connected
  rssi = rssi
  Untracked = {uuids}
  uuids = uuids
  MaxStamp = 4
  MaxPending = 0
CHECK_DEADLOCK FALSE
PROPERTY RemovalsPosted
