SPECIFICATION UpdatesSpec
CONSTANTS
  Base = 4
  Sample <- Edges
  Padding <- Shifts
  MaxUpdates = 2
  Signals <- Noticed
CHECK_DEADLOCK FALSE
INVARIANTS RoundTrip TruncationThrows NativeDecodeAgrees CacheExact
PROPERTY ReportsExact
