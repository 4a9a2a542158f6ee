SPECIFICATION Spec
CONSTANTS
  Count = 2
  MaxRetries = 1
  MaxReplies = 5
  NoIndex = 65535
INVARIANTS ClearMeansCleared
CHECK_DEADLOCK FALSE
