SPECIFICATION FairSpec
CONSTANTS
  Count = 2
  MaxRetries = 1
  MaxReplies = 4
  NoIndex = 65535
INVARIANTS MissionReportsAreTrue ParameterReportsAreTrue
PROPERTIES TransferSettles
CHECK_DEADLOCK FALSE
