SPECIFICATION Spec
CONSTANTS
  Workflows = {w1, w2}
  MaxRetries = 1
  MaxAcks = 2
  MaxTeardowns = 1
INVARIANTS OneAtATime
CHECK_DEADLOCK FALSE
