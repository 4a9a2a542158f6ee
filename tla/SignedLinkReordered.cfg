SPECIFICATION LinkSpec
CONSTANTS
  Sends = {s1, s2, s3}
  Keys = {k1}
  NoKey = NoKey
  None = None
  Priorities = {0, 2, 3}
  MaxLength = 2
  AgePromotion = 1
  MaxAge = 3
  MaxStamp = 4
SYMMETRY Senders
INVARIANTS NoFrameLooksReplayed
CHECK_DEADLOCK FALSE
