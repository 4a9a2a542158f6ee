SPECIFICATION LinkSpec
CONSTANTS
  Sends = {s1, s2, s3, s4}
  Keys = {k1, k2}
  NoKey = NoKey
  None = None
  Priorities = {0, 1, 3}
  MaxLength = 2
  AgePromotion = 1
  MaxAge = 3
  MaxStamp = 5
SYMMETRY Senders
INVARIANTS PendingIffOwned DropsAreOvertaken
PROPERTIES EmergencyFirst NoOvertaking
CHECK_DEADLOCK FALSE
