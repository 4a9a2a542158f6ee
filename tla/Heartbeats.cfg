SPECIFICATION HealthFairSpec
CONSTANTS
  Sends = {s1, s2, s3}
  Keys = {k1}
  NoKey = NoKey
  None = None
  Priorities = {1, 3}
  Background = 3
  Asserted = {"nominal", "fatal"}
  MaxLength = 2
  AgePromotion = 1
  MaxAge = 2
INVARIANTS LatestTickSpeaks
PROPERTIES KeyServed ImplementsSendService FatalSilences
CHECK_DEADLOCK TRUE
