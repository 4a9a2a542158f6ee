SPECIFICATION PartsFairSpec
CONSTANTS
  Workflows = {w1, w2}
  MaxRetries = 1
  MaxAcks = 3
  MaxTeardowns = 1
  Ids = {1, 2, 3}
  Wires = {1, 2}
  IdentityEdits = 2
  Profs = {1, 2}
  Dialects = {1, 2}
  Clashing = {{1, 2}}
  ProfileEdits = 3
  RemoteSysids = {1}
  RemoteCompids = {1, 2}
  MaxRoutes = 3
  Values = {1, 2}
  MaxSubscriptions = 2
  Streams = {1, 2, 3}
  SigningKeys = {k1, k2}
  MaxTime = 2
  MaxFrames = 4
  MaxStreams = 2
  Window = 1
  MaxChanges = 8
  Files = {1, 2, 3}
  RefusedFile = 0
INVARIANTS OneAtATimeUntilTeardown SourcesDistinct DialectsAreCurrent BroadcastViable AttachedOnce
PROPERTIES NoResendAfterProgress BusyIsTruthful EveryRunSettles LatestIsSeen NoReplay DispatchReachesStanding
CHECK_DEADLOCK FALSE
