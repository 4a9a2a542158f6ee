SPECIFICATION FairSpec
CONSTANTS
  Sends = {s1, s2}
  Clients = {c1, c2}
  Vehicles = {v1, v2}
  Stations = {g1}
  Endpoints = {e1, e2}
  Remote = Remote
  None = None
  MaxHandles = 3
INVARIANTS OneLiveHandle StopReleases FallbackIsVehicle
PROPERTIES SendsSettle StopEnds
CHECK_DEADLOCK FALSE
