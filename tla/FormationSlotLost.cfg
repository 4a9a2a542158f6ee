SPECIFICATION NodesSpec
CONSTANTS
  Sysids = {1, 2, 3}
  MaxTargets = 3
  Concurrencies = {1, 2}
  Entries <- TwoVehicles
  Places = {1, 2}
  MaxInputs = 3
  MoveDeploys = 1
  MaxDeploys = 6
  MaxTeardowns = 3
  Vehicles = {1, 2, 3}
  MaxPin = 2
  Modes = {1, 2}
  MaxRebuilds = 2
  Inputs = {i1, i2}
  MaxConnections = 2
INVARIANTS EveryonePlaced
CHECK_DEADLOCK FALSE
