SPECIFICATION Spec
CONSTANTS
  MaxDeploys = 4
  MaxTeardowns = 2
PROPERTIES PortFreeBeforeStart
CHECK_DEADLOCK FALSE
