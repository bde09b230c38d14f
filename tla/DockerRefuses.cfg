SPECIFICATION FairSpec
CONSTANTS
  MaxVersion = 1
  MaxFaults = 1
  MaxManual = 0
  MaxForeign = 0
  None = None
  Foreign = Foreign
CHECK_DEADLOCK FALSE
PROPERTY DockerUndoesItself
