SPECIFICATION FairSpec
CONSTANTS
  Parts = {"weight", "bias"}
  MaxSaves = 1
  MaxSteps = 0
  MaxMeta = 0
  MaxWarm = 0
  Faults = {"hang", "wait"}
CHECK_DEADLOCK FALSE
PROPERTY CloseReturns
