SPECIFICATION Spec
CONSTANTS
  Parts = {"weight", "bias"}
  MaxSaves = 1
  MaxSteps = 1
  MaxMeta = 0
  MaxWarm = 0
  Faults = {"create"}
INVARIANT FilledUnderWriteLock
