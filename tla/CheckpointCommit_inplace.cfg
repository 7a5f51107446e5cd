SPECIFICATION Spec
CONSTANTS
  N = 2
  WorldSize <- SameWorld
  FileSets <- IndexFileSets
  MaxPaths = 2
  MaxEpochs = 1
  MaxRetries = 2
  Faults = {"timeout", "write"}
CHECK_DEADLOCK FALSE
INVARIANT IndexComplete
