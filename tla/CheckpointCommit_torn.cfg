SPECIFICATION Spec
CONSTANTS
  N = 2
  WorldSize <- SameWorld
  FileSets <- AllFiles
  MaxPaths = 1
  MaxEpochs = 1
  MaxRetries = 1
  Faults = {"timeout"}
CHECK_DEADLOCK FALSE
INVARIANT NeverHalfWritten
