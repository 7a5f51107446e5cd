SPECIFICATION Spec
CONSTANTS
  N = 2
  WorldSize <- SameWorld
  FileSets <- AllFiles
  MaxPaths = 1
  MaxEpochs = 1
  MaxRetries = 0
  Faults = {}
CHECK_DEADLOCK FALSE
INVARIANT SavedIsDurable
