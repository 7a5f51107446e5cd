SPECIFICATION FairSpec
CONSTANTS
  N = 3
  WorldSize <- ShrinkingWorld
  FileSets <- ManyFiles
  MaxPaths = 2
  MaxEpochs = 2
  MaxRetries = 0
  Faults = {"timeout", "write", "die"}
CHECK_DEADLOCK FALSE
INVARIANTS TypeOK PublishedComplete BarrierMeets SavedOnRankZero
PROPERTIES PublishedStable BarrierReturns EverySavePublished
