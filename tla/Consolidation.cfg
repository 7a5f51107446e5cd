SPECIFICATION FairSpec
CONSTANTS
  None = None
  Foreign = Foreign
  Configs <- MCConfigs
  Threads = 2
  Budget = 7
CHECK_DEADLOCK FALSE
INVARIANTS TypeOK PublishedIsSaved ReadAheadBounded
PROPERTIES ExportEnds
