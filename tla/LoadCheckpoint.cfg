SPECIFICATION FairSpec
CONSTANTS
  Items <- MCItems
  Paths <- MCPaths
  ItemOf <- MCItemOf
  Configs <- MCConfigs
  None = None
  Foreign = Foreign
  MaxWorkers = 2
  Faults = {"io"}
CHECK_DEADLOCK FALSE
INVARIANTS TypeOK LoadedIsSaved
PROPERTIES QuietAfterReturn LoadReturns
