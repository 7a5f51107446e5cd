SPECIFICATION FairSpec
CONSTANTS
  Parts = {"weight", "bias"}
  MaxSaves = 2
  MaxSteps = 1
  MaxMeta = 0
  MaxWarm = 1
  Faults = {"prepare", "stage", "create", "submit", "send", "write", "crash"}
INVARIANTS CloseIsClean
PROPERTIES LaunchedSaveReleases SaveReturns CloseReturns ImplementsSnapshotStore
