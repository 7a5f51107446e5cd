SPECIFICATION FairSpec
CONSTANTS
  N = 3
  a = a  b = b  f0 = f0  f1 = f1  f2 = f2  None = None
  ItemPaths = {a, b}
  Shards <- MCShards
  Layouts = {f0, f1, f2}
  Configs <- MCConfigs
  MaxCalls = 3
  Faults = {"extract"}
CHECK_DEADLOCK FALSE
INVARIANTS TypeOK CollectivesMatch ComputeIsCurrent ValidatedIsCurrent FailureForgets
PROPERTIES EveryRankFinishes
