SPECIFICATION Spec
CONSTANTS
  Parts = {weight, bias}
  MaxSaves = 3
  MaxSteps = 1
  MaxMeta = 1
  MaxWarm = 0
  Faults = {"acquire", "prepare", "stage", "create", "submit", "send", "write", "crash", "hang", "wait"}
CHECK_DEADLOCK FALSE
INVARIANTS TypeOK SnapshotAtSave LockNeverMisused PriorWriteOver LockNotLeaked FailureSurfaces
SYMMETRY TensorSymmetry
