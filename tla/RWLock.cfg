SPECIFICATION FairSpec
CONSTANT Clients = {c1, c2, c3}
INVARIANTS TypeOK FieldsCountHolds Exclusion NoLostWakeup
PROPERTIES ReaderIsWoken TimedAcquireReturns ImplementsAbstractLock
