\* deleteSession waits for the calls, storage works.
SPECIFICATION Spec
CONSTANTS
    c1 = c1  c2 = c2  del = del
    Caller <- Callers
    Deleter = del
    Ops <- AllOps
    DeviceIds <- AnyDevice
    Lifetimes <- TwoLives
    RefreshThreshold = 2
    StoreFails = FALSE
    Overlap <- Nothing
    MaxTime = 3
    MaxCalls = 3
    MaxRestarts = 1
SYMMETRY Symmetry
INVARIANTS TypeOK NoLeakedTimer RefreshArmed PersistedWhenIdle GetMatrixClientFindsSession
PROPERTIES DeprovisionLeavesNothing ImplementsSlot
CHECK_DEADLOCK FALSE
