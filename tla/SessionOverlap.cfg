\* deleteSession overlaps the chain, storage may fail, the event loop is fair.
SPECIFICATION FairSpec
CONSTANTS
    c1 = c1  c2 = c2  del = del
    Caller <- Callers
    Deleter = del
    Ops <- FewOps
    DeviceIds <- NoDevice
    Lifetimes <- OneLife
    RefreshThreshold = 1
    StoreFails = TRUE
    Overlap <- Anything
    MaxTime = 2
    MaxCalls = 3
    MaxRestarts = 0
INVARIANTS ChainSerialises ClientUsesCachedToken
PROPERTIES NoDoubleCreate CallsSettle
CHECK_DEADLOCK FALSE
