\* Calls may overlap, IndexedDB is fair.
SPECIFICATION FairSpec
CONSTANTS
    u1 = u1  u2 = u2  tokA = tokA  tokB = tokB
    User <- Users
    Value <- Values
    None = None
    OpenFails = TRUE
    MaxProviders = 4
INVARIANTS ClosedIsUncached NoLeakedConnection HolderNotClosed
PROPERTY PurgeCompletes
CHECK_DEADLOCK FALSE
