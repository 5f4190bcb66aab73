\* Three rooms, a fourth to join, and a window of two that grows by one.
SPECIFICATION FairSpec
CONSTANTS
    t1 = t1  t2 = t2
    r1 = r1  r2 = r2  r3 = r3  r4 = r4
    Task = {t1, t2}
    Room <- Rooms
    Listed <- SomeRooms
    InitialSize = 2
    ExtendWithin = 1
    ExtendBy = 1
    Supported = {TRUE, FALSE}
    MaxCalls = 2
    MaxStarts = 2
    MaxBumps = 1
CHECK_DEADLOCK FALSE
INVARIANT WaitersResolved
PROPERTY RoomsReached
