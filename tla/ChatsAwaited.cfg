\* Calls are awaited and requests succeed.
SPECIFICATION Spec
CONSTANTS
    t1 = t1  t2 = t2  alice = alice  bob = bob
    Task <- OneTask
    Peer <- Peers
    Ops <- AllOps
    Faults = FALSE
    Awaited = TRUE
    MaxRooms = 3
INVARIANTS JoinedListed
PROPERTIES NoSecondChat UnblockUnblocks
CHECK_DEADLOCK FALSE
