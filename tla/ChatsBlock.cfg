\* Two handles are blocked one after the other.
SPECIFICATION Spec
CONSTANTS
    t1 = t1  t2 = t2  alice = alice  bob = bob
    Task <- OneTask
    Peer <- Peers
    Ops <- BlockOps
    Faults = FALSE
    Awaited = TRUE
    MaxRooms = 1
PROPERTY BlockedStaysBlocked
CHECK_DEADLOCK FALSE
