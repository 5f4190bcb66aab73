\* Calls overlap and requests fail.
SPECIFICATION Spec
CONSTANTS
    t1 = t1  t2 = t2  alice = alice  bob = bob
    Task <- TwoTasks
    Peer <- OnePeer
    Ops <- RoomOps
    Faults = TRUE
    Awaited = FALSE
    MaxRooms = 2
SYMMETRY TaskSymmetry
INVARIANT InvitationsListed
CHECK_DEADLOCK FALSE
