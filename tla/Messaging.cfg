\* Messages, reactions, pins, unread counts and polls of two handles.
SPECIFICATION Spec
CONSTANTS
    alice = alice  bob = bob  t1 = t1  t2 = t2
    o1 = o1  o2 = o2  n1 = n1  n2 = n2
    Obj <- Objects
    Name <- Names
    Handle <- Handles
    Creator = alice
    Task <- Tasks
    Scenarios <- Together
    MentionSets <- Chat
    Limit = 2
    Faults = TRUE
    MaxCalls <- Budget
    MaxTime = 2
SYMMETRY Symmetric
CHECK_DEADLOCK FALSE
INVARIANTS TogglesFlip UnreadTold PagesComplete PollTally ReadersAgree DeliveredOnce
