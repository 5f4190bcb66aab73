\* Three calls, two at a time, one after the other or overlapping.
SPECIFICATION Spec
CONSTANTS
    t1 = t1  t2 = t2  chat1 = chat1
    Task <- TwoTasks
    Recipient <- OneChat
    Faults = TRUE
    MaxCalls = 3
SYMMETRY Symmetric
INVARIANTS SettingReadBack SettingHonoured
CHECK_DEADLOCK FALSE
