\* Backups of a handle with two devices, three calls at a time.
SPECIFICATION Spec
CONSTANTS
    d1 = d1  d2 = d2  t1 = t1  t2 = t2  t3 = t3
    Device <- Devices
    Task <- Tasks
    WrongKey = 9
    Faults = TRUE
    MaxCalls = 4
SYMMETRY Symmetric
CHECK_DEADLOCK FALSE
INVARIANT KeyOpensBackup
