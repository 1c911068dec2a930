SPECIFICATION Spec
CONSTANTS
    SlotCount = 2
    FenceMax = 4
    MaxCamera = 2
    MaxFaults = 2
    AllowAbort = FALSE
INVARIANTS UncommittedUnread
CHECK_DEADLOCK FALSE
