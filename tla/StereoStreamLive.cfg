SPECIFICATION FairSpec
CONSTANTS
    SlotCount = 3
    FenceMax = 6
    MaxCamera = 5
    MaxFaults = 0
    AllowAbort = FALSE
INVARIANTS FailsOnlyForCause
PROPERTIES StreamCompletes
CHECK_DEADLOCK FALSE
