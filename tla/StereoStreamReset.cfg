SPECIFICATION Spec
CONSTANTS
    SlotCount = 2
    FenceMax = 5
    MaxCamera = 4
    MaxFaults = 1
    AllowAbort = FALSE
PROPERTIES ResetReachesHost
CHECK_DEADLOCK FALSE
