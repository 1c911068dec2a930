SPECIFICATION Spec
CONSTANTS
    SlotCount = 2
    FenceMax = 5
    MaxCamera = 4
    MaxFaults = 0
    AllowAbort = TRUE
INVARIANTS FreeSlotAccepted
CHECK_DEADLOCK FALSE
