SPECIFICATION Spec
CONSTANTS
    SlotCount = 2
    FenceMax = 4
    MaxCamera = 3
    MaxFaults = 2
    AllowAbort = TRUE
INVARIANTS TypeOK SlotExclusion PolledFrameReadable CachedMatchesLabel RingBounded
PROPERTIES FencesMonotone ResetPublished ImplementsPictures
CHECK_DEADLOCK FALSE
