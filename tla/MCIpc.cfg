SPECIFICATION FairSpec
CONSTANTS
    Words = 2
    Modulus = 8
    MaxAttempts = 2
    Generations = {1, 2}
    Expected = 1
    MaxFaults = 2
    Callers = {c1, c2}
    Worker = worker
    Render = render
    RequestWords = 2
    RequestModulus = 16
    ReadAttempts = 2
    MaxFrame = 4
    MaxCalls = 2
INVARIANTS ChannelTypeOK AttachedToReadyRegion
INVARIANTS BridgeTypeOK OneWriter ResourcesOutliveWorker StoppedIsSilent
PROPERTIES ReadsAreSnapshots RegionNeverRewinds NewestArrives
PROPERTIES ReadsAreCoherent NewestIsRelayed
CHECK_DEADLOCK FALSE
