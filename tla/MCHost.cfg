SPECIFICATION Spec
CONSTANTS
    MaxEvents = 8
    MaxQueued = 2
    MaxFailures = 1
    MaxFrames = 2
    MaxXrFaults = 1
    MaxInputs = 3
    MaxOutstanding = 2
    MaxNeuralFaults = 1
    SlotCount = 2
    Layouts = {near, far}
    MaxFrame = 2
    MaxGeneration = 2
    MaxLease = 5
INVARIANTS HostTypeOK SessionKeepsOrder NoResetIsLost GpuWorkIsSafe PicturesMatchTheirFrame
INVARIANTS RingTypeOK OwnershipAccounted ConsumerProtected PairsWhole
SYMMETRY Symmetry
CHECK_DEADLOCK FALSE
