SPECIFICATION Spec
CONSTANTS
    SlotCount = 2
    FenceMax = 5
    Handles = {h1, h2}
    NoHandle = NoHandle
    MaxContexts = 3
    MaxFaults = 1
    RenderThreads = {t1, t2}
    HookCount = 2
    RingSize = 2
    MaxDepth = 2
    MaxCalls = 2
    MaxTraceFaults = 1
    CaptureThreads = {t1, t2}
    MaxPasses = 2
    MaxReads = 2
    Movies = {m1, m2}
    MaxPublications = 2
    MovieTimeout = 1
    MaxClock = 2
    GlHandles = {h1, h2}
    MaxGenerations = 3
    MaxCameraPasses = 3
    ProbeCallers = {p1, p2}
    MaxSessions = 3
    MaxSamples = 1
INVARIANTS GameTypeOK GlNamesAreLive HostSeesWholePictures InstallationsAreAllOrNothing CameraPassIsTransparent
SYMMETRY Symmetry
CHECK_DEADLOCK FALSE
