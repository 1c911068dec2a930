SPECIFICATION RingSpec
CONSTANTS
    SlotCount = 2
    Layouts = {1, 2}
    MaxFrame = 2
    MaxGeneration = 1
    MaxLease = 5
PROPERTIES AcquiredInOrder
CHECK_DEADLOCK FALSE
