SPECIFICATION Spec
CONSTANTS
    f1 = f1
    f2 = f2
    Files = {f1, f2}
    MaxFd = 6
    Uevents <- MCUevents
    Slots = {0, 1}
    None = None
    Kernels <- MCKernels
    MemlockLimits = {3, 8, 12}
    BufferCount = 2
    ReadBufferSize = 2
    MaximumBlockSize = 2
    GQueueDepth <- MCQueueDepth
    MaxEntries = 2
INVARIANTS FlagsTellTruth BuffersFitMemlock ResourcesOwned
SYMMETRY Symmetry
CHECK_DEADLOCK FALSE
