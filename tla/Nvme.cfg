SPECIFICATION Spec
CONSTANTS
    r1 = r1
    r2 = r2
    b1 = b1
    b2 = b2
    f1 = f1
    f2 = f2
    d1 = d1
    d2 = d2
    t1 = t1
    t2 = t2
    Requests = {r1, r2}
    Buffers = {b1, b2}
    Files = {f1, f2}
    Devices = {d1, d2}
    Trackers = {t1, t2}
    DeviceOf <- MCDeviceOf
    FileExtents <- MCFileExtents
    Reads <- MCReads
    MaxExtents = 2
    LinearLimit = 2
    BlockSize = 2
    SectorSize = 1
    PartitionStart = 2
    NlbModulus = 4
    BufferSize = 2
    MaxFixedFiles = 2
    GBatchSubmitSize = 2
    SqEntries = 2
    IOPoll = TRUE
    None = None
INVARIANTS TypeOK ExtentsComplete PartsInBuffer SuccessMeansData TrackersCount
    DeviceTableConsistent FatalOnlyIfUnmapped
SYMMETRY Symmetry
CHECK_DEADLOCK FALSE
