SPECIFICATION FairSpec
CONSTANTS
    r1 = r1
    r2 = r2
    r3 = r3
    f1 = f1
    f2 = f2
    b1 = b1
    b2 = b2
    b3 = b3
    Requests = {r1, r2}
    Buffers = {b1, b2}
    Files = {f1}
    FileOf <- MCFileOf
    MaxOpenContainers = 1
    CloseUnderReads = TRUE
    MaxFixedFiles = 1
    GBatchSubmitSize = 2
    SqEntries = 2
    CqEntries = 2
    DeferTaskrun = TRUE
    SubmitCanFail = FALSE
    None = None
PROPERTIES AcceptedIsDelivered QuiescesWithoutPushes ClosedIsUnregistered
