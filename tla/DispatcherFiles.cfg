SPECIFICATION Spec
CONSTANTS
    r1 = r1
    r2 = r2
    r3 = r3
    f1 = f1
    f2 = f2
    b1 = b1
    b2 = b2
    b3 = b3
    Requests = {r1, r2}
    Buffers = {b1, b2}
    Files = {f1, f2}
    FileOf <- MCFileOf
    MaxOpenContainers = 2
    CloseUnderReads = TRUE
    MaxFixedFiles = 2
    GBatchSubmitSize = 2
    SqEntries = 2
    CqEntries = 2
    DeferTaskrun = FALSE
    SubmitCanFail = FALSE
    None = None
SYMMETRY Symmetry
INVARIANTS TypeOK FileTableConsistent ReadsOwnFile
PROPERTY SlotsStableUnderReads
