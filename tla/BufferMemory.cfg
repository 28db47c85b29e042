SPECIFICATION Spec
CONSTANTS
    b1 = b1
    b2 = b2
    b3 = b3
    Buffers = {b1, b2, b3}
    None = None
    Reads <- SomeReads
    BlockSizes = {0, 2, 4}
    GIODefaultBufferAlignment = 1
    BufferSize = 2
    MaxBufferSize = 12
    MaxMissed = 1
SYMMETRY Symmetry
INVARIANTS TypeOK NoUseAfterFree MemoryAccounted BlocksDisjoint BlockSizeHonoured
    FixedReadsInChunk 
