SPECIFICATION FairSpec
CONSTANTS
    o1 = o1
    o2 = o2
    o3 = o3
    Ops = {o1, o2, o3}
    Burst = 2
    BatchSize = 2
    SqEntries = 2
    CqEntries = 2
    IndexModulus = 4
    None = None
INVARIANTS TypeOK IndicesInOrder NoLostWakeup
PROPERTIES ImplementsQueues SqPollCompletes
CHECK_DEADLOCK FALSE
