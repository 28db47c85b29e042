SPECIFICATION FairSpec
CONSTANTS
    r1 = r1
    r2 = r2
    r3 = r3
    r4 = r4
    Requests = {r1, r2, r3, r4}
    GBatchSubmitSize = 3
    MaxShort = 2
INVARIANTS CounterMatches OnceUnlessShort
PROPERTIES PushedIsAnswered
CHECK_DEADLOCK FALSE
