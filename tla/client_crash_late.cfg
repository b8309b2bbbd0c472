SPECIFICATION CrashSpec
CONSTANTS
    HEIGHT = 2
    BUCKET_SIZE = 3
    EVICT_RATE = 2
    Garbage = {0}
INVARIANTS
    AssertHolds
CHECK_DEADLOCK FALSE
