SPECIFICATION Spec
CONSTANTS
    HEIGHT = 2
    BUCKET_SIZE = 3
    EVICT_RATE = 2
    Garbage = {0, 1}
INVARIANTS
    AssertHolds
CHECK_DEADLOCK FALSE
