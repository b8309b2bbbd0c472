SPECIFICATION CrashSpec
CONSTANTS
    HEIGHT = 1
    BUCKET_SIZE = 3
    EVICT_RATE = 3
    MaxUploads = 2
    Transmit = {TRUE}
INVARIANTS
    AssertHolds
CHECK_DEADLOCK FALSE
