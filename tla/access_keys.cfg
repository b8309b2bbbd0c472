SPECIFICATION Spec
CONSTANTS
    HEIGHT = 1
    BUCKET_SIZE = 3
    EVICT_RATE = 3
    MaxUploads = 3
    Transmit = {TRUE, FALSE}
INVARIANTS
    KeysKnown
CHECK_DEADLOCK FALSE
