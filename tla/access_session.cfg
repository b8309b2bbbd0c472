SPECIFICATION CrashSpec
CONSTANTS
    HEIGHT = 1
    BUCKET_SIZE = 2
    EVICT_RATE = 2
    MaxUploads = 3
    Transmit = {TRUE}
INVARIANTS
    AnswersAddUp
    CopiesAgree
    MemoryFits
    FileFits
    KeysKept
    Resynchronised
    SessionInv
PROPERTIES
    DamageConfined
CHECK_DEADLOCK FALSE
