SPECIFICATION CrashSpec
CONSTANTS
    HEIGHT = 2
    BUCKET_SIZE = 2
    EVICT_RATE = 2
    Garbage = {0}
INVARIANTS
    MetaDataExact
    Recoverable
    FileRecoverable
    UploadSlotFree
    BookInv
PROPERTIES
    EvictionDescends
    LoadRestores
    ReadableStays
CHECK_DEADLOCK FALSE
