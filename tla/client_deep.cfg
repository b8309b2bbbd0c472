SPECIFICATION DeepSpec
CONSTANTS
    HEIGHT = 3
    BUCKET_SIZE = 3
    EVICT_RATE = 1
    Garbage = {0}
    Accessed = {1, 2}
INVARIANTS
    SiblingsEmpty
PROPERTIES
    EvictionDescends
