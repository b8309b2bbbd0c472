SPECIFICATION MCSpec
CONSTANTS
    SIZE_PI = 3
    Bit <- MCBit
    Zero <- MCZero
    LANES = 2
    BATCH = 2
    HALVES = 2
    CTR_MOD = 5
    CACHE_BLOCK_SIZE = 2
    DATA_CHUNKS = 5
    MAX_THREADS = 3
    ROUNDS = 2
    Multipliers = {1}
INVARIANTS
    RaceFree
    VectorExact
    RotatedBeforeSums
    SumsExact
    LoopsInv
