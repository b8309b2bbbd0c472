SPECIFICATION MCSpec
CONSTANTS
    SIZE_PI = 3
    Bit <- MCBit
    Zero <- MCZero
    Multipliers = {0, 1, 2}
INVARIANTS
    TypeOK
    CopiesIdentical
    ShuffleInv
    DeltaCorrect
    NothingLeftOver
PROPERTIES
    CopiesReplaced
    EvictionCompletes
