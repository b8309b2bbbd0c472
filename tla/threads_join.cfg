SPECIFICATION Spec
CONSTANTS
    DATA_CHUNKS = 8
    nthreads = 8
    INT_MAX = 15
    Answers = {1, 2, 4, 5, 8}
INVARIANTS
    JoinsThreads
CHECK_DEADLOCK FALSE
