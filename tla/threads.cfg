SPECIFICATION Spec
CONSTANTS
    DATA_CHUNKS = 5
    nthreads = 6
    INT_MAX = 15
    Answers <- MCAnswers
INVARIANTS
    TypeOK
    RoundInv
    JobComplete
PROPERTIES
    RoundsInOrder
CHECK_DEADLOCK FALSE
