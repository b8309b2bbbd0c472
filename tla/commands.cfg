SPECIFICATION Spec
CONSTANTS
    HEIGHT = 1
    BUCKET_SIZE = 1
    EVICT_RATE = 1
    MaxDrawn = 3
    MaxFailures = 2
INVARIANTS
    CommandInv
    Survives
    SameEviction
    FileNotAhead
PROPERTIES
    EvictionFinishes
    ClientServed
CHECK_DEADLOCK FALSE
