CONSTANTS
    N = 5
    Producers = 1
    Rounds = 4
    MAX_SEMAPHORE = 6
    Patient = TRUE
SPECIFICATION Spec
INVARIANTS
    Linked
    NeighboursApart
    BufferSafe
PROPERTIES
    Sequences
    AllFinish
CHECK_DEADLOCK FALSE
