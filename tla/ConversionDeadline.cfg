CONSTANTS
    MAX_ERROR_QUEUE_SIZE = 1
    UINT_RANGE = 16
    Algos = {"return", "math"}
    Deadline = TRUE
SPECIFICATION FairSpec
INVARIANTS
    DeadlineSuffices
PROPERTIES
    StopCompletes
    MeasureServed
