CONSTANTS
    MAX_ERROR_QUEUE_SIZE = 1
    UINT_RANGE = 16
    Algos = {"return", "readAlt"}
    Deadline = TRUE
SPECIFICATION FairSpec
CHECK_DEADLOCK FALSE
PROPERTY StopCompletes
