CONSTANTS
    MAX_ERROR_QUEUE_SIZE = 1
    UINT_RANGE = 16
    Algos = {"return"}
    Deadline = FALSE
SPECIFICATION Spec
CHECK_DEADLOCK FALSE
INVARIANT AbortNeverHangs
