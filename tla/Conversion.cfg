CONSTANTS
    MAX_ERROR_QUEUE_SIZE = 2
    UINT_RANGE = 16
    Algos = {"return", "badptr", "math", "readAlt", "badsvc", "stray", "memfault", "hardfault"}
    Deadline = FALSE
SPECIFICATION FairSpec
CHECK_DEADLOCK FALSE
INVARIANTS
    TypeOK
    IdleIsQuiet
    NoStrandedRequest
    MeasureMeetsQuietPipeline
    QueueIsRecent
    StaleWhileOneQueued
    ClockServesUsers
PROPERTIES
    ImplementsPipeline
    OverrunStopsAlgorithm
