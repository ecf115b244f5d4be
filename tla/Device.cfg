SPECIFICATION FairSpec
CONSTANTS
    MAX_ERROR_QUEUE_SIZE = 1
    QUEUE = 1
    PAYLOAD = 1
    CHUNKS = 2
    MaxDrops = 1
INVARIANTS TypeOK FramingKept NoStandoff LockSeesIdle
PROPERTIES NobodyWaitsForever RedFollowsErrors
CHECK_DEADLOCK FALSE
