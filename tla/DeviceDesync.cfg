SPECIFICATION Spec
CONSTANTS
    MAX_ERROR_QUEUE_SIZE = 1
    QUEUE = 1
    PAYLOAD = 1
    CHUNKS = 2
    MaxDrops = 0
INVARIANT PacketStartsWithCommand
