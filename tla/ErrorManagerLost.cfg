CONSTANTS
    MAX_ERROR_QUEUE_SIZE = 8
    HostErrors = {"NotIdle"}
SPECIFICATION Spec
INVARIANT AbortIsTracked
