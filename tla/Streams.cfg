CONSTANTS
    MAX_SAMPLE_BUFFER_SIZE = 8
    COPY = 2
    CHUNK = 3
    Sizes = {1, 3, 4, 5}
SPECIFICATION Spec
INVARIANTS
    TypeOK
    BuffersInBounds
    InputOutlivesHalf
    OutputOutlivesTwoHalves
    RefillMissesPlaying
