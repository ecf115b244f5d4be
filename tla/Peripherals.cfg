CONSTANTS
    UINT_RANGE = 256
    MAX_SAMPLE_BUFFER_SIZE = 8
    Sizes = {0, 1, 2, 3, 4, 8}
    Rates = {"R8K", "R32K", "past the table"}
    MaxIdleStops = 4
SPECIFICATION Spec
CHECK_DEADLOCK FALSE
INVARIANTS
    TypeOK
    ClockPaysIdleStops
    OnlyHostArgumentsHalt
    GeneratorNeverEmpty
    ReportedRateRuns
