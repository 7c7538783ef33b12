SPECIFICATION Spec
CONSTANTS
    NKeys = 2
    Keys <- MCKeys
    MaxRuns = 1
    ChunkRows = 1
    MaxChanges = 1
    MaxPartialCopies = 0
    MaxForgotten = 0
    MaxStagingFails = 1
    MaxFails = 0
    MaxClears = 0
    MaxReruns = 0
    MaxManualLoads = 0
INVARIANTS
    ServedPaymentsWereRead
CHECK_DEADLOCK FALSE
