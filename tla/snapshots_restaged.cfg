SPECIFICATION Spec
CONSTANTS
    NKeys = 2
    Keys <- MCKeys
    MaxRuns = 1
    ChunkRows = 1
    MaxChanges = 2
    MaxPartialCopies = 1
    MaxForgotten = 1
    MaxStagingFails = 1
    MaxFails = 1
    MaxClears = 1
    MaxReruns = 1
    MaxManualLoads = 1
INVARIANTS
    PaymentsOnlyWithRates
    NeverEmptied
CHECK_DEADLOCK FALSE
