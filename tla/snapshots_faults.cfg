SPECIFICATION Spec
CONSTANTS
    NKeys = 2
    Keys <- MCKeys
    MaxRuns = 2
    ChunkRows = 1
    MaxChanges = 2
    MaxPartialCopies = 1
    MaxForgotten = 0
    MaxStagingFails = 0
    MaxFails = 1
    MaxClears = 1
    MaxReruns = 0
    MaxManualLoads = 1
INVARIANTS
    TypeOK
    PaymentsOnlyWithRates
    NeverEmptied
PROPERTIES
    FactNeverEmptied
    OnlyLoadedRunsComplete
    SnapshotStandsUntilNextCompletes
    SuccessPublishesTheExtract
    PublishesWholeExtracts
CHECK_DEADLOCK FALSE
