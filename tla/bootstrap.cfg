SPECIFICATION FairSpec
CONSTANTS
    Processes = {p1, p2, p3}
    MaxDeaths = 2
    MaxRefusals = 1
INVARIANTS
    FinishedMeansReady
PROPERTIES
 EventuallyReady
