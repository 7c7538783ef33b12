SPECIFICATION FairSpec
CONSTANTS
    Keys = {k1, k2}
    Rows = {r1}
    BadRows = {}
    Absent = Absent
    OtherKinds = {}
    Groups = {g1, g2}
    GroupOf <- MCGroupOf
    r1 = r1
    r2 = r2
    bad = bad
    g1 = g1
    g2 = g2
    MaxWal = 3
    MaxOthers = 0
    MaxRestarts = 1
    MaxCrashes = 1
    MaxLosses = 0
INVARIANTS
    TypeOK
    NewestUpsertStands
    NewestDeleteStands
    BatchesLeaveNoGap
    RowsComeFromChanges
    CaughtUpMeansCurrent
PROPERTIES
    NeverRegresses
    RetriedBatchChangesNothing
    EventuallyCurrent
