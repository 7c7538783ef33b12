SPECIFICATION Spec
CONSTANTS
    Keys = {k1}
    Rows = {r1,r2,bad}
    BadRows = {bad}
    Absent = Absent
    OtherKinds = {"null_op", "unexpected_op", "tombstone", "non_object"}
    Groups = {g1, g2}
    GroupOf <- MCGroupOf
    r1 = r1
    r2 = r2
    bad = bad
    g1 = g1
    g2 = g2
    MaxWal = 2
    MaxOthers = 1
    MaxRestarts = 0
    MaxCrashes = 1
    MaxLosses = 2
INVARIANTS
    RejectsAreKeptOnce
    BadRowsNeverLand
    ReplayNeverReachesSilver
    CaughtUpMeansCurrent
PROPERTIES
    MirrorsSource
