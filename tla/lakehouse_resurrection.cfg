SPECIFICATION Spec
CONSTANTS
    Keys = {k1}
    Rows = {r1}
    BadRows = {}
    Absent = Absent
    OtherKinds = {}
    Groups = {g1, g2}
    GroupOf <- MCGroupOf
    r1 = r1
    r2 = r2
    bad = bad
    g1 = g1
    g2 = g2
    MaxWal = 2
    MaxOthers = 0
    MaxRestarts = 1
    MaxCrashes = 0
    MaxLosses = 0
INVARIANTS
    DeletedStaysDeleted
