SPECIFICATION FairSpec
CONSTANTS
    Keys = {k1}
    Rows = {r1}
    BadRows = {}
    Absent = Absent
    OtherKinds = {"non_object"}
    Groups = {g1, g2}
    GroupOf <- MCGroupOf
    r1 = r1
    r2 = r2
    bad = bad
    g1 = g1
    g2 = g2
    MaxWal = 1
    MaxOthers = 1
    MaxRestarts = 0
    MaxCrashes = 0
    MaxLosses = 0
PROPERTIES
    EveryRecordReachesBronze
