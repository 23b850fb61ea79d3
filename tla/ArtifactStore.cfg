SPECIFICATION Spec
CONSTANTS
    s1 = s1
    s2 = s2
    f1 = f1
    f2 = f2
    f3 = f3
    f4 = f4
    f5 = f5
    g1 = g1
    Storages <- Two
    Storers <- Second
    Pruners <- First
    Files <- All
    Intact <- Good
    MaxCalls = 2
    MaxTampers = 1
    NoStorage = NoStorage
    NoFile = NoFile
SYMMETRY InodesAlike
CHECK_DEADLOCK FALSE
INVARIANTS
    BytesSurvive
    RowNamesBytes
    RetiredUnreferenced
PROPERTIES
    OthersKept
    MarkerOutlivesDoubt
