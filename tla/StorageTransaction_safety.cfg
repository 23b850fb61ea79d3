SPECIFICATION Spec
CONSTANTS
    t1 = t1
    t2 = t2
    t3 = t3
    f1 = f1
    f2 = f2
    Threads <- ThreeThreads
    Files <- OneFile
    Rollbackers <- Nobody
    MaxLevel = 2
    MaxBegins = 3
    NoThread = NoThread
    NoFile = NoFile
SYMMETRY AllAlike
INVARIANTS
    TypeOK
    NoForeignWriteJoins
    NoWaiterWhenFree
    CommittedFilesSurvive
    NoOrphanFiles
PROPERTIES
    EndedByOwner
    WritesDeferred
    ImplementsUnits
