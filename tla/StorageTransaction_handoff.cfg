SPECIFICATION FairSpec
CONSTANTS
    t1 = t1
    t2 = t2
    t3 = t3
    f1 = f1
    f2 = f2
    Threads <- ThreeThreads
    Files <- OneFile
    Rollbackers <- Third
    MaxLevel = 1
    MaxBegins = 1
    NoThread = NoThread
    NoFile = NoFile
PROPERTIES
    ImplementsUnits
    EveryWaiterWakes
