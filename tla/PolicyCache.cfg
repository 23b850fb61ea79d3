CONSTANTS
    t1 = t1
    t2 = t2
    t3 = t3
    o1 = o1
    o2 = o2
    Threads = {t1, t2, t3}
    Origins = {o1, o2}
    TTL = 1
    MaxCalls = 1
    MaxGeneration = 1
    MaxTime = 1
SPECIFICATION FairSpec
INVARIANTS SingleFlight NoStaleRepopulation NoAnswerOlderThanCall
PROPERTY LookupEnds
