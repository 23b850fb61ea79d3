SPECIFICATION FairSpec
CONSTANTS
    t1 = t1
    t2 = t2
    o1 = o1
    Threads = {t1, t2}
    Origins = {o1}
    Pacing = 1
    Window = 4
    Limit = 2
    TTL = 1
    Ages = {0, 1}
    Skew = 3
    LastArrival = 1
    MaxTime = 5
    MaxCalls = 2
    MaxGeneration = 1
    MaxHops = 1
INVARIANTS ClaimFollowsHop 
PROPERTIES SentUnderLivePolicy RequestEnds
