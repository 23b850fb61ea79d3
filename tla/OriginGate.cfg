CONSTANTS
    t1 = t1
    t2 = t2
    t3 = t3
    o1 = o1
    Threads = {t1, t2, t3}
    Origins = {o1}
    Pacing = 1
    Window = 4
    Limit = 2
    TTL = 3
    Ages = {0, 2}
    Skew = 0
    LastArrival = 2
    MaxTime = 6
SPECIFICATION FairSpec
INVARIANTS FifoPaced BudgetHonoured SleeperIsServed NoOrphanTicket
PROPERTIES UnitsNeverReturned QueueDrains
