SPECIFICATION Spec
CONSTANTS
    c1 = c1
    c2 = c2
    r1 = r1
    r2 = r2
    s1 = s1
    q1 = q1
    x1 = x1
    Calls <- TwoCalls
    Repos <- TwoRepos
    Repo <- OwnRepo
    Seeds <- OneSeed
    Searches <- None
    Required <- OneSeed
    Candidates <- None
    TTL = 1
    Timeout = 2
    MaxRequests = 2
    MaxPages = 1
    MaxConcurrency = 2
    MaxRetries = 1
    Mortal <- First
    MayCancel = TRUE
    Prompt = FALSE
    NoCall = NoCall
    NoTask = NoTask
INVARIANTS TypeOK OneSender AccountsAgree
PROPERTIES WritesUnderOwnLease ImplementsTaskRun
CHECK_DEADLOCK FALSE
