CONSTANTS
    Sup = Sup
    Target = Target
    Kids = {k1}
    Caller = Caller
    Outside = Outside
    Limit = 1
    Meddling = TRUE
SPECIFICATION FairSpec
INVARIANTS ProvenClean OutcomeTrue
PROPERTY LeavesNothing
