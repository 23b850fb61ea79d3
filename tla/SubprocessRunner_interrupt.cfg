CONSTANTS
    Sup = Sup
    Target = Target
    Kids = {k1}
    Caller = Caller
    Outside = Outside
    Limit = 1
    Meddling = FALSE
SPECIFICATION Spec
PROPERTY InterruptReraised
