SPECIFICATION Spec
CONSTANTS
    Event = {e1}
    Components = 2
    Worker = {w1, w2}
    Process = {p1}
    Home <- OneProcess
    None = None
    MaxClaims = 1
    MaxTakeovers = 0
    MaxTools = 0

INVARIANT
    VoidedIsRetracted
CHECK_DEADLOCK FALSE
