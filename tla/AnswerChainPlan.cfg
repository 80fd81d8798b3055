SPECIFICATION Spec
CONSTANTS
    Event = {e1}
    Components = 1
    Worker = {w1}
    Process = {p1}
    Home <- OneProcess
    None = None
    MaxClaims = 1
    MaxTakeovers = 0
    MaxTools = 1

INVARIANT
    AppliedIsPlanned
CHECK_DEADLOCK FALSE
