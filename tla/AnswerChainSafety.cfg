SPECIFICATION Spec
CONSTANTS
    Event = {e1}
    Components = 2
    Worker = {w1, w2}
    Process = {p1}
    Home <- OneProcess
    None = None
    MaxClaims = 2
    MaxTakeovers = 1
    MaxTools = 1

SYMMETRY Symmetry

INVARIANTS
    TypeOK
    EvidenceIsKept
    AppliedWasPlanned
PROPERTIES
    VoidedStaysOut
    ImplementsFencedTask
CHECK_DEADLOCK FALSE
