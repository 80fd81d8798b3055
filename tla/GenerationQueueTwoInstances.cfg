SPECIFICATION Spec
CONSTANTS
    Generation = {g1, g2}
    Instance = {i1, i2}
    Handoff = {}
    User = {u1}
    Derived = {}
    Courseware = {}
    None = None
    Gone = Gone
    Mortal = {i1}
    Faulty = {i1}
    PoolLimit = 1
    PerUser = 2
    LeaseTicks = 1
    Lag = 0
    HeartbeatsOnTime = TRUE
    Retried = {}
    MaxRetries = 0
    MaxSubmitted = 2
SYMMETRY Symmetry
INVARIANTS
    TypeOK
    CompletedIsSaved
    OneInstancePerGeneration
    PoolIsKept
PROPERTIES
    CancelPrevails
CHECK_DEADLOCK FALSE
