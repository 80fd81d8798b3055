SPECIFICATION Spec
CONSTANTS
    Generation = {g1, g2, g3}
    Instance = {i1}
    Handoff = {h1, h2}
    User = {u1}
    Derived = {g1, g2, g3}
    Courseware = {g3}
    None = None
    Gone = Gone
    Mortal = {i1}
    Faulty = {}
    PoolLimit = 2
    PerUser = 1
    LeaseTicks = 0
    Lag = 0
    HeartbeatsOnTime = FALSE
    Retried = {g1, g2}
    MaxRetries = 1
    MaxSubmitted = 2
SYMMETRY Symmetry
INVARIANTS
    RequeuedAfterItsRunner
    SharesAreKept
    CompletedIsSaved
CHECK_DEADLOCK FALSE
