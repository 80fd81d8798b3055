SPECIFICATION Spec
CONSTANTS
    Generation = {g1}
    Instance = {i1}
    Handoff = {h1}
    User = {u1}
    Derived = {g1}
    Courseware = {g1}
    None = None
    Gone = Gone
    Mortal = {}
    Faulty = {}
    PoolLimit = 1
    PerUser = 1
    LeaseTicks = 1
    Lag = 0
    HeartbeatsOnTime = TRUE
    Retried = {g1}
    MaxRetries = 1
    MaxSubmitted = 1
INVARIANTS
    LeasesHaveRunners
CHECK_DEADLOCK FALSE
