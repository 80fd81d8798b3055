SPECIFICATION Spec
CONSTANTS
    Generation = {g1}
    Instance = {i1, i2}
    Handoff = {}
    User = {u1}
    Derived = {}
    Courseware = {}
    None = None
    Gone = Gone
    Mortal = {}
    Faulty = {}
    PoolLimit = 1
    PerUser = 1
    LeaseTicks = 1
    Lag = 0
    HeartbeatsOnTime = TRUE
    Retried = {g1}
    MaxRetries = 2
    MaxSubmitted = 1
INVARIANTS
    OneInstancePerGeneration
CHECK_DEADLOCK FALSE
