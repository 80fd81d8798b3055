SPECIFICATION FairSpec
CONSTANTS
    Generation = {g1, g2}
    Instance = {i1}
    Handoff = {}
    User = {u1}
    Derived = {}
    Courseware = {}
    None = None
    Gone = Gone
    Mortal = {}
    Faulty = {}
    PoolLimit = 1
    PerUser = 1
    LeaseTicks = 1
    Lag = 0
    HeartbeatsOnTime = TRUE
    Retried = {}
    MaxRetries = 0
    MaxSubmitted = 2
PROPERTIES
    QueuedIsClaimed
CHECK_DEADLOCK FALSE
