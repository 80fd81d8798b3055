SPECIFICATION FairSpec
CONSTANTS
    Run = {r1}
    Worker = {w1, daemon}
    None = None
    Faulty = {w1}
    LeaseTicks = 2
    Lag = 1
    HeartbeatsOnTime = TRUE
    MaxEpoch = 3
    MaxLeaseRevision = 5
    MaxRequests = 2
PROPERTIES
    ControlsSettle
    RunsAreAnswered
    AttemptsAreReceipted
CHECK_DEADLOCK FALSE
