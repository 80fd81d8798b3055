SPECIFICATION FairSpec
CONSTANTS
    Completion = {c1}
    Stream = {s1}
    Pictured = {s1}
    Route = {r1, r2}
    Blind = {r1}
    MaxRoutes = 2
    Budget = 2
    Threshold = 2
    Cooldown = 1
    MaxFailures = 3
    MaxClock = 2
    MaxFaults = 1
INVARIANTS
    TypeOK
    RequestsAreNotReplayed
PROPERTIES
    FailingRoutesRest
    CallsAreAnswered
CHECK_DEADLOCK FALSE
