SPECIFICATION Spec
CONSTANTS
    Run = {r1}
    Worker = {w1, w2}
    None = None
    Faulty = {w1, w2}
    LeaseTicks = 2
    Lag = 1
    HeartbeatsOnTime = FALSE
    MaxEpoch = 3
    MaxLeaseRevision = 5
    MaxRequests = 2
SYMMETRY Symmetry
INVARIANTS
    TypeOK
    EpochsAreExclusive
    RecordsCoherent
    OneReceiptPerAttempt
    StatusMatchesReceipts
    AcceptedOnRequest
PROPERTIES
    TerminalIsFinal
    RequestsActOnWhatWasSeen
    AppendsSupersede
    OnlyTheHolderAnswers
    ImplementsFencedTask
CHECK_DEADLOCK FALSE
