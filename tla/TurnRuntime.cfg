SPECIFICATION FairSpec
CONSTANTS
    Connection <- Connections
    Session = {s1}
    Turn <- Turns
    NoTurn = 0
    NoSession = NoSession
    MaxOpen = 1
    MaxOutputs = 1
    MaxReplies = 1
    MaxFaults = 1
INVARIANTS
    TypeOK
    StreamsAreWhole
    CompletedIsPersisted
    WorkingTurnsRun
PROPERTIES
    RunsSettleTheirRows
    EveryViewIsClosed
    DisconnectStopsTheTurn
CHECK_DEADLOCK FALSE
