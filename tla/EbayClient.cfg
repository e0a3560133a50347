SPECIFICATION FairSpec
CONSTANTS
    c1 = c1
    c2 = c2
    c3 = c3
    Refresh = Refresh
    NoPump = NoPump
    NoToken = NoToken
    Callers = {c1, c2, c3}
    Tasks = {c1, c2, c3, Refresh}
    MaxConcurrent = 2
    MaxQueue = 2
    MinTime = 2
    MaxRetries = 1
    MaxTokens = 1
INVARIANTS
    TypeOK
    NoLostWakeup
    SlotsAccounted
    OneRefresh
PROPERTY
    EveryRequestEnds
CHECK_DEADLOCK FALSE
