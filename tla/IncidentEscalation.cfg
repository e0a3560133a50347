SPECIFICATION FairSpec
CONSTANTS
    w1 = w1
    w2 = w2
    NoOne = NoOne
    Steps = {1}
    NeedsAck = {1}
    Repeats = 2
    Workers = {w1, w2}
    Targets = {"INVESTIGATING", "RESOLVED"}
    MaxActivations = 2
    MaxEmissions = 2
INVARIANTS
    TypeOK
    AtMostOneAfterStop
    WaitingIsOut
    RepeatsInOrder
PROPERTY
    NothingStrands
CHECK_DEADLOCK FALSE
