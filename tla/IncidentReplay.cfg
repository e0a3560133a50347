SPECIFICATION Spec
CONSTANTS
    w1 = w1
    w2 = w2
    NoOne = NoOne
    Steps = {1}
    NeedsAck = {1}
    Repeats = 1
    Workers = {w1}
    Targets = {"RESOLVED"}
    MaxActivations = 1
    MaxEmissions = 2
INVARIANT TakenIsNotFailed
CHECK_DEADLOCK FALSE
