SPECIFICATION FairSpec
CONSTANTS
    e1 = e1
    e2 = e2
    w1 = w1
    w2 = w2
    Everything = Everything
    NoOne = NoOne
    Events = {e1, e2}
    Workers = {w1, w2}
    Rules = {1, 2}
    Channels = {"EMAIL"}
    Scope <- RuleScope
    Window = 1
    MaxAttempts = 2
    BatchSize = 1
INVARIANTS
    TypeOK
    DecidedIsPlanned
    SuppressionHasCause
PROPERTY
    EveryEventSettles
CHECK_DEADLOCK FALSE
