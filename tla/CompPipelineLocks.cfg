SPECIFICATION Spec
CONSTANTS
    p1 = p1
    p2 = p2
    w1 = w1
    w2 = w2
    q1 = q1
    q2 = q2
    NoOne = NoOne
    Listings = {p1, p2}
    Workers = {w1, w2}
    Retriers = {q1}
    MaxAttempts = 2
    MaxThrottleAttempts = 3
    BatchSize = 2
    Recoverable = {}
    Punctual = TRUE
SYMMETRY Swaps
INVARIANTS
    TypeOK
    OneAtATime
PROPERTIES
    PutOffUntilDue
