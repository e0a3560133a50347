SPECIFICATION Spec
CONSTANTS
    Items = {x1}
    Matchers = {m1, m2}
    Deciders = {d1, d2}
    Assessors = {a1}
    MaxAttempts = 3
    BatchSize = 1
    Cash = 1
    None = None
    MaxOverruns = 1
    Reasons = {"CAPITAL_GATE_BUDGET_EXCEEDED", "CAPITAL_GATE_NO_ACCEPTED_COMPS", "CAPITAL_GATE_LOW_COMP_COUNT",
               "LOW_STARTING_BID_MONITOR_AUCTION_RISK"}
SYMMETRY Swaps
INVARIANTS
    TypeOK
    QueuedIsSearched
    DecidedOnce
    AutoBuyIsClean
CHECK_DEADLOCK FALSE
