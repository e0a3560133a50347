SPECIFICATION Spec
CONSTANTS
    Items = {x1, x2}
    Matchers = {m1}
    Deciders = {d1}
    Assessors = {a1}
    MaxAttempts = 2
    BatchSize = 2
    Cash = 1
    None = None
    MaxOverruns = 2
    Reasons = {"CAPITAL_GATE_BUDGET_EXCEEDED", "CAPITAL_GATE_NO_ACCEPTED_COMPS", "CAPITAL_GATE_LOW_COMP_COUNT"}
INVARIANT UnfundedNotQueued
CHECK_DEADLOCK FALSE
