SPECIFICATION FairSpec
CONSTANTS
    d1 = d1
    d2 = d2
    t1 = t1
    t2 = t2
    t3 = t3
    r1 = r1
    r2 = r2
    NoOne = NoOne
    Deliveries = {d1}
    Events = {t1, t2, t3}
    Workers = {r1, r2}
    MaxTime = 2
    BatchSize = 2
INVARIANTS
    TypeOK
    EvidenceShows
PROPERTIES
    OnlyAcceptedSettles
    EveryTaskSurfaces
