SPECIFICATION Spec
CONSTANTS
    e1 = e1
    e2 = e2
    s1 = s1
    s2 = s2
    w1 = w1
    w2 = w2
    NoOne = NoOne
    Deliveries = {e1, e2}
    Workers = {w1, w2}
    Channels = {"EMAIL"}
    ChannelOf <- EmailOnly
    MaxAttempts = 2
    BatchSize = 2
    MaxPerMinute = 1
    GatewayMasks = FALSE
SYMMETRY Swaps
INVARIANTS
    TypeOK
    OneSenderPerDelivery
    NoResendAfterAmbiguity
    AtMostOneAcceptance
    AcceptanceIsReal
    OutboxAgreesWithDelivery
    QueuedHasAttemptLeft
PROPERTY
    KeepsPromise
