SPECIFICATION FairSpec
CONSTANTS
    e1 = e1
    e2 = e2
    s1 = s1
    s2 = s2
    w1 = w1
    w2 = w2
    NoOne = NoOne
    Deliveries = {e1, s1}
    Workers = {w1}
    Channels = {"EMAIL", "SMS"}
    ChannelOf <- Mixed
    MaxAttempts = 2
    BatchSize = 1
    MaxPerMinute = 1
    GatewayMasks = FALSE
INVARIANT
    SuppressedNotSent
PROPERTY
    EveryDeliverySettles
