SPECIFICATION FairSpec
CONSTANTS
    Endpoints = {e1}
    Messages = {m1, m2}
    Subscribed <- Wildcard
    Workers = {w1, w2}
    Concurrency = 4
    MaxAttempts = 1
    PromoteBatch = 2
    MaxStream = 8
    MaxDeliveries = 4
    Administered = {}
    MaxFaults = 1
PROPERTIES
    EventuallySettled
    QueueDrains
CHECK_DEADLOCK FALSE
