SPECIFICATION Spec
CONSTANTS
    Endpoints = {e1}
    Messages = {m1, m2}
    Subscribed <- Wildcard
    Workers = {w1, w2}
    Concurrency = 1
    MaxAttempts = 2
    PromoteBatch = 1
    MaxStream = 3
    MaxDeliveries = 2
    Administered = {}
    MaxFaults = 0
INVARIANT
    NoDoubleSend
CHECK_DEADLOCK FALSE
