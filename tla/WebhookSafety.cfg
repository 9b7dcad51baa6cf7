SPECIFICATION Spec
CONSTANTS
    Endpoints = {e1}
    Messages = {m1}
    Subscribed <- Wildcard
    Workers = {w1, w2}
    Concurrency = 1
    MaxAttempts = 2
    PromoteBatch = 1
    MaxStream = 3
    MaxDeliveries = 2
    Administered = {e1}
    MaxFaults = 1
INVARIANTS
    TypeOK
    NoMessageLost
    AttemptsRecorded
PROPERTIES
    AckOnlyAfterHandoff
    ImplementsPromise
SYMMETRY Replicas
CHECK_DEADLOCK FALSE
