SPECIFICATION FairSpec
CONSTANTS
    Rows = {r1, r2}
    Workers = {w1, w2}
    Batch = 2
    Concurrency = 1
    MaxAttempts = 2
    Requested = {0, 1, 2, 3}
    MaxFaults = 1
PROPERTY
    CrashedSendIsRetried
CHECK_DEADLOCK FALSE
