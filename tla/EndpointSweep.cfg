SPECIFICATION FairSpec
CONSTANTS
    Deliveries = {d1}
    Sweepers = {p1}
    Admins = {a1}
    Secrets = {s1, s2}
    Threshold = 1
    LeaseTTL = 1
    Grace = 1
    None = None
PROPERTY
    HealthyNotDisabled
CHECK_DEADLOCK FALSE
