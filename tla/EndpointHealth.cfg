SPECIFICATION FairSpec
CONSTANTS
    Deliveries = {d1, d2}
    Sweepers = {p1, p2}
    Admins = {a1, a2}
    Secrets = {s1, s2, s3}
    Threshold = 1
    LeaseTTL = 1
    Grace = 1
    None = None
INVARIANT
    RowConsistent
PROPERTIES
    OnlyOverlapDropsSecrets
    AbandonedIsRetired
CHECK_DEADLOCK FALSE
