SPECIFICATION Spec
CONSTANTS
    Deliveries = {d1}
    Sweepers = {p1}
    Admins = {a1, a2}
    Secrets = {s1, s2, s3}
    Threshold = 1
    LeaseTTL = 1
    Grace = 1
    None = None
INVARIANT
    SecretsOverlap
CHECK_DEADLOCK FALSE
