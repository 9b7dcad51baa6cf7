SPECIFICATION FairSpec
CONSTANTS
    single = single
    pair = pair
    other = other
    Writers <- Requests
    Size <- Sizes
    Stamps = {1, 2}
    MaxSweeps = 2
    NoWriter = NoWriter
INVARIANTS
    ChainVerifies
    EvidenceContiguous
    BatchesWhole
PROPERTIES
    AppendOnly
    WritersFinish
CHECK_DEADLOCK FALSE
