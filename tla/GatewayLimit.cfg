SPECIFICATION SdkSpec
CONSTANTS
    hello = hello
    shout = shout
    weak = weak
    attack = attack
    encoded = encoded
    personal = personal
    masked = masked
    stuffed = stuffed
    k1 = k1
    k2 = k2
    i1 = i1
    i2 = i2
    near = near
    far = far
    c1 = c1
    c2 = c2
    NoVal = NoVal
    Texts <- AllTexts
    Profile <- Profiles
    Fold <- Folds
    TransformerReady = TRUE
    MaxViews = 2
    MaxDecodeDepth = 2
    Env <- Defaults
    Keys = {k1, k2}
    Admins = {a1, a2}
    Addresses = {near, far}
    FirstKeys <- First
    Platform <- PlatformRecords
    ThresholdBodies <- Thresholds
    LayerBodies <- Layers
    LimitBodies <- Limits
    Overrides <- PolicyOverrides
    ProviderConfigs <- Configs
    JudgeBodies <- Judges
    SectionBodies <- OverrideSections
    MaxAdminOps = 2
    Clients = {c1, c2}
    Requests <- AllRequests
    Replies = {hello, personal}
    IdemKeys = {i1, i2}
    Scopes <- BatchScopes
    File <- Lines
    LineLimit = 2
    CliKey = k1
    MaxAttempts = 2
INVARIANT
    BatchWithinLimit
