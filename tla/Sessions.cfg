SPECIFICATION FairSpec
CONSTANTS
    Users = {u1, u2}
    Clients = {c1, c2}
    NoRow = NoRow
    MaxFailed = 1
    MaxSessions <- Tokens
    MaxVersion <- Raises
    MaxFaults = 1
    Scopes = {{"guess", "unlock"}, {"logout"}, {"refresh", "change"}, {"refresh", "cleanup"},
              {"refresh", "reset"}, {"create", "deactivate", "reactivate"}, {"bootstrap"},
              {"create", "promote", "demote", "deactivate", "reactivate"}}
INVARIANTS
    RefreshOnce
    InvalidationReachesInFlight
    ResetEndsSessions
    LockoutBoundsGuesses
    SetupOnce
    OnlyUpdatesDeadlock
PROPERTY
    RevocationTakesEffect
CHECK_DEADLOCK FALSE
