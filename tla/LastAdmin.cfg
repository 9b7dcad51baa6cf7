SPECIFICATION Spec
CONSTANTS
    Users = {u1, u2}
    Clients = {c1, c2}
    NoRow = NoRow
    MaxFailed = 1
    MaxSessions <- Tokens
    MaxVersion <- Raises
    MaxFaults = 0
    Scopes = {{"create", "demote"}}
INVARIANT
    AdminRemains
CHECK_DEADLOCK FALSE
