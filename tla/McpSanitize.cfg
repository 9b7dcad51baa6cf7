SPECIFICATION Spec
CONSTANTS
    s1 = s1
    s2 = s2
    s3 = s3
    read = read
    send = send
    odd = odd
    fine = fine
    poison = poison
    secret = secret
    mild = mild
    huge = huge
    blank = blank
    None = None
    Redacted = Redacted
    Configs <- AllConfigs
    Published <- AllTools
    Packages <- AllPackages
    Texts <- AllTexts
    Judge <- Judgement
    Calls <- AllCalls
    Results <- AllResults
    Clients = {c1, c2}
    MaxTurns = 3
    MaxFaults = 1
INVARIANT
    SanitizedIsReplaced
CHECK_DEADLOCK FALSE
