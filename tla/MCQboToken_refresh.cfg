SPECIFICATION FairSpec
CONSTANTS
    Calls = {c1, c2}
    Wait = 1
    Timeout = 1
    Lease = 2
    Ttl = 2
    EarlyBy = 1
    MaxGrants = 1
    MaxTokens = 2
    MaxMishaps = 1
    MaxNow = 3
INVARIANTS QboTypeOK LeaseIsHeld
PROPERTY EveryCallEnds
CHECK_DEADLOCK FALSE
