SPECIFICATION FairSpec
CONSTANTS
    Requests = {r1, r2}
    RateLimitMax = 2
    WindowMs = 1
    MsPerSecond = 2
    CountCap = 5
    Faults = {}
PROPERTIES LockoutEnds
