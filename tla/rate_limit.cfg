SPECIFICATION FairSpec
CONSTANTS
    c1 = c1
    c2 = c2
    Clients = {c1, c2}
    MaxRequests = 2
    Window = 3
    MaxDelay = 1
    MaxRedisFaults = 1
INVARIANTS
    QuotaIsKept
    BurstsAreBounded
    RefusedForCauseOnly
PROPERTIES
    RefusalEnds
