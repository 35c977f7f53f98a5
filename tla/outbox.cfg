SPECIFICATION FairSpec
CONSTANTS
    o1 = o1
    o2 = o2
    Processors = {o1, o2}
    Events = {1, 2}
    BatchSize = 2
    MaxRecoveries = 2
    MaxCrashes = 1
    MaxSlow = 1
    MaxRedisErrors = 1
    MaxDbErrors = 1
INVARIANTS
    SentMeansAdded
    GivenUpForCauseOnly
    AddedAgainForCauseOnly
    OneProcessPerEvent
PROPERTIES
    SettledReopensOnlyAfterFault
    EveryEventSettles
