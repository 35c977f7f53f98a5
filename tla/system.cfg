SPECIFICATION FairSystemSpec
CONSTANTS
    o1 = o1
    o2 = o2
    w1 = w1
    w2 = w2
    NoInstance = NoInstance
    NoTxn = NoTxn
    Txns = {1}
    Verdict <- MCVerdict
    Processors = {o1, o2}
    BatchSize = 2
    MaxRecoveries = 2
    Instances = {w1, w2}
    MaxAttempts = 2
    MaxStalledCount = 0
    MaxOutboxCrashes = 1
    MaxSlow = 0
    MaxRedisErrors = 1
    MaxOutboxDbErrors = 1
    MaxCrashes = 1
    MaxPauses = 0
    MaxDbErrors = 1
    MaxLates = 0
    MaxAdds = 4
INVARIANTS
    NeverForgotten
PROPERTIES
    FollowsLifecycle
    EveryPaymentSettles
CHECK_DEADLOCK FALSE
