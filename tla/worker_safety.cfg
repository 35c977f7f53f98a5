SPECIFICATION TimelineSpec
CONSTANTS
    w1 = w1
    w2 = w2
    pays = pays
    fails = fails
    NoInstance = NoInstance
    NoTxn = NoTxn
    Instances = {w1, w2}
    Txns = {pays, fails}
    Verdict <- MCVerdict
    MaxAttempts = 2
    MaxStalledCount = 1
    MaxAdds = 2
    MaxCrashes = 1
    MaxPauses = 1
    MaxDbErrors = 1
    MaxLates = 1
SYMMETRY Symmetry
INVARIANTS
    TypeOK
    ClaimsAreFenced
    SettledWhenOver
    ResetSparesLiveClaims
    EveryClaimIsOnRecord
PROPERTIES
    FinalChangesOnlyAfterFault
    FinalWriteOnlyAppends
CHECK_DEADLOCK FALSE
