SPECIFICATION FairSpec
CONSTANTS
    w1 = w1
    w2 = w2
    pays = pays
    fails = fails
    NoInstance = NoInstance
    NoTxn = NoTxn
    Instances = {w1, w2}
    Txns = {pays}
    Verdict <- MCVerdict
    MaxAttempts = 3
    MaxStalledCount = 1
    MaxAdds = 1
    MaxCrashes = 1
    MaxPauses = 0
    MaxDbErrors = 0
    MaxLates = 0
PROPERTIES
    StuckTransactionRecovers
CHECK_DEADLOCK FALSE
