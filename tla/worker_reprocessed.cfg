SPECIFICATION Spec
CONSTANTS
    w1 = w1
    w2 = w2
    pays = pays
    fails = fails
    NoInstance = NoInstance
    NoTxn = NoTxn
    Instances = {w1, w2}
    Txns = {pays}
    Verdict <- MCVerdict
    MaxAttempts = 3
    MaxStalledCount = 1
    MaxAdds = 1
    MaxCrashes = 0
    MaxPauses = 0
    MaxDbErrors = 1
    MaxLates = 0
SYMMETRY Symmetry
PROPERTIES
    FinalizedNotReprocessed
CHECK_DEADLOCK FALSE
