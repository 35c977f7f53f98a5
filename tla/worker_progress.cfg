SPECIFICATION FairSpec
CONSTANTS
    w1 = w1
    w2 = w2
    pays = pays
    fails = fails
    NoInstance = NoInstance
    NoTxn = NoTxn
    Instances = {w1, w2}
    Txns = {pays, fails}
    Verdict <- MCVerdict
    MaxAttempts = 2
    MaxStalledCount = 1
    MaxAdds = 1
    MaxCrashes = 1
    MaxPauses = 1
    MaxDbErrors = 1
    MaxLates = 0
INVARIANTS
    FailedHasDeadLetter
    DeadLetterIsParked
PROPERTIES
    SettlesDespiteDbError
    ExhaustedIsDeadLettered
    NoRowStaysProcessing
CHECK_DEADLOCK FALSE
