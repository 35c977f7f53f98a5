SPECIFICATION FairSpec
CONSTANTS
    old = old
    new = new
    again = again
    edited = edited
    a = a
    b = b
    NoRun = NoRun
    NoContent = NoContent
    Runs = {old, new, again, edited}
    Files = {1, 2, 3}
    Contents = {a, b}
    Release <- MCRelease
    MaxErrors = 1
    MaxBreaks = 2
INVARIANTS
    RecordsAreTheSchema
    DoneMeansComplete
    AppliedInFilenameOrder
    FailsForCauseOnly
PROPERTIES
    EveryRunEnds
CHECK_DEADLOCK FALSE
