SPECIFICATION Spec
CONSTANTS
    NoAmount = NoAmount
    NotANumber = NotANumber
    Requests <- MCRequests
    TransactionLimit = 10000000
    DefaultBalance = 5000000
    InternationalAtmLimit = 1000000
    EcommerceReviewLimit = 5000000
    InternationalPosReviewLimit = 3000000
    FailingAmount = 999000
    LargestStored = 20000000
INVARIANTS
    VerdictIsPolicy
    ErrorForCauseOnly
    CardSurvives
    CompletesUpToTheLimits
CHECK_DEADLOCK FALSE
