SPECIFICATION FairSpec
CONSTANTS
    Deliveries = {d1, d2}
    UniqueLogs = {TRUE, FALSE}
    CallsFail = TRUE
    Freezes = TRUE
    MaxDups = 2
    MaxErrors = 1
    MaxCrashes = 1
INVARIANTS
    TypeOK
    PaidIsNotRefunded
    FailedIsRefunded
    RefundsBoundedByOverlap
PROPERTIES
    FinalNeverReopens
    SettlesOnceCodeIsSaved
CHECK_DEADLOCK FALSE
