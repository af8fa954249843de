SPECIFICATION Spec
CONSTANTS
    Deliveries = {d1, d2}
    UniqueLogs = {TRUE}
    CallsFail = FALSE
    Freezes = FALSE
    MaxDups = 1
    MaxErrors = 0
    MaxCrashes = 0
INVARIANTS RefundAtMostOnce
CHECK_DEADLOCK FALSE
