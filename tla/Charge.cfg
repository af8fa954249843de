SPECIFICATION Spec
CONSTANTS
    Kinds = {"card", "dva", "donation", "contribution"}
    Dvas = {TRUE, FALSE}
    UniqueLogs = {TRUE, FALSE}
    Deliveries = {d1, d2}
    Verifies = {v1}
    MaxDups = 2
    MaxFailures = 2
    MaxCrashes = 1
SYMMETRY Symmetry
INVARIANTS
    TypeOK
    RecordedOnce
    CompletedIsRecorded
CHECK_DEADLOCK FALSE
