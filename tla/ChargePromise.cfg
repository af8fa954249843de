SPECIFICATION FairSpec
CONSTANTS
    Kinds = {"card", "donation", "contribution"}
    Dvas = {FALSE}
    UniqueLogs = {TRUE, FALSE}
    Deliveries = {d1}
    Verifies = {}
    MaxDups = 2
    MaxFailures = 2
    MaxCrashes = 2
PROPERTIES
    KeepsPromise
CHECK_DEADLOCK FALSE
