SPECIFICATION FairSpec
CONSTANTS
    Requests = {r1}
    Sweeps = {s1}
    Exclusive = TRUE
    PoolSizes = {1, 2, 3}
    MayFail = {"voteAsg", "voteTx", "advance", "announce", "cancel", "execute",
               "sweepNext", "sweepTimeout", "sweepRead"}
    MaxAssignments = 4
    MaxCrashes = 1
INVARIANTS
    ApprovedByTwoDonors
    OneAssignmentPerPick
PROPERTIES
    IsAnApproval
    PendingSettles
CHECK_DEADLOCK FALSE
