SPECIFICATION Spec
CONSTANTS
    Requests = {r1, r2}
    Sweeps = {s1}
    Exclusive = FALSE
    PoolSizes = {2, 3}
    MayFail = {}
    MaxAssignments = 3
    MaxCrashes = 0
SYMMETRY Symmetry
INVARIANTS
    TypeOK
    DecisionsRestOnVotes
    FeedIsTrue
    NoQuorumMeansExhausted
CHECK_DEADLOCK FALSE
