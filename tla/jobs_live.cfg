SPECIFICATION FairSpec
CONSTANTS
    LastJob = 2
    LastRow = 2
    Cleaners = {c1}
    Singles = {}
    Cancels = {1}
    SlowRunners = {}
INVARIANTS
    JobResultMatchesRows
PROPERTIES
    UncancelledJobEnds
    LockReleased
    ImplementsPromise
CHECK_DEADLOCK FALSE
