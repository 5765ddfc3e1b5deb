SPECIFICATION Spec
CONSTANTS
    LastJob = 2
    LastRow = 1
    Cleaners = {c1, c2}
    Singles = {1}
    Cancels = {1}
    SlowRunners = {1}
INVARIANTS
    TypeOK
    SucceededMeansCollected
    RunnerHoldsLock
