SPECIFICATION FairSpec
CONSTANTS
    r1 = r1
    b1 = b1
    rbd = rbd
    RadosTasks = {r1}
    BenchTasks = {b1}
    Clients <- TwoAndOne
    Jobs <- MCPoolJobs
    GrowBy = 1
    MaxTries = 1
    MaxPools = 3
    PgBound = 2
INVARIANTS
    TaskAssertionsHold
    KnownPoolsExist
    SizesNotUnderstated
    RadosLeavesNothing
PROPERTY
    TasksEnd
CHECK_DEADLOCK FALSE
