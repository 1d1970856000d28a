SPECIFICATION Spec
CONSTANTS
    Jobs <- MCJobs
    Resend = 2
    ScrubberCmd = "deep-scrub"
    Pools <- TwoPools
    MinSnaps = 1
    MaxSnaps = 2
    MaxIndex = 3
    ExpectSkew = FALSE
    NeverFail = FALSE
    AtLeastOnce = TRUE
    Deadline = 2
INVARIANTS
    PassedTestsRepaired
    SnapsMatchPools
    GreenletsEnd
    FailuresSurface
PROPERTIES
    JobEnds
CHECK_DEADLOCK FALSE
