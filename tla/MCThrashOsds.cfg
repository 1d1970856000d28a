SPECIFICATION FairTaskSpec
CONSTANTS
    Osds = {o1, o2}
    MinIn = 1
    MinLive = 0
INVARIANTS
    FlagsFollowState
    FinishedIsClean
PROPERTIES
    HelpersWindDown
    TaskEnds
CHECK_DEADLOCK FALSE
