SPECIFICATION FairSpec
CONSTANTS
    Mons = {m1, m2, m3, m4}
    MaintainQuorum = TRUE
    StoreThrash = TRUE
    Freezes = TRUE
INVARIANTS
    RoundsAreWhole
    LeavesMonsUp
    KillsKeepMajority
    IntactMajority
PROPERTIES
    MonJoinReturns
CHECK_DEADLOCK FALSE
