SPECIFICATION FairSpec
CONSTANTS
    Osds = {o1, o2, o3}
    MinIn = 1
    MinOut = 0
    MinLive = 1
    MinDead = 0
    MaxDead = 1
    Timeout = TRUE
    Scrubs = TRUE
INVARIANTS
    LiveDaemonsRun
    MapInIsListed
    BooksAgree
    AllUpAtEnd
PROPERTIES
    KeepsMembership
    JoinReturns
CHECK_DEADLOCK FALSE
