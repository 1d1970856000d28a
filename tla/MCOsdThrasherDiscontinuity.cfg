SPECIFICATION HealthySpec
CONSTANTS
    Osds = {o1, o2, o3}
    MinIn = 1
    MinOut = 0
    MinLive = 1
    MinDead = 0
    MaxDead = 1
    Timeout = FALSE
    Scrubs = FALSE
PROPERTIES
    DiscontinuityKills
CHECK_DEADLOCK FALSE
