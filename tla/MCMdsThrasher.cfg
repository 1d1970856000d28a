SPECIFICATION MdsFairSpec
CONSTANTS
    a = a  b = b  c = c  d = d  f1 = f1  f2 = f2  None = None
    Clusters <- MCClusters
    MaxThrash = 1
    Weight <- SomeWeights
INVARIANT DeadAreVictims
INVARIANT VictimsDisjoint
PROPERTY KillsRankHolder
PROPERTY RevivedHoldsNoRank
PROPERTY MdsJoinReturns
