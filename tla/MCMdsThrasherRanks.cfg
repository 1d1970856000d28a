SPECIFICATION MdsSpec
CONSTANTS
    a = a  b = b  c = c  d = d  f1 = f1  f2 = f2  None = None
    Clusters <- ThreeRanks
    MaxThrash = 1
    Weight <- AllPositive
SYMMETRY MdsSymmetry
INVARIANT DeactivatesRanks
