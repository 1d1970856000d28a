SPECIFICATION Spec
CONSTANTS
    Jobs = {"cifs"}
    Code <- MCTwoClients
    Uses <- MCUses
    Within <- MCWithin
    LastingKinds <- MCLasting
    MaxFaults = 0
INVARIANTS
    FaultFreeIsClean
