SPECIFICATION Spec
CONSTANTS
    Jobs <- MCJobs
    Code <- MCCode
    Uses <- MCUses
    Within <- MCWithin
    LastingKinds <- MCLasting
    MaxFaults = 2
INVARIANTS
    JobsAreTidy
    FaultFreeIsClean
    ScopeCleansUp
PROPERTIES
    DependentsFirst
