CONSTANTS
    RingCount = 3
    MaxGeneration = 8
    MaxInFlight = 4
    Workloads <- AnyApplication
SPECIFICATION Spec
INVARIANTS NoPermitLost
CHECK_DEADLOCK FALSE
