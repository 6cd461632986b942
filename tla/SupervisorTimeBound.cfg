CONSTANTS
    Plans <- AllPlans
    NoBound = NoBound
    Chunk = 2
    FailureStrikes = 3
    CriticalStrikes = 2
    MaxRuns = 1
    MaxSegments = 3
SPECIFICATION Spec
CHECK_DEADLOCK FALSE
INVARIANT
    TimeBoundRuns
