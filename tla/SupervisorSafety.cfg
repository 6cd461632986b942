CONSTANTS
    Plans <- MixedPlans
    NoBound = NoBound
    Chunk = 2
    FailureStrikes = 2
    CriticalStrikes = 2
    MaxRuns = 2
    MaxSegments = 3
SPECIFICATION FairSpec
CHECK_DEADLOCK FALSE
INVARIANTS
    TypeOK
    SentinelHonoured
    StrikesStop
    BudgetKept
    AllStepsLived
    QuietRunRests
    ReasonTold
    EvidenceFirst
PROPERTIES
    BoundedRunEnds
    SentinelEnds
