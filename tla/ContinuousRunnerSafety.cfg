CONSTANTS
    MaxSteps = 3
    Interval = 2
    PruneInterval = 3
    MaxStarts = 2
    Reactions = {TRUE, FALSE}
    NoFile = NoFile
    Torn = Torn
SPECIFICATION FairSpec
CHECK_DEADLOCK FALSE
PROPERTY
    RunEnds
    LifetimeNeverRegresses
    RefinesContinuity
INVARIANTS
    TypeOK
    ManifestNeverAhead
    ArchiveNeverAhead
    CleanShutdownKeepsEverything
    NoSilentDeath
    OneIdentity
    LossBounded
    GapExactAfterRest
    LifetimeNeverOverstates
    RelivedOnlyAfterLoss
    StoredSignalsTraced
