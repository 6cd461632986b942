CONSTANTS
    MaxSteps = 2
    Interval = 1
    PruneInterval = 2
    MaxStarts = 2
    Reactions = {TRUE, FALSE}
    NoFile = NoFile
    Torn = Torn
SPECIFICATION Spec
CHECK_DEADLOCK FALSE
INVARIANT
    AlwaysRestartable
