CONSTANTS
    Targets = {rate, tendency}
    Safe = {0, 2, 4}
    Unsafe = {9}
    Default = 0
    Kept <- Rounded
    Governed = FALSE
    MaxSteps = 2
    MaxBatch = 2
    MaxStarts = 2
    NoValues = NoValues
SPECIFICATION Spec
CHECK_DEADLOCK FALSE
INVARIANT
    FreshProcessUnwinds
