CONSTANTS
    Targets = {rate, tendency}
    Safe = {2, 3, 4}
    Unsafe = {5, 9}
    Default = 5
    Kept <- Rounded
    Governed = TRUE
    MaxSteps = 2
    MaxBatch = 2
    MaxStarts = 3
    NoValues = NoValues
SYMMETRY Symmetry
SPECIFICATION Spec
CHECK_DEADLOCK FALSE
INVARIANTS
    TypeOK
    InBounds
    ToldUnlessCaught
    HistoryUnwinds
PROPERTIES
    NeverUndoneTwice
