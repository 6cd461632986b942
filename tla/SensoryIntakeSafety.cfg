CONSTANTS
    Order <- TwoSources
    MaxWrites = 3
    Width <- Widths
    Content <- Contents
    KeyLength = 1
    MaxInFile = 2
    MaxPerPoll = 2
    MaxTotal = 3
    Capacity = 2
    Batch = 1
    Window = 1
    MaxPolls = 3
SPECIFICATION Spec
CHECK_DEADLOCK FALSE
INVARIANTS
    InOrderOnce
    NothingSkipped
    TotalBounded
