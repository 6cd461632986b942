CONSTANTS
    p1 = p1
    p2 = p2
    Processes <- BothProcesses
    Requests = {a1}
    AnyRun = AnyRun
    Never = Never
    Blank = Blank
    Torn = Torn
    MaxNeed = 2
    MaxClock = 2
    MaxLives = 2
SYMMETRY ProcessSymmetry
SPECIFICATION Spec
CHECK_DEADLOCK FALSE
INVARIANTS
    RunsBacked
    RejectionStands
