CONSTANTS
    p1 = p1
    p2 = p2
    Sessions <- BothSessions
    Keep = 1
    CompressOver = 1
    MaxRows = 3
    MaxClock = 2
    MaxLives = 2
SYMMETRY SessionSymmetry
SPECIFICATION Spec
CHECK_DEADLOCK FALSE
INVARIANTS
    
    ArchivesBounded
    DamageBounded
PROPERTIES
    EvidenceKept
