SPECIFICATION FairSpec
CONSTANTS
    MaxScans = 2
    WarmupFrames = 2
    MaxFrames = 3
    RequiredMatches = 2
    FaceBudget = 2
    LockBudget = 1
    SelectTime = 1
    MaxPieces = 2
    HudLife = 2
INVARIANTS
    VerdictIsEarned
    CancelIsOwn
    CancelIsPrompt
    ScanIsBounded
PROPERTIES
    ScanEnds
    HudGoes
CHECK_DEADLOCK FALSE
