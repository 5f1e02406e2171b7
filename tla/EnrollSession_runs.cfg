SPECIFICATION Spec
CONSTANTS
    MaxProcs = 2
    Samples = 2
    MaxPrompts = 2
    MaxQuits = 1
INVARIANTS
    DoneIsTrue
PROPERTIES
    FaceIsKept
    WindowSettles
