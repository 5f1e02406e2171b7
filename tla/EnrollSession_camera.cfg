SPECIFICATION Spec
CONSTANTS
    MaxProcs = 1
    Samples = 2
    MaxPrompts = 2
    MaxQuits = 0
PROPERTIES
    DeadCameraIsTold
