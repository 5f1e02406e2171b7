SPECIFICATION Spec
CONSTANTS
    e1 = e1
    e2 = e2
    Enrollers <- TwoEnrollers
    Daemon = Daemon
    NoFile = NoFile
    MaxLookupFailures = 1
    MaxErasures = 0
    MaxBoots = 1
SYMMETRY EnrollerSymmetry
INVARIANTS
    ReadableThoughLookupFails
CHECK_DEADLOCK FALSE
