SPECIFICATION Spec
CONSTANTS
    e1 = e1
    e2 = e2
    Enrollers <- TwoEnrollers
    Daemon = Daemon
    NoFile = NoFile
    MaxLookupFailures = 1
    MaxErasures = 1
    MaxBoots = 2
SYMMETRY EnrollerSymmetry
INVARIANTS
    ReadableWhenSerial
    CacheIsCurrent
PROPERTIES
    ImplementsStore
CHECK_DEADLOCK FALSE
