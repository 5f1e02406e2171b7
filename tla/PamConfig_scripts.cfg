SPECIFICATION Spec
CONSTANTS
    r1 = r1
    r2 = r2
    Runners <- TwoRunners
    MaxStarts = 3
    MaxFailures = 1
    MaxStops = 1
    MaxUpdates = 1
SYMMETRY RunnerSymmetry
CONSTRAINT FourEvents
INVARIANTS
    NoLockout
PROPERTIES
    InstallRepairs
    RemovalRestores
    OthersSurvive
CHECK_DEADLOCK FALSE
