SPECIFICATION FairSpec
CONSTANTS
    FailureLimit = 3
    MaxSteps = 3
INVARIANTS
    ScanningMeansScanning
CHECK_DEADLOCK FALSE
