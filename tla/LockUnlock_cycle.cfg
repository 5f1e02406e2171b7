SPECIFICATION FairSpec
CONSTANTS
    FailureLimit = 3
    MaxSteps = 4
INVARIANTS
    OnlyFreshAnswersCount
    TypedOncePerCycle
    ScanningIsBacked
PROPERTIES
    ImplementsBudget
    NoStall
    LabelsSettle
CHECK_DEADLOCK FALSE
