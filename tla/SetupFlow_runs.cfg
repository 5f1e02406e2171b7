SPECIFICATION Spec
CONSTANTS
    MaxCalls = 3
    MaxSetups = 2
INVARIANTS
    
    UninstallLeavesNoRule
PROPERTIES
    SequenceEnds
CHECK_DEADLOCK FALSE
