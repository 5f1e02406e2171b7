SPECIFICATION Spec
CONSTANTS
    MaxInstances = 2
    MaxDaemons = 3
    Users = {1}
    MaxChanges = 2
INVARIANTS
    OneDaemonEach
    SettingsApply
    NewestIsReached
PROPERTIES
    StatusInTheEnd
CHECK_DEADLOCK FALSE
