SPECIFICATION EngineSpec
CONSTANTS
    None = None
    CosineThreshold = 1296
    MinCos = 2025
    MinKeep = 2
    MinFaceSize = 2
    GoodScore = 2025
    FairScore = 900
    Langs <- mcLangs
    Keys <- mcKeys
    EngineKeys <- mcEngineKeys
    Untranslated <- mcUntranslated
    Samples <- mcSamples
    Reads <- mcReads
    Thresholds <- mcThresholds
    MaxRows = 6
    Settings <- mcSettings
    OwnEnvs <- mcOwnEnvs
    Preferences <- mcPreferences
INVARIANTS
    FilterKeepsTheBest
    DiagnosisAgrees
    StartedAsAsked
    SpeaksTheAppsLanguage
    ChoiceIsUnderstood
PROPERTIES
    AppearancesAccumulate
CHECK_DEADLOCK FALSE
