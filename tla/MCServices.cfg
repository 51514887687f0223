SPECIFICATION ServicesSpec
CONSTANTS
    ConnectMs = 2
    InactivityMs = 2
    OverallMs = 4
    MaxGeneration = 5
    MaxStarts = 2
    MaxTrouble = 2
    Tabs = {t1, t2}
    NoTab = NoTab
    GoneTab = GoneTab
    NItems = 2
    MaxMishaps = 1
    Views = {v1, v2}
    NoView = NoView
    GoneView = GoneView
    Docs = {d1}
    MaxRevision = 2
    MaxUpsets = 2
INVARIANTS
    ServicesTypeOK
    TimeoutsAreEarned
    ErrorsAreOfTheirLife
    PaidIsDurable
    FailedStartIsAborted
    MigratedInOrder
PROPERTIES
    AbortEndsHeardCall
    EverythingMigrates
    EmptyIsRebuilt
CHECK_DEADLOCK FALSE
