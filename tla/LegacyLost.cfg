SPECIFICATION MigSpec
CONSTANTS
    Tabs = {t1}
    NoTab = NoTab
    GoneTab = GoneTab
    NItems = 2
    MaxMishaps = 1
INVARIANTS
    LegacyIsImported
CHECK_DEADLOCK FALSE
