SPECIFICATION LeasesSpec
CONSTANTS
    Tabs = {t1, t2, t3}
    NoLease = NoLease
    TTL = 2
    MaxFence = 4
    Pages = {p1, p2}
    Cells = {}
    Nobody = Nobody
    MaxCommits = 2
    MaxTrouble = 0
PROPERTIES
    StaleTokenStaysStale
    ImplementsFencedLock
    AnnouncedIsIndexed
CHECK_DEADLOCK FALSE
