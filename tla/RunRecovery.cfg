SPECIFICATION RFairSpec
CONSTANTS
    Tabs = {t1, t2}
    NoLease = NoLease
    TTL = 2
    MaxFence = 2
    Runs = {r1}
    MaxRev = 2
INVARIANTS
    SweepLeavesNoZombie
PROPERTIES
    SweepSparesLiveRun
    OnlyLatestFenceCommits
    RecoveryEnds
CHECK_DEADLOCK FALSE
