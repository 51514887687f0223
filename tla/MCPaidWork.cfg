SPECIFICATION PaidSpec
CONSTANTS
    Cands = {c1, c2, c3}
    MaxCommands = 1
    StudyPages = {p1, p2}
    NTrials = 2
    MaxEdits = 1
    MaxStudyRuns = 2
    MaxSlips = 1
SYMMETRY PaidSymmetry
INVARIANTS
    JudgedOutputsAreAccepted
    FusionRestsOnItsJudge
    ShownIsDurable
    IdleRunIsSettled
    ReportRestsOnItsRun
    FailedRunEndsStudy
PROPERTIES
    OnlyReplacementWithdrawsEvidence
    SealedIsShown
CHECK_DEADLOCK FALSE
