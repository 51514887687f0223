SPECIFICATION IndexSpec
CONSTANTS
    Pages = {p1, p2}
    Cells = {c1}
    Nobody = Nobody
    MaxCommits = 2
    MaxTrouble = 1
SYMMETRY PagesAlike
INVARIANTS
    CompleteIsAccounted
CHECK_DEADLOCK FALSE
