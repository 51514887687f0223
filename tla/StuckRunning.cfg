SPECIFICATION Spec
CONSTANTS
    Cands = {c1, c2}
    MaxCommands = 1
SYMMETRY CandSymmetry
INVARIANTS
    ShownRunningIsRunning
CHECK_DEADLOCK FALSE
