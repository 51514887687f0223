SPECIFICATION Spec
CONSTANTS
    NTasks = 2
    MaxCommands = 1
    MaxResumes = 0
    MaxFence = 1
    MaxFaults = 0
    MaxRunRev = 1
    Patient = TRUE
INVARIANTS
    AbortsAreRecorded
CHECK_DEADLOCK FALSE
