SPECIFICATION Spec
CONSTANTS
    NTasks = 1
    MaxCommands = 2
    MaxResumes = 0
    MaxFence = 2
    MaxFaults = 1
    MaxRunRev = 1
    Patient = FALSE
CONSTRAINT Bounded
INVARIANTS
    EvidenceIsTheRuns
PROPERTIES
    OverExperimentStaysOver
CHECK_DEADLOCK FALSE
