SPECIFICATION Spec
CONSTANTS
    NTasks = 2
    MaxCommands = 1
    MaxResumes = 1
    MaxFence = 2
    MaxFaults = 0
    MaxRunRev = 1
    Patient = TRUE
INVARIANTS
    ExperimentTypeOK
    IdleIsSettled
    RunsAreLinked
PROPERTIES
    OverAttemptsAreFinal
    OverExperimentStaysOver
CHECK_DEADLOCK FALSE
