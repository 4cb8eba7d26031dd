SPECIFICATION Spec
CONSTANTS
    w1 = w1
    w2 = w2
    Writes <- TwoWrites
    MaxRuns = 3
    MaxFaults = 3
SYMMETRY WriteSymmetry
INVARIANTS
    TypeOK
    ServedDatabaseIsWhole
    NothingLostWithoutTrace
    ExitCodesTell
    FailedRestoreIsUndone
CHECK_DEADLOCK FALSE
