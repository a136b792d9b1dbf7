SPECIFICATION Spec

CONSTANTS
    Resources = {r1}
    Files = {f1, f2}
    Tasks = {t1, t2}
    Startup = startup
    None = none
    Ops <- UploadAndRetry
    Faults <- NoFaults
    MaxCrashes = 1

SYMMETRY Symmetry
INVARIANTS RestartLeavesRecoverable
CHECK_DEADLOCK FALSE
