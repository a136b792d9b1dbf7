SPECIFICATION Spec

CONSTANTS
    Resources = {r1}
    Files = {f1, f2}
    Tasks = {t1, t2}
    Startup = startup
    None = none
    Ops <- UploadAndRetry
    Faults <- CleanupFaults
    MaxCrashes = 0

SYMMETRY Symmetry
PROPERTIES RetryOnlyCleaned
CHECK_DEADLOCK FALSE
