SPECIFICATION Spec

CONSTANTS
    Resources = {r1, r2}
    Files = {f1, f2, f3}
    Tasks = {t1, t2}
    Startup = startup
    None = none
    Ops <- UploadAndDelete
    Faults <- AllFaults
    MaxCrashes = 2

SYMMETRY Symmetry
INVARIANTS TypeOK ReadyIsSearchable IngestOwnsRow
PROPERTIES CleanedBeforeForgotten DeletionIsFinal
CHECK_DEADLOCK FALSE
