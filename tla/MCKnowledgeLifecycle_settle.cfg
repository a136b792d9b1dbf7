SPECIFICATION FairSpec

CONSTANTS
    Resources = {r1, r2}
    Files = {f1, f2, f3}
    Tasks = {t1, t2}
    Startup = startup
    None = none
    Ops <- AllOps
    Faults <- NoFaults
    MaxCrashes = 0

INVARIANTS DeletedLeavesNoFile StagedForIngest
PROPERTIES ContractSpec UploadSettles
CHECK_DEADLOCK FALSE
