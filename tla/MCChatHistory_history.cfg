SPECIFICATION Spec
SYMMETRY Symmetry
CONSTANTS
    None = None
    t1 = t1
    t2 = t2
    u1 = u1
    u2 = u2
    Calls = {c1, c2}
    Threads = {t1, t2}
    Users = {u1, u2}
    Owner <- OwnThreads
    Steps = {s1}
    Elements = {e1, e2}
    Feedbacks = {f1}
    MaxRows = 2
    PageSize = 1
    Ops <- AllOps
    Faults <- AllFaults
INVARIANTS
    TypeOK
    HistoryConsistent
    AttachmentHasFile
    FileAccounted
PROPERTIES
    OwnersOnly
    LifeSpec
CHECK_DEADLOCK FALSE
