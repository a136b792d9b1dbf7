SPECIFICATION Spec
SYMMETRY Symmetry
CONSTANTS
    None = None
    Idle = 2
    WriteInterval = 1
    Users = {u1}
    SessionIds = {s1, s2, s3}
    Requests = {r1, r2}
    Admins = {}
    Members = {u1}
    Ops <- LifecycleOps
    MaxTime = 0
    MaxPasswords = 2
INVARIANTS
    TypeOK
    NoLiveSessionForInactive
    SessionMatchesPassword
    RotatedOnce
PROPERTIES
    ChangeReplacesVerified
