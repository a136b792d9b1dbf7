SPECIFICATION Spec
SYMMETRY Symmetry
CONSTANTS
    None = None
    Idle = 2
    WriteInterval = 1
    Users = {u1}
    SessionIds = {s1, s2}
    Requests = {r1, r2}
    Admins = {u1}
    Members = {}
    Ops <- ResetOps
    MaxTime = 0
    MaxPasswords = 3
INVARIANTS
    TemporaryMustChange
