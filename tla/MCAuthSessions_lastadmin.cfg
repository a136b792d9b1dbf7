SPECIFICATION Spec
SYMMETRY Symmetry
CONSTANTS
    None = None
    Idle = 2
    WriteInterval = 1
    Users = {u1, u2}
    SessionIds = {s1}
    Requests = {r1, r2}
    Admins = {u1, u2}
    Members = {}
    Ops <- RoleOps
    MaxTime = 0
    MaxPasswords = 0
INVARIANTS
    ActiveAdminExists
