SPECIFICATION Spec
SYMMETRY Symmetry
CONSTANTS
    None = None
    Idle = 2
    WriteInterval = 1
    Users = {u1, u2, u3}
    SessionIds = {s1}
    Requests = {r1}
    Admins = {u1, u2}
    Members = {}
    Ops <- ManagementOps
    MaxTime = 0
    MaxPasswords = 2
INVARIANTS
    ActiveAdminExists
