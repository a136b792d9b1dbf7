SPECIFICATION FairSpec
CONSTANTS
    None = None
    Idle = 2
    WriteInterval = 1
    Users = {u1, u2}
    SessionIds = {s1}
    Requests = {r1, r2}
    Admins = {u1}
    Members = {u2}
    Ops <- LockingOps
    MaxTime = 2
    MaxPasswords = 1
PROPERTIES
    RevokedStaysRevoked
    IdleNeverRevived
    RequestsEnd
