SPECIFICATION Spec
SYMMETRY Symmetry
CONSTANTS
    None = None
    Calls = {c1, c2}
    Sockets = {s1, s2}
    Conversations = {v1, v2}
    Runs = {r1}
    Models = {m1}
    DefaultModel = m1
    Ops <- AllOps
    Faults <- AllFaults
INVARIANTS
    TypeOK
    ConversationAccounted
    RunClosedWithTurn
PROPERTIES
    LifeSpec
CHECK_DEADLOCK FALSE
