SPECIFICATION Spec
SYMMETRY Symmetry
CONSTANTS
    plain = plain
    shouted = shouted
    other = other
    Emails <- TwoSpellings
    AccountOf <- Normalized
    Addresses = {x1, x2}
    Attempts = {a1, a2}
    AccountLimit = 1
    AddressLimit = 2
    Window = 2
    MaxKeys = 3
    MaxTime = 3
INVARIANTS
    TypeOK
    OverrunBounded
    FailuresBounded
PROPERTIES
    VerdictIsRight
    FailuresKept
