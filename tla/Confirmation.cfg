SPECIFICATION Spec
SYMMETRY Symmetry
CONSTANTS
    Users = {u1, u2}
    Ids = {c1, c2, c3}
    Messages = {m1, m2}
    None = None
    TTL = 1
    MaxTime = 3
INVARIANTS
    TypeOK
    IndexSound
PROPERTIES
    NoLateConfirmation
    DecidedOnceWhileOpen
    GateSpec
CHECK_DEADLOCK FALSE
