SPECIFICATION Spec
SYMMETRY Symmetry
CONSTANTS
    Users = {u1, u2}
    Ids = {c1, c2}
    Messages = {m1, m2}
    None = None
    TTL = 1
    MaxTime = 3
INVARIANT
    ConfirmedWasAsked
CHECK_DEADLOCK FALSE
