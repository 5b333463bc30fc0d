SPECIFICATION Spec
SYMMETRY Symmetry
CONSTANTS
    city = city
    date = date
    Users = {u1}
    Ids = {c1}
    Requests = {r1, r2}
    Bodies = {"stop", "travel"}
    Fields <- Trip
    Plans <- FallbackPlans
    None = None
    TTL = 0
    MaxTime = 1
PROPERTY
    NothingAfterStop
CHECK_DEADLOCK FALSE
