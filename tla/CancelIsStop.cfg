SPECIFICATION Spec
SYMMETRY Symmetry
CONSTANTS
    city = city
    date = date
    Users = {u1}
    Ids = {c1}
    Requests = {r1, r2}
    Bodies = {"cancel", "travel"}
    Fields <- Trip
    Plans <- ClaudePlans
    None = None
    TTL = 0
    MaxTime = 1
PROPERTY
    CancelRejects
CHECK_DEADLOCK FALSE
