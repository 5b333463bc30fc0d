SPECIFICATION Spec
SYMMETRY Symmetry
CONSTANTS
    Users = {u1}
    Ids = {c1}
    None = None
    TTL = 2
    Windows <- NightWindows
    DailyCap = 2
    HoursPerDay = 4
    TicksPerHour = 2
    Durable = FALSE
    MaxTime = 12
INVARIANT
    DefersUntilExpiry
