SPECIFICATION Spec
SYMMETRY Symmetry
CONSTANTS
    Users = {u1, u2}
    Ids = {c1}
    None = None
    TTL = 2
    Windows <- DayWindows
    DailyCap = 2
    HoursPerDay = 4
    TicksPerHour = 2
    Durable = TRUE
    MaxTime = 10
INVARIANTS
    TypeOK
    DailyCapHolds
    RetryAtNextOpening
