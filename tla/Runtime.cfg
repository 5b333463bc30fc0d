SPECIFICATION FairSpec
CONSTANTS
    city = city
    date = date
    Users = {u1}
    Ids = {c1}
    Requests = {r1, r2}
    Bodies = {"travel", "yes", "no", "cancel", "passport"}
    Fields <- Trip
    Plans <- ClaudePlans
    None = None
    TTL = 0
    MaxTime = 1
INVARIANTS
    TypeOK
    OneActiveTask
    ProfileFirst
    AuditPrefix
    NoClaimDelivered
    DecisionsAccounted
PROPERTIES
    MemorySpec
    EveryMessageEnds
CHECK_DEADLOCK FALSE
