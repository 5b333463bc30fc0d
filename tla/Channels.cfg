SPECIFICATION Spec
SYMMETRY Symmetry
CONSTANTS
    TargetLength = 12
    MaxOptions = 2
    SuffixLength = 4
    RewrittenReply <- Rewrite
    Calls = {d1, d2}
    Registered = {"weather_lookup", "flight_search", "car_hire", "trains"}
    Enabled = {"weather_lookup", "flight_search", "trains"}
    Implemented = {"weather_lookup", "flight_search", "car_hire"}
    Requests <- Plans
    OpenMeteo = TRUE
    None = None
    Messages = {m1, m2}
    Validating = TRUE
    TelnyxKey = TRUE
    Drafts <- SomeDrafts
    CannedText <- Canned
    ToolText <- Weather
INVARIANTS
    TypeOK
    ReadAsRecorded
    AckedIsAnswered
    OnlyUsersAreAnswered
    RepliesFit
PROPERTIES
    ToolSpec
CHECK_DEADLOCK FALSE
