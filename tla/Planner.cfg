SPECIFICATION FairSpec
CONSTANTS
    Bodies <- SomeBodies
    ClaudePlans <- TwoPlans
    MaxTurns = 2
    None = None
INVARIANTS
    TypeOK
    TraceMatchesCall
    SelectedToolCanRun
PROPERTIES
    CallSpec
    EveryTurnEnds
CHECK_DEADLOCK FALSE
