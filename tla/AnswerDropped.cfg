SPECIFICATION Spec
CONSTANTS
    Bodies <- SomeBodies
    ClaudePlans <- TwoPlans
    MaxTurns = 2
    None = None
PROPERTY
    AnswerIsKept
CHECK_DEADLOCK FALSE
