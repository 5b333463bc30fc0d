SPECIFICATION Spec
SYMMETRY Symmetry
CONSTANTS
    Users = {u1, u2}
    Messages = {m1, m2}
    TaskIds = {t1, t2}
    Fields = {city, date}
    None = None
    MaxTime = 1
INVARIANTS
    TypeOK
    PlanIsStored
    ConversationInOrder
PROPERTIES
    ProfileNeverReplaced
    MemorySpec
