SPECIFICATION FairSpec
CONSTANTS
    s1 = s1
    s2 = s2
    c1 = c1
    c2 = c2
    NoSession = NoSession
    Sessions = {s1, s2}
    ClientIds = {c1, c2}
    Id <- OwnIds
    EmptyId = EmptyId
    Events = {"query"}
CHECK_DEADLOCK FALSE
INVARIANTS
    ActiveCounted
    NoCircularWait
PROPERTIES
    LostIsClosed
