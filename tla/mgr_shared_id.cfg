SPECIFICATION Spec
CONSTANTS
    s1 = s1
    s2 = s2
    c1 = c1
    c2 = c2
    NoSession = NoSession
    Sessions = {s1, s2}
    ClientIds = {c1}
    Id <- SharedIds
    EmptyId = EmptyId
    Events = {"timeout", "earlyDisconnect"}
CHECK_DEADLOCK FALSE
INVARIANTS
    TypeOK
    ClosedMeansJoined
    NoSilentExit
    OpenedCounted
    MapsAgree
