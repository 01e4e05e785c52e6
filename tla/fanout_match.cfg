SPECIFICATION Spec
CONSTANTS
    s1 = s1
    s2 = s2
    NoSession = NoSession
    Sessions = {s1, s2}
    SubPackets <- MCSubPackets
    UnsubPackets <- MCUnsubPackets
    Topics <- MCTopics
    Qoss = {0, 1}
    SendToSelf = TRUE
    Ends = {"disconnect", "timeout", "takeover"}
SYMMETRY Symmetry
CHECK_DEADLOCK FALSE
INVARIANTS
    TypeOK
    GoneIsForgotten
PROPERTIES
    LookupMatches
    MissedOnlyOnClose
