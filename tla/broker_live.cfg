SPECIFICATION FairSpec
CONSTANTS
    s1 = s1
    s2 = s2
    NoSession = NoSession
    Sessions = {s1, s2}
    Audience <- PairAudience
    Pubs <- PairPubs
    Loaded = {s2}
    MaxInflight = 1
    MaxPedding = 1
    Silent = {s1}
    Stalled = {s1}
    Leavers = {s1, s2}
    Alone = TRUE
CHECK_DEADLOCK FALSE
INVARIANTS
    WindowBounded
    NoStandstill
PROPERTIES
    BlockedGetsOn
    EndedIsJoined
    PeddingMoves
