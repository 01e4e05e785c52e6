SPECIFICATION FairSpec
CONSTANTS
    Producers = {p1, p2}
    Values = {a, b}
    Drain = FALSE
    MaxLen = 3
INVARIANTS
    TypeOK
    NoLostWakeup
PROPERTIES
    ImplementsQueue
