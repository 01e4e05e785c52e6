SPECIFICATION WillSpec
CONSTANTS
    Events = {"break", "expire", "disconnect", "takeover"}
CHECK_DEADLOCK FALSE
INVARIANTS
    WillTypeOK
    WillSent
    NoFalseWill
