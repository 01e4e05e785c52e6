SPECIFICATION FairSpec
CONSTANTS
    r1 = r1
    r2 = r2
    Requests = {r1, r2}
    Kind <- MCKind
    MaxResend = 1
    Events = {"break", "refuse", "eager"}
CHECK_DEADLOCK FALSE
INVARIANTS
    TypeOK
    CompleteOnce
    VerdictBeforeDone
PROPERTIES
    ConnectSettles
    DisconnectReturns
    SubscribeAnswered
    LossReported
