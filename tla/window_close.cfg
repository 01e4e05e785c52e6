SPECIFICATION Spec
CONSTANTS
    m1 = m1
    m2 = m2
    m3 = m3
    m4 = m4
    NoMsg = NoMsg
    Msg = {m1, m2}
    Qos <- MCQos
    Publishers = {p1, p2}
    MaxSizeOfInflight = 1
    MaxSizeOfPublishMsg = 1
    IdSpace = 3
    MaxResend = 1
    Faults = {"lost", "pingTimeout", "takeover"}
INVARIANTS
    TypeOK
    Conservation
    CompletedWasReceived
PROPERTIES
    ImplementsDelivery
