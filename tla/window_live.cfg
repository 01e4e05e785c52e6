SPECIFICATION FairSpec
CONSTANTS
    m1 = m1
    m2 = m2
    m3 = m3
    m4 = m4
    NoMsg = NoMsg
    Msg = {m1, m2, m3}
    Qos <- MCQos
    Publishers = {p1}
    MaxSizeOfInflight = 1
    MaxSizeOfPublishMsg = 1
    IdSpace = 4
    MaxResend = 0
    Faults = {"takeover"}
INVARIANTS
    PeddingDrift
PROPERTIES
    AcceptedCompletes
    PublishReturns
