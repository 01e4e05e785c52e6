SPECIFICATION Spec
CONSTANTS
    m1 = m1
    m2 = m2
    m3 = m3
    NoMsg = NoMsg
    Clients <- TwoClients
    Msg = {m1, m2, m3}
    Author <- TwoAuthors
    MsgIds = {1, 2}
    MaxOpen = 2
    MaxCount = 2
INVARIANTS
    ExactlyOnce
