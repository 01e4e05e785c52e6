SPECIFICATION Spec
CONSTANTS
    m1 = m1
    m2 = m2
    m3 = m3
    NoMsg = NoMsg
    Clients <- AlikeClients
    Msg = {m1, m2, m3}
    Author <- AlikeAuthors
    MsgIds = {2, 12}
    MaxOpen = 3
    MaxCount = 2
INVARIANTS
    IndexIdKeyed
