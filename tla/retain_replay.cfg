SPECIFICATION Spec
CONSTANTS
    p1 = p1
    p2 = p2
    s1 = s1
    t1 = t1
    t2 = t2
    s2 = s2
    m1 = m1
    m2 = m2
    m3 = m3
    m4 = m4
    NoMsg = NoMsg
    Publishers = {p1, p2}
    Subscribers = {s1, s2}
    Topics = {t1, t2}
    Msg = {m1, m2, m3, m4}
    About <- MCAbout
    Filter <- MCFilter
CHECK_DEADLOCK FALSE
INVARIANTS
    RetainedNotMissed
    NoResurrection
