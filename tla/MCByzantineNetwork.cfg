CONSTANTS
    s1 = s1
    s2 = s2
    r = r
    e1 = e1
    e2 = e2
    Sender = {s1, s2}
    Reader = {r}
    Event = {e1, e2}
    N = 3
    MaxSends = 2
SPECIFICATION NetworkSpec
INVARIANTS
    NetworkTypeOK
    ReadsWereSo
PROPERTY
    CallsEnd
CHECK_DEADLOCK FALSE
