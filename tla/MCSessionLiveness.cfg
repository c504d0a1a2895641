CONSTANTS
    Conn = {c1, c2, c3}
    Host = {h1}
    Sid = {s1}
    None = None
    MaxSeq = 2
    PendingTtl = 1
    ActiveTtl = 2
SPECIFICATION FairSpec
PROPERTY LockNotPinned
CHECK_DEADLOCK FALSE
