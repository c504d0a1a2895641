CONSTANTS
    Conn = {c1, c2, c3}
    Host = {h1, h2}
    Sid = {s1, s2}
    None = None
    MaxSeq = 3
    PendingTtl = 1
    ActiveTtl = 2
SPECIFICATION Spec
SYMMETRY Symmetry
INVARIANTS LockMatchesSessions PartiesConnected BeliefsHold HeardIsPast
PROPERTIES SignalSeqIncreasesBelowMax ControllerNotReplaced ImplementsHostLease
CHECK_DEADLOCK FALSE
