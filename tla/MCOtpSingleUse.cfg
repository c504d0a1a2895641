CONSTANTS
    Conn = {c1, c2}
    Host = {h1}
    Sid = {s1, s2}
    None = None
    MaxSeq = 2
    PendingTtl = 1
    ActiveTtl = 1
    MaxOtpAttempts = 2
    OtpTtl = 2
    t1 = t1
    t2 = t2
    m1 = m1
    m2 = m2
    dev1 = dev1
    dev2 = dev2
    Machine = {m1, m2}
    Dev = {dev1, dev2}
    Caller = {t1, t2}
    NoReq = NoReq
    Gates = {"none"}
    Traffic <- MCTraffic
    Logins <- MCLogins
    Blockable <- MCBlockable
    Viewers <- MCViewers
    MaxEvents = 2
    Per = 2
    MaxFailures = 2
    BaseLockout = 1
    MaxLockout = 3
    FailureWindow = 2
    MaxFlight = 1
    MaxClock <- MCClock
    MaxAudit <- MCAudit
    MaxEntries = 3
    Page = 1
SPECIFICATION MCSpec
INVARIANT OtpSingleUse
