CONSTANTS
    Device = {d1, d2}
    Cred = {k1, k2}
    Worker = {w1, w2}
    None = None
    MayCrash = TRUE
    Backend = {"file"}
    Clients = {"any"}
    MaxAttempts = 4
    MaxMinted = 4
SPECIFICATION EnrolmentSpec
INVARIANT ConfirmedSurvives
