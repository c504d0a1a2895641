CONSTANTS
    Device = {d1, d2}
    Cred = {k1, k2, k3}
    Worker = {w1, w2}
    None = None
    MayCrash = TRUE
    Backend = {"file", "postgres"}
    Clients = {"any", "host"}
    MaxAttempts = 4
    MaxMinted = 4
SPECIFICATION EnrolmentSpec
CONSTRAINT MCBound
SYMMETRY Symmetry
INVARIANTS CredentialsSound ConfirmedDurable
