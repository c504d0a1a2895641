CONSTANTS
    Sid = {s1, s2}
    None = None
    BootSecret = FALSE
    MaxAttach = 2
    MaxChallenge = 2
    MaxPeer = 2
    MaxData = 2
    SessionIds <- MCSessionIds
    Nonces <- MCNonces
    HexStrings <- MCHexStrings
    Certs <- MCCerts
    HostCert <- MCHostCert
    ViewerCert <- MCViewerCert
    Codes <- MCCodes
    Minted <- MCMinted
    Pepper <- MCPepper
    Peppers <- MCPeppers
    NoKey = NoKey
    NoWindow = NoWindow
    NoCode = NoCode
    Ttls = {0, 2}
    MaxMints = 2
    CodeTtl = 1
    MaxUnix = 1
    MaxAnswers = 2
    Drive = {"agent", "proof", "policy"}
SPECIFICATION MCSpec
SYMMETRY Symmetry
VIEW View
INVARIANTS MirrorsAgree KilledIsDead ChromeWhileLive InputBoundToAttachment UnattendedRespectsLatch BindingSound CodeAdmitsOnce
CHECK_DEADLOCK FALSE
