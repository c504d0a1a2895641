CONSTANTS
    Sid = {s1, s2}
    None = None
    Configs <- AllConfigs
    MaxInbox = 2
    MaxMint = 3
    Pasted <- MCPasted
    Secrets <- MCSecrets
    RecentCap = 1
    MaxHosts = 2
    MaxWorkers = 2
    MaxStarts = 2
SPECIFICATION MCSpec
INVARIANTS ServesOneSession ChromeTruthful WindowUnspentUntilLive ShellSound
PROPERTY ClosedSessionIsLeft
CHECK_DEADLOCK FALSE
