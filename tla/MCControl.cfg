SPECIFICATION MCSpec
CONSTANTS
    svc = svc
    other = other
    Client = {svc, other}
    s1 = s1
    Sid = {s1}
    Requests <- MCRequests
    NoSid = NoSid
    NoClient = NoClient
    Configs <- MCConfigs
    MaxRetries = 1
    Impatient = {svc}
    Second = 2
    MaxTime = 5
    Spots = {0, 3}
    MaxPerSec = 1
    Grid = 5
    Positions <- MCPositions
    Widths = {0, 1, 2, 7}
    Keys = {1, 9}
    MaxScancode = 5
    Handles = {1, 2}
INVARIANTS ClientNotMisled AgentServesConnection InputSound
PROPERTIES ServedRequestReturns
CHECK_DEADLOCK FALSE
