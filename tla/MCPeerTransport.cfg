CONSTANTS
    Modes = {"mock", "live", "webrtc"}
    Prints = {"own", "stale"}
    MaxSend = 2
    MaxRestart = 1
    MaxFlap = 1
    MaxLate = 1
SPECIFICATION Spec
INVARIANTS TransportSound
PROPERTIES  EndsInTime
CHECK_DEADLOCK FALSE
