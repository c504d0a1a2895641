CONSTANTS
    Drivers = {"ui", "live", "cli"}
    VideoCap = 1
    AudioCap = 1
    MaxConnect = 2
    MaxEvents = 3
    MaxWorkerEvents = 2
    MaxFlap = 1
    MaxSignal = 3
SPECIFICATION Spec
INVARIANTS InputGuarded QueuesSound
PROPERTIES LostUntilReconnect WorkerEnds
CHECK_DEADLOCK FALSE
