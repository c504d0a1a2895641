CONSTANTS
    MinTarget = 8 MaxTarget = 24 InitialTarget = 16 LateThreshold = 16
    Interval = 16 SeqWrap = 4 Delays = {0, 32, 80} MaxPackets = 4 MaxTime = 112
    Skews <- MCSkews Deadband = 15 Step = 5 MinStepInterval = 3 FullStretch = 20
    StretchDiv = 4 Pcm <- MCPcm
    FreezeModes = {"hold_fade", "duck", "continue"} FreezeThreshold = 2 Hold = 2 Fade = 2
    DuckGain = 1 Unity = 4 MaxTicks = 10
    VideoKinds = {"synthetic", "linux_mock", "linux_platform", "windows_mock", "windows_dxgi"}
    AudioKinds = {"synthetic", "linux_mock", "linux_native", "win_stub", "win_prefer"}
    Uptimes = {0} Sizes <- MCSizes Pads = {0, 1} SynthSize <- MCSynthSize
    FrameTicks = 3 MaxPreviewW = 6 MaxPreviewH = 4 KeyInterval = 2 AudioPerFrame = 1
    ExclusivePackets = 2 AudioRate = 8 VideoRate = 15 RtpWrap = 64
    Backlog = 2 MaxAudio = 4 MaxHost = 2
SPECIFICATION MCSpec
INVARIANTS PlayoutSound PlaneSound
PROPERTIES MediaInOrder
CHECK_DEADLOCK FALSE
