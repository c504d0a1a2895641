------------------------------ MODULE MCMedia ------------------------------
EXTENDS MediaPlane, Playout

MCPcm == {<<0, 10, 20, 30, 40, 50, 60, 70>>, <<-9, 9, -9, 9, -9>>, <<5>>}
MCSkews == {-40, -16, 0, 15, 25}
MCSizes == {<<4, 2>>, <<9, 7>>}
MCSynthSize == <<4, 3>>

\* The sources and encoders that are tried together.
MCConfigs ==
    {[win |-> FALSE, v |-> "linux_platform", a |-> "linux_native", soft |-> FALSE],
     [win |-> FALSE, v |-> "synthetic", a |-> "synthetic", soft |-> FALSE],
     [win |-> FALSE, v |-> "linux_mock", a |-> "linux_mock", soft |-> FALSE],
     [win |-> TRUE, v |-> "windows_mock", a |-> "win_prefer", soft |-> TRUE],
     [win |-> TRUE, v |-> "windows_dxgi", a |-> "win_prefer", soft |-> TRUE],
     [win |-> TRUE, v |-> "windows_dxgi", a |-> "win_stub", soft |-> FALSE]}

\* A machine that a behaviour does not drive has a single initial state.
MCInit ==
    /\ part \in PlayoutParts \cup {"plane"}
    /\ PlayoutInit /\ MediaInit
    /\ part # "jitter" => ~numbered
    /\ part # "freeze" => freeze_mode = "duck"
    /\ \E c \in MCConfigs :
        /\ windows = c.win /\ vkind = c.v /\ akind = c.a /\ force_software = c.soft
    /\ vkind # "windows_dxgi" => desktop.size = <<4, 2>> /\ desktop.pad = 0
    /\ part # "plane" => vkind = "synthetic" /\ boot = 0

MCNext ==
    \/ PlayoutNext /\ UNCHANGED mvars
    \/ part = "plane" /\ MediaNext /\ UNCHANGED pvars

MCSpec == MCInit /\ [][MCNext]_<<pvars, mvars>>

\* What one step of the media may do: play the earliest packet, lower the
\* volume while no frame comes, send a keyframe once one is asked for
\* (jitter.rs push_inner, freeze.rs tick, h264.rs request_keyframe).
MediaInOrder == PlayoutInOrder /\ GainFallsWhileFrozen /\ KeyframeHonoured
=============================================================================
