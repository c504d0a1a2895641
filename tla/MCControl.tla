----------------------------- MODULE MCControl -----------------------------
(***************************************************************************)
(* The control connection, the input injector and the kill-switch, each    *)
(* driven on its own: part says which.                                     *)
(***************************************************************************)
EXTENDS ControlChannel, PlatformInput, TLC

CONSTANTS svc, other, s1

Kill == [method |-> "kill_switch", sid |-> NoSid, big |-> FALSE]
MCRequests == other :> {} @@ svc :>
    {Kill,
     [method |-> "detach_session", sid |-> s1, big |-> FALSE],
     [method |-> "query_stats", sid |-> s1, big |-> FALSE],
     [method |-> "signal_forward", sid |-> s1, big |-> TRUE]}
Setup(b, e, mine, theirs, v, max) ==
    [backend |-> b, expected |-> e, max_requests |-> svc :> max @@ other :> 3,
     secret |-> svc :> mine @@ other :> theirs, version |-> svc :> 1 @@ other :> v]
PipeSetup == Setup("pipe", FALSE, "none", "none", 1, 4)
MCConfigs == {Setup("tcp", TRUE, "right", "wrong", 1, 3),
              Setup("tcp", TRUE, "wrong", "right", 2, 3), PipeSetup}
MCPositions == {-1, 0, 1, 3, 5, 6}

MCInit ==
    /\ part \in {"control", "inject", "kill"}
    /\ ControlInit /\ InputInit
    /\ part # "control" => cfg = PipeSetup
    /\ part # "inject" => backend = "stub"

MCNext ==
    \/ part = "control" /\ ControlNext /\ UNCHANGED ivars
    \/ InputNext /\ UNCHANGED cvars

MCSpec ==
    /\ MCInit /\ [][MCNext]_<<cvars, ivars>>
    /\ part = "control" => ControlFairness
=============================================================================
