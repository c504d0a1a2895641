--------------------------- MODULE MCHostService ---------------------------
(***************************************************************************)
(* The host service and, on its own, the application that runs it as a     *)
(* child process: which says which is driven.                              *)
(***************************************************************************)
EXTENDS HostService, DesktopShell

VARIABLE which

Served(with_agent, live, reconnect, max) ==
    [agent |-> with_agent, live |-> live, reconnect |-> reconnect,
     max_sessions |-> max, secret |-> TRUE]

\* An unlimited live service in process and with an agent, a bounded one that
\* sends bursts and does not reconnect, and one that serves a single session.
AllConfigs ==
    {Served(FALSE, TRUE, TRUE, 0), Served(TRUE, TRUE, TRUE, 0),
     Served(FALSE, FALSE, FALSE, 2), Served(TRUE, FALSE, FALSE, 1)}

MCPasted == {<<"i1", "code">>}
MCSecrets == {<<>>, <<"short">>, <<"long">>}

MCInit ==
    /\ Init /\ DesktopInit
    /\ which \in {"service", "desktop"}
    /\ which = "desktop" => cfg = Served(FALSE, TRUE, TRUE, 0)

MCNext ==
    \/ which = "service" /\ Next /\ UNCHANGED <<which, dvars>>
    \/ which = "desktop" /\ DesktopNext /\ UNCHANGED <<which, vars>>

MCSpec == MCInit /\ [][MCNext]_<<which, vars, dvars>> /\ HostFairness
=============================================================================
