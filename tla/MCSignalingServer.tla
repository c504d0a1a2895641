------------------------- MODULE MCSignalingServer -------------------------
(***************************************************************************)
(* The handlers with the one-time codes (gate = "none") and, each on its   *)
(* own, the gates in front of the server's routes.                         *)
(***************************************************************************)
EXTENDS SignalingServer, AccessGates

CONSTANTS t1, t2, m1, m2, dev1, dev2

\* Connections and session ids are interchangeable.
Symmetry == Permutations(Conn) \cup Permutations(Sid)

\* No action reads heard, and no property of these runs is about it: states
\* that differ only there are the same state.  Either the handlers run or one
\* of the gates, and the other's variables stay as they were at the start.
View == IF gate = "none"
        THEN <<link, identity, host_by_public_id, sessions, host_busy, otp_vars>>
        ELSE <<gate, gvars>>

Req(route, m, d) == [route |-> route, machine |-> m, device |-> d]
MCTraffic == {Req("register", m1, dev1), Req("refresh", m2, dev1)}
MCLogins == t1 :> {Req("hello", m1, dev1)}
            @@ t2 :> {Req("refresh", m1, dev1), Req("admin", m2, dev1)}
MCBlockable == {<<"ip", <<"v4", m1>>>>, <<"ip", <<"mapped", m1>>>>, <<"device", dev2>>}
MCViewers == {<<m1, NoReq>>, <<m2, dev2>>}
MCClock == [none |-> 0, limit |-> 4, lockout |-> 4, block |-> 0, audit |-> 2]
MCAudit == [none |-> 0, limit |-> 0, lockout |-> 4, block |-> 0, audit |-> 3]

\* Bound of the run on the codes: three mishaps and intents together, namely
\* connections broken, evicted or gone, intents, counting up to two under one
\* id, and wrong guesses against the present code.
MCBudget == 3
Lost == {c \in Conn : link[c] \in {"broken", "evicted", "gone"}}
MCBound ==
    Cardinality(Lost) + FoldFunction(+, 0, intents) + FoldFunction(+, 0, wrong) <= MCBudget

MCInit == ServerInit /\ GatesInit
MCNext ==
    \/ gate = "none" /\ ServerNext /\ UNCHANGED gvars
    \/ GatesNext /\ UNCHANGED all_vars
MCSpec == MCInit /\ [][MCNext]_<<all_vars, gvars>>
=============================================================================
