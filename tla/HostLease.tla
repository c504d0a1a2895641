----------------------------- MODULE HostLease -----------------------------
(***************************************************************************)
(* What the session registry promises its users, without connections,      *)
(* sockets or sequence numbers: a host is controlled under a lease by one  *)
(* viewer at a time.  A lease is granted only on a host nobody holds or    *)
(* whose holder's time is up, becomes active at most once, and otherwise   *)
(* only runs down or ends.                                                 *)
(***************************************************************************)
EXTENDS Naturals

CONSTANTS Host, Sid, Viewer, None, PendingTtl, ActiveTtl

VARIABLE lease   \* [Host -> None or the session controlling the host]

Lease == [sid : Sid, viewer : Viewer, phase : {"pending", "active"}, ttl : Nat]

TypeOK == lease \in [Host -> Lease \cup {None}]

Held(h) == lease[h] # None
Lapsed(h) == Held(h) /\ lease[h].ttl = 0
Running == [h \in Host |-> IF Lapsed(h) THEN None ELSE lease[h]]

Init == lease = [h \in Host |-> None]

Grant(h, s, v) ==
    /\ Running[h] = None
    /\ \A g \in Host : Running[g] # None => Running[g].sid # s
    /\ lease' = [Running EXCEPT ![h] = [sid |-> s, viewer |-> v,
                                        phase |-> "pending", ttl |-> PendingTtl]]

Activate(h) ==
    /\ Held(h) /\ ~Lapsed(h)
    /\ lease[h].phase = "pending"
    /\ lease' = [Running EXCEPT ![h] = [lease[h] EXCEPT !.phase = "active",
                                                        !.ttl = ActiveTtl]]

\* One lease ends on request, or only what has lapsed is cleared.
End(h) == lease' = [Running EXCEPT ![h] = None]
Lapse == lease' = Running

\* The host, or a viewer with everything it holds, is gone.
HostLeaves(h) == lease' = [lease EXCEPT ![h] = None]
ViewerLeaves(v) ==
    lease' = [h \in Host |-> IF Held(h) /\ lease[h].viewer = v THEN None ELSE lease[h]]

Tick ==
    lease' = [h \in Host |-> IF Held(h) /\ ~Lapsed(h)
                             THEN [lease[h] EXCEPT !.ttl = @ - 1] ELSE lease[h]]

Next ==
    \/ \E h \in Host : \/ \E s \in Sid, v \in Viewer : Grant(h, s, v)
                       \/ Activate(h) \/ End(h) \/ HostLeaves(h)
    \/ \E v \in Viewer : ViewerLeaves(v)
    \/ Lapse
    \/ Tick

Spec == Init /\ [][Next]_lease
=============================================================================
