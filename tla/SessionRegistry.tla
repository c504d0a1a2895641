-------------------------- MODULE SessionRegistry --------------------------
(***************************************************************************)
(* The signaling server's in-memory session registry                       *)
(* (apps/server/src/session.rs): live WebSocket connections, the presence  *)
(* of each host, and the sessions with the single-session busy lock.       *)
(*                                                                         *)
(* Every method of the code runs under one mutex, so every method is one   *)
(* action.  The clients are arbitrary: an action's arguments are whatever  *)
(* a connected client may send.  Time is kept as the remaining life of a   *)
(* session (expires_at - now, floored at 0): the code compares expires_at  *)
(* with now and does nothing else with either.                             *)
(*                                                                         *)
(* MaxSeq stands for u64::MAX: the additions below saturate or fail there, *)
(* as saturating_add and checked_add do.                                   *)
(***************************************************************************)
EXTENDS Naturals

CONSTANTS
    Conn,        \* connection ids; ConnId::new never hands one out twice
    Host,        \* host public ids
    Sid,         \* session ids; the viewer chooses them
    None,        \* absence (Option::None, a missing map entry)
    MaxSeq,      \* u64::MAX
    PendingTtl,  \* pending_ttl in ticks
    ActiveTtl    \* active_ttl in ticks

VARIABLES
    link,               \* [Conn -> Link]: where each connection is in its life
    identity,           \* [Conn -> Identity \cup {None}]: the hello's outcome
    host_by_public_id,  \* [Host -> Conn \cup {None}]: published presence
    sessions,           \* [Sid -> Session \cup {None}]
    host_busy,          \* [Host -> Sid \cup {None}]: the busy lock
    heard               \* [Conn -> [Sid -> Message \cup {None}]]: the last
                        \* message about a session sent on a connection

vars == <<link, identity, host_by_public_id, sessions, host_busy, heard>>

(***************************************************************************)
(* "open": in the `conns` map, its writer task draining.  "broken": still  *)
(* in the map, but the writer task has ended on a send error, so tx.send   *)
(* fails.  "evicted": removed from the map by a newer hello of the same    *)
(* host, its socket task still reading.                                    *)
(***************************************************************************)
Link == {"fresh", "open", "broken", "evicted", "gone"}

SeqNo == 0 .. MaxSeq

Viewer == [role |-> "viewer", host |-> None]
HostId(h) == [role |-> "host", host |-> h]
Identity == {Viewer} \cup {HostId(h) : h \in Host}

SessionState == {"pending", "active"}

Session == [host : Host, host_conn : Conn, viewer_conn : Conn,
            state : SessionState, next_signal_seq : SeqNo, ttl : Nat]

RelayKind == {"offer", "answer", "ice", "control"}
Message == [kind : {"incoming", "accept", "reject", "end"} \cup RelayKind,
            seq : SeqNo]

ASSUME ConstantsAssumption ==
    /\ MaxSeq \in Nat
    /\ PendingTtl \in Nat \ {0}
    /\ ActiveTtl \in Nat \ {0}
    /\ None \notin Conn \cup Host \cup Sid \cup Identity \cup Session \cup Message
    /\ None \notin [sid : Sid, viewer : Conn, phase : SessionState, ttl : Nat]

\* Mutant: the sequence number just used is expected again.
NotAdvanced(q) == q
SaturatingAdd1(q) == IF q < MaxSeq THEN q + 1 ELSE MaxSeq

TypeOK ==
    /\ link \in [Conn -> Link]
    /\ identity \in [Conn -> Identity \cup {None}]
    /\ host_by_public_id \in [Host -> Conn \cup {None}]
    /\ sessions \in [Sid -> Session \cup {None}]
    /\ host_busy \in [Host -> Sid \cup {None}]
    /\ heard \in [Conn -> [Sid -> Message \cup {None}]]

Init ==
    /\ link = [c \in Conn |-> "fresh"]
    /\ identity = [c \in Conn |-> None]
    /\ host_by_public_id = [h \in Host |-> None]
    /\ sessions = [s \in Sid |-> None]
    /\ host_busy = [h \in Host |-> None]
    /\ heard = [c \in Conn |-> [s \in Sid |-> None]]

-----------------------------------------------------------------------------
\* Helpers

Msg(k, q) == [kind |-> k, seq |-> q]
InMap(c) == link[c] \in {"open", "broken"}
\* Mutant: only the host's end is looked for.
PartyHostOnly(c, ss) == c = ss.host_conn
Party(c, ss) == c \in {ss.host_conn, ss.viewer_conn}
\* Mutant: everything goes to the host.
PeerIsHost(c, ss) == ss.host_conn
PeerOf(c, ss) == IF ss.host_conn = c THEN ss.viewer_conn ELSE ss.host_conn

\* The socket task of c is in its message loop, as the given role.
Serving(c, role) ==
    /\ link[c] \in {"open", "broken", "evicted"}
    /\ identity[c] # None
    /\ identity[c].role = role
ServingAny(c) == Serving(c, "host") \/ Serving(c, "viewer")

Expired(s) == sessions[s] # None /\ sessions[s].ttl = 0
\* Mutant: only sessions nobody accepted expire.
ReapablePending == {s \in Sid : Expired(s) /\ sessions[s].state = "pending"}
Reapable == {s \in Sid : Expired(s)}

\* State after close_session_locked on every session of S: the entries are
\* removed and each one's host lock is cleared.
SessionsWithout(S) == [s \in Sid |-> IF s \in S THEN None ELSE sessions[s]]
\* Mutant: the lock is forgotten.
BusyKept(S) == host_busy
BusyWithout(S) ==
    [h \in Host |-> IF \E s \in S : sessions[s] # None /\ sessions[s].host = h
                    THEN None ELSE host_busy[h]]

\* ... and both peers are told, on the links of lk that still deliver.
HeardEnd(S, lk) ==
    [c \in Conn |-> [s \in Sid |->
        IF s \in S /\ sessions[s] # None /\ Party(c, sessions[s]) /\ lk[c] = "open"
        THEN Msg("end", sessions[s].next_signal_seq)
        ELSE heard[c][s]]]

\* h with one more message about s on connection c, if c's channel delivers.
Deliver(hd, c, s, m) ==
    IF link[c] = "open" THEN [hd EXCEPT ![c][s] = m] ELSE hd

-----------------------------------------------------------------------------
\* Connections and presence

RegisterConn(c) ==
    /\ link[c] = "fresh"
    /\ link' = [link EXCEPT ![c] = "open"]
    /\ UNCHANGED <<identity, host_by_public_id, sessions, host_busy, heard>>

\* The writer task of c ends on a socket error; the reader has not noticed.
WriterBreaks(c) ==
    /\ link[c] = "open"
    /\ link' = [link EXCEPT ![c] = "broken"]
    /\ UNCHANGED <<identity, host_by_public_id, sessions, host_busy, heard>>

\* A successful viewer hello.
BindViewer(c) ==
    /\ InMap(c)
    /\ identity[c] = None
    /\ identity' = [identity EXCEPT ![c] = Viewer]
    /\ UNCHANGED <<link, host_by_public_id, sessions, host_busy, heard>>

\* A successful host hello: the newest socket of a host replaces the previous
\* one and takes over its sessions.
BindHost(c, h) ==
    LET old == host_by_public_id[h] IN
    /\ InMap(c)
    /\ identity[c] = None
    /\ identity' = [identity EXCEPT ![c] = HostId(h)]
    /\ host_by_public_id' = [host_by_public_id EXCEPT ![h] = c]
    /\ link' = [x \in Conn |-> IF x = old THEN "evicted" ELSE link[x]]
    /\ sessions' = [s \in Sid |->
           IF sessions[s] # None /\ sessions[s].host_conn = old /\ sessions[s].host = h
           THEN [sessions[s] EXCEPT !.host_conn = c]
           ELSE sessions[s]]
    /\ UNCHANGED <<host_busy, heard>>

\* The socket task of c ends (close frame, read error, failed hello): every
\* session that still names c is closed.
UnregisterConn(c) ==
    LET affected == {s \in Sid : sessions[s] # None /\ Party(c, sessions[s])}
        lk == [link EXCEPT ![c] = "gone"] IN
    /\ link[c] \in {"open", "broken", "evicted"}
    /\ link' = lk
    /\ identity' = [identity EXCEPT ![c] = None]
    /\ host_by_public_id' =
           [h \in Host |-> IF host_by_public_id[h] = c THEN None
                           ELSE host_by_public_id[h]]
    /\ sessions' = SessionsWithout(affected)
    /\ host_busy' = BusyWithout(affected)
    /\ heard' = HeardEnd(affected, lk)

-----------------------------------------------------------------------------
\* Requests.  Each one first reaps what has expired.

UNCHANGED_links == UNCHANGED <<link, identity, host_by_public_id>>

\* Mutant: the lock is not asked.
CanCreateBusy(s, h, q) ==
    /\ SessionsWithout(Reapable)[s] = None
    /\ host_by_public_id[h] # None
    /\ q + 2 <= MaxSeq

\* What create_pending_session requires once the expired sessions are gone.
CanCreate(s, h, q) ==
    /\ SessionsWithout(Reapable)[s] = None
    /\ BusyWithout(Reapable)[h] = None
    /\ host_by_public_id[h] # None
    /\ q + 2 <= MaxSeq

\* Mutant: a session waiting for the host lives as long as an active one.
PendingSessionLong(c, h, q) ==
    [host |-> h, host_conn |-> host_by_public_id[h], viewer_conn |-> c,
     state |-> "pending", next_signal_seq |-> q + 2, ttl |-> ActiveTtl]

PendingSession(c, h, q) ==
    [host |-> h, host_conn |-> host_by_public_id[h], viewer_conn |-> c,
     state |-> "pending", next_signal_seq |-> q + 2, ttl |-> PendingTtl]

\* A viewer's session_intent: take the host's lock, tell the host.  If the
\* host's channel no longer delivers, the insertion is rolled back.
CreatePendingSession(c, s, h, q) ==
    LET host == host_by_public_id[h]
        told == [x \in Conn |-> [HeardEnd(Reapable, link)[x] EXCEPT ![s] = None]] IN
    /\ Serving(c, "viewer")
    /\ CanCreate(s, h, q)
    /\ IF link[host] = "open"
       THEN /\ sessions' = [SessionsWithout(Reapable) EXCEPT
                               ![s] = PendingSession(c, h, q)]
            /\ host_busy' = [BusyWithout(Reapable) EXCEPT ![h] = s]
            /\ heard' = Deliver(told, host, s, Msg("incoming", q + 1))
       ELSE /\ sessions' = SessionsWithout(Reapable)
            /\ host_busy' = BusyWithout(Reapable)
            /\ heard' = HeardEnd(Reapable, link)
    /\ UNCHANGED_links

\* The session is unexpired and in the given state.
LiveIn(s, st) == sessions[s] # None /\ ~Expired(s) /\ sessions[s].state = st

AcceptSession(c, s, q) ==
    /\ Serving(c, "host")
    /\ LiveIn(s, "pending")
    /\ sessions[s].host_conn = c
    /\ q >= sessions[s].next_signal_seq
    /\ sessions' = [SessionsWithout(Reapable) EXCEPT
                       ![s] = [sessions[s] EXCEPT !.state = "active",
                                                  !.ttl = ActiveTtl,
                                                  !.next_signal_seq = SaturatingAdd1(q)]]
    /\ host_busy' = BusyWithout(Reapable)
    /\ heard' = Deliver(HeardEnd(Reapable, link), sessions[s].viewer_conn, s,
                        Msg("accept", q))
    /\ UNCHANGED_links

\* Reject and end release the lock and tell only the other party: the caller
\* knows (recorded as if it had been told).
CloseByRequest(c, s, k, q) ==
    LET gone == Reapable \cup {s}
        told == [HeardEnd(Reapable, link) EXCEPT ![c][s] = Msg(k, q)] IN
    /\ sessions' = SessionsWithout(gone)
    /\ host_busy' = BusyWithout(gone)
    /\ heard' = Deliver(told, PeerOf(c, sessions[s]), s, Msg(k, q))
    /\ UNCHANGED_links

RejectSession(c, s, q) ==
    /\ Serving(c, "host")
    /\ LiveIn(s, "pending")
    /\ sessions[s].host_conn = c
    /\ q >= sessions[s].next_signal_seq
    /\ CloseByRequest(c, s, "reject", q)

EndSession(c, s, q) ==
    /\ ServingAny(c)
    /\ sessions[s] # None /\ ~Expired(s)
    /\ Party(c, sessions[s])
    /\ q >= sessions[s].next_signal_seq
    /\ CloseByRequest(c, s, "end", q)

\* Offer, answer, ICE and the other in-session signals are passed to the
\* peer.  The sequence number is used up even when the peer's channel fails.
RelayMediaSignal(c, s, k, q) ==
    /\ ServingAny(c)
    /\ LiveIn(s, "active")
    /\ Party(c, sessions[s])
    /\ q >= sessions[s].next_signal_seq
    /\ k = "offer" => sessions[s].host_conn = c
    /\ k = "answer" => sessions[s].host_conn # c
    /\ sessions' = [SessionsWithout(Reapable) EXCEPT
                       ![s] = [sessions[s] EXCEPT !.next_signal_seq = SaturatingAdd1(q)]]
    /\ host_busy' = BusyWithout(Reapable)
    /\ heard' = Deliver(HeardEnd(Reapable, link), PeerOf(c, sessions[s]), s, Msg(k, q))
    /\ UNCHANGED_links

\* An operator closes a session; both peers are told.
ForceDisconnect(s) ==
    LET gone == Reapable \cup {s} IN
    /\ sessions[s] # None /\ ~Expired(s)
    /\ sessions' = SessionsWithout(gone)
    /\ host_busy' = BusyWithout(gone)
    /\ heard' = HeardEnd(gone, link)
    /\ UNCHANGED_links

\* A request answered with an error (unknown or foreign session, wrong state,
\* stale sequence, busy host, host offline, overflow), a stale ICE candidate
\* dropped, a query of the helpers: only the reaping is done.
Reap ==
    /\ sessions' = SessionsWithout(Reapable)
    /\ host_busy' = BusyWithout(Reapable)
    /\ heard' = HeardEnd(Reapable, link)
    /\ UNCHANGED_links
ReapExpired == Reapable # {} /\ Reap

\* One unit of time passes.
Older(s) ==
    IF sessions[s] # None /\ sessions[s].ttl > 0
    THEN [sessions[s] EXCEPT !.ttl = @ - 1] ELSE sessions[s]
Tick ==
    /\ \E s \in Sid : sessions[s] # None /\ sessions[s].ttl > 0
    /\ sessions' = [s \in Sid |-> Older(s)]
    /\ UNCHANGED <<link, identity, host_by_public_id, host_busy, heard>>

-----------------------------------------------------------------------------
ConnStep(c) ==
    \/ RegisterConn(c)
    \/ WriterBreaks(c)
    \/ BindViewer(c)
    \/ \E h \in Host : BindHost(c, h)
    \/ UnregisterConn(c)

Request(c) ==
    \E s \in Sid, q \in SeqNo :
        \/ \E h \in Host : CreatePendingSession(c, s, h, q)
        \/ AcceptSession(c, s, q)
        \/ RejectSession(c, s, q)
        \/ EndSession(c, s, q)
        \/ \E k \in RelayKind : RelayMediaSignal(c, s, k, q)

Next ==
    \/ \E c \in Conn : ConnStep(c) \/ Request(c)
    \/ \E s \in Sid : ForceDisconnect(s)
    \/ ReapExpired
    \/ Tick

Spec == Init /\ [][Next]_vars

-----------------------------------------------------------------------------
\* What the registry promises

\* The busy lock and the session table never disagree: a host is locked by
\* exactly the session that names it, so a host has at most one controller
\* and no closed session keeps a lock (session.rs, host_busy / sessions).
LockMatchesSessions ==
    \A h \in Host, s \in Sid :
        host_busy[h] = s <=> sessions[s] # None /\ sessions[s].host = h

\* Both ends of a session are connections still in the map, the host end is
\* the host's published socket, and each end has the role the session gives
\* it, also after the host reconnected on another socket (bind_peer rebinds
\* the sessions of the socket it evicts) and after either end went away.
PartiesConnected ==
    \A s \in Sid : sessions[s] # None =>
        LET ss == sessions[s] IN
        /\ InMap(ss.host_conn) /\ identity[ss.host_conn] = HostId(ss.host)
        /\ host_by_public_id[ss.host] = ss.host_conn
        /\ InMap(ss.viewer_conn) /\ identity[ss.viewer_conn] = Viewer

\* Published presence always points at a connection that said hello as that
\* host and is still in the map (bind_peer, unregister_conn).
PresenceConnected ==
    \A h \in Host : host_by_public_id[h] # None =>
        /\ InMap(host_by_public_id[h])
        /\ identity[host_by_public_id[h]] = HostId(h)

\* No connection that can still be written to is left believing in a session
\* the server no longer has: the last thing it heard about a session is true
\* (offered to this host, accepted for this viewer, media being relayed to
\* this party), or is the session's end.
BeliefsHold ==
    \A c \in Conn, s \in Sid :
        link[c] = "open" /\ heard[c][s] # None =>
            LET k == heard[c][s].kind IN
            /\ k = "incoming" => sessions[s] # None /\ sessions[s].host_conn = c
            /\ k = "accept" => /\ sessions[s] # None /\ sessions[s].viewer_conn = c
                              /\ sessions[s].state = "active"
            /\ k \in RelayKind => /\ sessions[s] # None /\ Party(c, sessions[s])
                                  /\ sessions[s].state = "active"

\* Everything heard about a session is older than what the session will
\* accept next, until the counter saturates at u64::MAX.
HeardIsPast ==
    \A c \in Conn, s \in Sid :
        sessions[s] # None /\ heard[c][s] # None =>
            \/ heard[c][s].seq < sessions[s].next_signal_seq
            \/ sessions[s].next_signal_seq = MaxSeq

\* A connection hears a session's messages in strictly increasing signal_seq
\* order (host and viewer share one counter), whichever peer or the server
\* produced them; a new session under a reused id starts over.
NewlyHeard(c, s) ==
    /\ heard[c][s] # None
    /\ heard'[c][s] \notin {None, heard[c][s]}
    /\ heard'[c][s].kind # "incoming"
SignalSeqIncreasesBelowMax ==
    [][\A c \in Conn, s \in Sid : NewlyHeard(c, s) =>
          heard'[c][s].seq > heard[c][s].seq \/ heard[c][s].seq = MaxSeq]_vars

KeepsController(h) ==
    LET s == host_busy[h] IN
    /\ host_busy'[h] = s
    /\ sessions'[s].viewer_conn = sessions[s].viewer_conn
    /\ sessions[s].state = "active" => sessions'[s].state = "active"

\* The controller of a host is never replaced while its session is alive:
\* the lock passes to another session only after the holder has expired, and
\* a live session keeps its viewer (host reconnects included) and never goes
\* back from active to pending.
ControllerNotReplaced ==
    [][\A h \in Host :
          host_busy[h] # None /\ ~Expired(host_busy[h]) /\ host_busy'[h] # None =>
              KeepsController(h)]_vars

\* As long as time passes and somebody keeps making requests, no session
\* controls a host for ever, and an expired holder does not keep its lock: the
\* TTL ends it (session.rs, reap_expired_locked at the head of every request).
Controls(h, s) == host_busy[h] = s /\ sessions[s].state = "active"
Overdue(h) == host_busy[h] # None /\ Expired(host_busy[h])
LockNotPinned ==
    \A h \in Host : /\ []<>~Overdue(h)
                    /\ \A s \in Sid : Controls(h, s) ~> ~Controls(h, s)
FairSpec == Spec /\ WF_vars(Tick) /\ WF_vars(ReapExpired)

-----------------------------------------------------------------------------
\* The lease of a host, read off the lock and the session it names.
LeaseOf(h) ==
    IF host_busy[h] = None THEN None
    ELSE LET ss == sessions[host_busy[h]] IN
         [sid |-> host_busy[h], viewer |-> ss.viewer_conn,
          phase |-> ss.state, ttl |-> ss.ttl]

Abstract == INSTANCE HostLease WITH Viewer <- Conn,
                                    lease <- [h \in Host |-> LeaseOf(h)]

\* The registry implements the lease: one controlling viewer per host, taken
\* over only when the holder's TTL has run out.
ImplementsHostLease == Abstract!Spec
=============================================================================
