---------------------------- MODULE AgentControl ----------------------------
(***************************************************************************)
(* The host's session agent: the control state driven over the service's   *)
(* control connection (apps/host/src/agent.rs), the session manager it     *)
(* drives (session.rs) and the loop that serves one service connection     *)
(* after another (control_loop.rs).                                        *)
(*                                                                         *)
(* The agent is one thread: a control message is handled whole.  The       *)
(* peer's data channels fill a queue from the transport's own threads; a   *)
(* poll takes the queue and works through it message by message, and what  *)
(* arrives meanwhile waits for the next poll (taken is non-empty while a   *)
(* poll runs, and nothing else of the agent does).                         *)
(*                                                                         *)
(* A refused message that changes nothing is not written down.  What       *)
(* capture devices, the peer transport and the viewer do is arbitrary.     *)
(***************************************************************************)
EXTENDS Naturals, Sequences

CONSTANTS
    Sid,            \* session ids
    None,
    BootSecret,     \* whether attach needs the boot secret
    MaxAttach,      \* bound: attachments in one behaviour
    MaxChallenge,   \* bound: identity challenges issued
    MaxPeer,        \* bound: transports built
    MaxData         \* bound: messages waiting in the queue

VARIABLES
    state,      \* AgentSessionState
    manager,    \* SessionManager, without transport and queue
    peer,       \* its transport: which one, and its connection state
    data,       \* data-channel messages not yet polled
    taken,      \* messages the running poll still has to look at
    attached,   \* number of attachments so far
    issued,     \* sequence: the attachment each challenge was issued in
    sent        \* the session and transport of the last media sent

vars == <<state, manager, peer, data, taken, attached, issued, sent>>

State == [session_id : Sid \cup {None}, media_started : BOOLEAN,
          enable_input : BOOLEAN, unattended : BOOLEAN, chrome_visible : BOOLEAN,
          killed : BOOLEAN, unattended_disabled : BOOLEAN]

\* 0 is no challenge.  identity_bound names the challenge whose answer set
\* the flag of that name, accepted_input the one that stood behind the last
\* input event injected.
Challenge == 0 .. MaxChallenge
Manager == [session_id : Sid \cup {None}, media : BOOLEAN,
            session_authorized : BOOLEAN, identity_bound : Challenge,
            bind_key : BOOLEAN, pending_dc_challenge : Challenge,
            policy_input_enabled : BOOLEAN, accepted_input : Challenge]

\* "answered" is the code's Connecting with the remote description set.
Connection == {"new", "connecting", "answered", "connected", "disconnected"}
Peer == [id : 1 .. MaxPeer, conn : Connection]

\* An identity message answers a challenge, with the right key or not, or is
\* something the host does not expect (to = 0).
Data == [label : {"input"}]
        \cup [label : {"identity"}, to : Challenge, right : BOOLEAN]
Sent == [session : Sid, transport : 1 .. MaxPeer]

ASSUME AgentAssumption ==
    /\ BootSecret \in BOOLEAN
    /\ MaxAttach \in Nat /\ MaxChallenge \in Nat /\ MaxPeer \in Nat \ {0}
    /\ MaxData \in Nat
    /\ None \notin Sid \cup Sent

TypeOK ==
    /\ state \in State
    /\ manager \in Manager
    /\ peer \in Peer
    /\ data \in Seq(Data) /\ taken \in Seq(Data)
    /\ attached \in 0 .. MaxAttach
    /\ issued \in Seq(0 .. MaxAttach) /\ Len(issued) <= MaxChallenge
    /\ sent \in Sent \cup {None}

NoState == [session_id |-> None, media_started |-> FALSE, enable_input |-> FALSE,
            unattended |-> FALSE, chrome_visible |-> FALSE, killed |-> FALSE,
            unattended_disabled |-> FALSE]

\* SessionManager after attach (s a session id) or detach (s = None).
Bound(s) == [session_id |-> s, media |-> FALSE, session_authorized |-> FALSE,
             identity_bound |-> 0, bind_key |-> FALSE,
             pending_dc_challenge |-> 0, policy_input_enabled |-> FALSE,
             accepted_input |-> 0]

Init ==
    /\ state = NoState
    /\ manager = Bound(None)
    /\ peer = [id |-> 1, conn |-> "new"]
    /\ data = <<>> /\ taken = <<>>
    /\ attached = 0
    /\ issued = <<>>
    /\ sent = None

counts == <<attached, issued>>

-----------------------------------------------------------------------------
\* Control messages

\* The loop passes a message on to the agent: with a boot secret expected,
\* nothing but an attach is heard before a session is attached.
Heard == /\ taken = <<>>
         /\ BootSecret => state.session_id # None

OnSession(s) == Heard /\ state.session_id = s
OnLive(s) == OnSession(s) /\ ~state.killed

\* A second session is refused while one is live; after the kill-switch a
\* fresh attach is allowed.  The attach carried the secret, if one is needed.
CanAttach == state.session_id = None \/ state.killed

AttachSession(s) ==
    /\ taken = <<>>
    /\ CanAttach
    /\ attached < MaxAttach
    /\ state' = [NoState EXCEPT !.session_id = s, !.chrome_visible = TRUE,
                                !.unattended_disabled = state.unattended_disabled]
    /\ manager' = Bound(s)
    /\ attached' = attached + 1
    /\ UNCHANGED <<peer, data, taken, issued, sent>>

\* A new agent: new state, new manager, new transport with its own queue.
NewAgentSession ==
    /\ peer.id < MaxPeer
    /\ state' = NoState
    /\ manager' = Bound(None)
    /\ peer' = [id |-> peer.id + 1, conn |-> "new"]
    /\ data' = <<>>
    /\ UNCHANGED <<taken, counts, sent>>

\* Detach and shutdown.  The agent clears its session (keeping the unattended
\* latch) and detaches the manager; after the reply the loop replaces it.
DetachSession(s) == OnSession(s) /\ NewAgentSession

\* The service goes away and connects again: a new agent serves it.
ServiceReconnects == taken = <<>> /\ NewAgentSession

SyncInputPolicy(st, m) ==
    [m EXCEPT !.policy_input_enabled = st.enable_input /\ ~st.killed]

\* Mutants: the manager's gate is left as it was; the latch is not asked.
SetPolicyUnsynced(s, enable_input, unattended) ==
    /\ OnLive(s)
    /\ unattended => ~state.unattended_disabled
    /\ state' = [state EXCEPT !.enable_input = enable_input,
                              !.unattended = unattended]
    /\ UNCHANGED <<manager, peer, data, taken, counts, sent>>
SetPolicyUnlatched(s, enable_input, unattended) ==
    /\ OnLive(s)
    /\ state' = [state EXCEPT !.enable_input = enable_input,
                              !.unattended = unattended]
    /\ manager' = SyncInputPolicy(state', manager)
    /\ UNCHANGED <<peer, data, taken, counts, sent>>

SetPolicy(s, enable_input, unattended) ==
    /\ OnLive(s)
    /\ unattended => ~state.unattended_disabled
    /\ state' = [state EXCEPT !.enable_input = enable_input,
                              !.unattended = unattended]
    /\ manager' = SyncInputPolicy(state', manager)
    /\ UNCHANGED <<peer, data, taken, counts, sent>>

\* The control state is set first and taken back when the manager fails: at
\* the capture devices, or, its media plane already in place, at the offer.
StartMedia(s, outcome) ==
    /\ OnLive(s)
    /\ outcome # "ok" => ~manager.media
    /\ outcome = "no_offer" => peer.conn = "new"
    /\ state' = [state EXCEPT !.media_started = (outcome = "ok")]
    /\ manager' = [manager EXCEPT !.media = manager.media \/ outcome # "no_capture"]
    /\ peer' = [peer EXCEPT !.conn =
                   IF outcome = "ok" /\ ~manager.media /\ peer.conn = "new"
                   THEN "connecting" ELSE peer.conn]
    /\ UNCHANGED <<data, taken, counts, sent>>

StopMedia(s) ==
    /\ OnSession(s)
    /\ state' = [state EXCEPT !.media_started = FALSE]
    /\ manager' = [manager EXCEPT !.media = FALSE]
    /\ UNCHANGED <<peer, data, taken, counts, sent>>

\* Mutant: hiding is granted.
HideSessionChrome(s) ==
    /\ OnLive(s)
    /\ state' = [state EXCEPT !.chrome_visible = FALSE]
    /\ UNCHANGED <<manager, peer, data, taken, counts, sent>>

\* Showing is granted and hiding refused, both with the chrome left visible.
ShowSessionChrome(s) ==
    /\ OnLive(s)
    /\ state' = [state EXCEPT !.chrome_visible = TRUE]
    /\ UNCHANGED <<manager, peer, data, taken, counts, sent>>

\* Mutant: the manager is not detached.
KillSwitchKeepsManager(target, disable_unattended) ==
    /\ Heard
    /\ target \in {None, state.session_id}
    /\ state' = [NoState EXCEPT
           !.session_id = state.session_id, !.killed = TRUE,
           !.unattended_disabled = state.unattended_disabled \/ disable_unattended]
    /\ manager' = SyncInputPolicy(state', manager)
    /\ UNCHANGED <<peer, data, taken, counts, sent>>

\* target None is the global kill.
KillSwitch(target, disable_unattended) ==
    /\ Heard
    /\ target \in {None, state.session_id}
    /\ state' = [NoState EXCEPT
           !.session_id = state.session_id, !.killed = TRUE,
           !.unattended_disabled = state.unattended_disabled \/ disable_unattended]
    /\ manager' = SyncInputPolicy(state', Bound(None))
    /\ UNCHANGED <<peer, data, taken, counts, sent>>

\* After an answer, a candidate or a stats query, even a refused one, the
\* loop pumps media if the control state and the transport allow it.
Pump(pr) ==
    sent' = IF state.media_started /\ pr.conn = "connected" /\ manager.media
            THEN [session |-> manager.session_id, transport |-> pr.id]
            ELSE sent

QueryStats ==
    /\ Heard
    /\ Pump(peer)
    /\ UNCHANGED <<state, manager, peer, data, taken, counts>>

\* The viewer's answer is applied; the transport may connect at once.
SignalAnswer(s) ==
    /\ OnLive(s)
    /\ peer.conn = "connecting"
    /\ \E c \in {"answered", "connected"} : peer' = [peer EXCEPT !.conn = c]
    /\ Pump(peer')
    /\ UNCHANGED <<state, manager, data, taken, counts>>

-----------------------------------------------------------------------------
\* The host itself, and the peer

ReenableUnattendedLocal ==
    /\ taken = <<>>
    /\ state' = [state EXCEPT !.unattended_disabled = FALSE]
    /\ UNCHANGED <<manager, peer, data, taken, counts, sent>>

\* Mode A does not look at the session, mode B needs one.
Authorize(mode) ==
    /\ taken = <<>>
    /\ mode = "unattended" => manager.session_id # None
    /\ manager' = [manager EXCEPT !.bind_key = TRUE, !.session_authorized = TRUE]
    /\ UNCHANGED <<state, peer, data, taken, counts, sent>>

StartIdentityChallenge ==
    /\ taken = <<>>
    /\ manager.session_id # None
    /\ manager.session_authorized /\ manager.bind_key
    /\ peer.conn = "connected"
    /\ Len(issued) < MaxChallenge
    /\ issued' = Append(issued, attached)
    /\ manager' = [manager EXCEPT !.pending_dc_challenge = Len(issued) + 1]
    /\ UNCHANGED <<state, peer, data, taken, attached, sent>>

\* poll_inbound, first half: sync the gate, take the queue.
PollInbound ==
    /\ taken = <<>> /\ data # <<>>
    /\ manager' = SyncInputPolicy(state, manager)
    /\ taken' = data
    /\ data' = <<>>
    /\ UNCHANGED <<state, peer, counts, sent>>

InjectionAllowed ==
    /\ manager.policy_input_enabled
    /\ manager.identity_bound # 0 /\ manager.session_authorized

\* An input event is injected, or dropped (gate, decoder, rate limit).
ProcessInput(inject) ==
    /\ taken # <<>> /\ Head(taken).label = "input"
    /\ inject => InjectionAllowed
    /\ manager' = IF inject
                  THEN [manager EXCEPT !.accepted_input = manager.identity_bound]
                  ELSE manager
    /\ taken' = Tail(taken)
    /\ UNCHANGED <<state, peer, data, counts, sent>>

\* Mutant: any challenge ever issued may be answered.
VerifiesAny(d) == d.to # 0 /\ d.right /\ manager.bind_key

\* The answer uses up the pending challenge whatever it is worth.  Anything
\* but a right answer ends the poll: the rest of what it took is lost.
Verifies(d) ==
    /\ d.to # 0 /\ d.to = manager.pending_dc_challenge
    /\ d.right /\ manager.bind_key

HandleIdentityData ==
    LET d == Head(taken) IN
    /\ taken # <<>> /\ d.label = "identity"
    /\ manager' = [manager EXCEPT
           !.pending_dc_challenge = IF d.to = 0 THEN @ ELSE 0,
           !.identity_bound = IF Verifies(d) THEN d.to ELSE @]
    /\ taken' = IF Verifies(d) THEN Tail(taken) ELSE <<>>
    /\ UNCHANGED <<state, peer, data, counts, sent>>

\* Transport threads.
DataArrives(d) ==
    /\ peer.conn = "connected"
    /\ Len(data) < MaxData
    /\ d.label = "identity" => d.to <= Len(issued)
    /\ data' = Append(data, d)
    /\ UNCHANGED <<state, manager, peer, taken, counts, sent>>

PeerConnects ==
    /\ peer.conn = "answered"
    /\ peer' = [peer EXCEPT !.conn = "connected"]
    /\ UNCHANGED <<state, manager, data, taken, counts, sent>>

PeerDisconnects ==
    /\ peer.conn \in {"connecting", "answered", "connected"}
    /\ peer' = [peer EXCEPT !.conn = "disconnected"]
    /\ UNCHANGED <<state, manager, data, taken, counts, sent>>

-----------------------------------------------------------------------------
ControlMessage ==
    \/ \E s \in Sid :
        \/ AttachSession(s) \/ DetachSession(s)
        \/ \E e, u \in BOOLEAN : SetPolicy(s, e, u)
        \/ \E o \in {"ok", "no_capture", "no_offer"} : StartMedia(s, o)
        \/ StopMedia(s) \/ ShowSessionChrome(s) \/ SignalAnswer(s)
    \/ \E t \in Sid \cup {None}, d \in BOOLEAN : KillSwitch(t, d)
    \/ QueryStats

Next ==
    \/ ControlMessage
    \/ ServiceReconnects
    \/ ReenableUnattendedLocal
    \/ \E mode \in {"otp", "unattended"} : Authorize(mode)
    \/ StartIdentityChallenge
    \/ PollInbound
    \/ \E inject \in BOOLEAN : ProcessInput(inject)
    \/ HandleIdentityData
    \/ \E d \in Data : DataArrives(d)
    \/ PeerConnects \/ PeerDisconnects

Spec == Init /\ [][Next]_vars

-----------------------------------------------------------------------------
\* The flags the control state and the manager both keep agree where it
\* matters: the manager's input gate is open only under a policy that allows
\* input on a live session, media is reported started only while the manager
\* has its media plane, and a live session is the manager's session.
MirrorsAgree ==
    /\ manager.policy_input_enabled => state.enable_input /\ ~state.killed
    /\ state.media_started => manager.media
    /\ manager.session_id = IF state.killed THEN None ELSE state.session_id

\* After the kill-switch nothing of the session is left running, and no
\* further command revives it before a fresh attach: no media, no input, no
\* identity, no chrome (agent.rs, KillSwitch).
KilledIsDead ==
    state.killed =>
        /\ ~state.media_started /\ ~state.enable_input /\ ~state.unattended
        /\ ~state.chrome_visible
        /\ manager.session_id = None /\ ~manager.media
        /\ ~manager.policy_input_enabled /\ manager.identity_bound = 0

\* While a session is live its connection chrome is visible; media never
\* goes out and input is never injected without it.
ChromeWhileLive ==
    state.session_id # None /\ ~state.killed => state.chrome_visible

\* The identity proof that opens the input gate was given in the attachment
\* it is used in: an answer that belongs to an earlier session of the same
\* transport, still queued or sent late, binds nothing.
InputBoundToAttachment ==
    /\ \A n \in {manager.identity_bound, manager.accepted_input} :
           n # 0 => issued[n] = attached
    /\ InjectionAllowed => /\ state.enable_input /\ state.chrome_visible
                          /\ manager.session_id = state.session_id

\* Mode B is never on while the local kill-switch has latched it off.
UnattendedRespectsLatch == state.unattended => ~state.unattended_disabled
=============================================================================
