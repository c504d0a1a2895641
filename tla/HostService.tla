---------------------------- MODULE HostService ----------------------------
(***************************************************************************)
(* The host service (apps/host/src/ws_session.rs): one signaling socket at *)
(* a time, one session at a time on it, the tray, and either an in-process *)
(* session manager or a session agent behind a control connection.         *)
(*                                                                         *)
(* pc is where run_ws_host_service and the session handler it awaits are:  *)
(*                                                                         *)
(*   offline   between two sockets                                         *)
(*   idle      waiting for session_incoming                                *)
(*   start     accepted; attach and start media                            *)
(*   offer     an offer is ready to be sent                                *)
(*   answer    waiting for the viewer's answer                             *)
(*   ice       the answer is applied; the host's candidates go out         *)
(*   trickle   exchanging candidates until connected                       *)
(*   live      media flows                                                 *)
(*   done      the media loop returned; tear down and report success       *)
(*   exited    run_ws_host_service returned                                *)
(*                                                                         *)
(* The server and the viewer appear as what they do to the socket: busy is *)
(* the session the server's lock holds for this host, registered the       *)
(* socket it knows the host by.                                            *)
(***************************************************************************)
EXTENDS Naturals, Sequences

CONSTANTS
    Sid,            \* session ids the server hands out
    None,
    Configs,        \* the WsHostConfigs considered
    MaxInbox,       \* bound: messages waiting on the socket
    MaxMint         \* bound: one-time codes minted

VARIABLES
    cfg,            \* WsHostConfig, fixed
    pc,
    session,        \* the session being handled, [id, mode], or None
    completed,      \* sessions that ended with Ok
    socket,         \* "none", "up", or "lost" (dead, not yet noticed)
    inbox,          \* signaling messages not yet received
    indicator,      \* tray: SessionIndicator
    commands,       \* tray: TrayCommands
    menu,           \* tray: popup menu, "closed", "idle" or "in_session"
    control,        \* control connection to the agent, "up" or "down"
    agent,          \* session attached on the agent, or None
    active_otp,     \* number of the code whose window is there, or 0 once spent
    expired,        \* whether that window's time is over
    minted,         \* codes minted so far
    identity,       \* of the in-process manager's session
    busy,           \* server: the session holding the host's lock, or None
    registered,     \* server: "none", "current" or "stale" socket of the host
    code,           \* server: the posted one-time code, "fresh" or "spent"; that
                    \* it expires too only keeps viewers away
    known           \* server: session ids used so far

loop == <<cfg, pc, session, completed>>
wire == <<socket, inbox>>
tray == <<indicator, commands, menu>>
ipc == <<control, agent>>
hub == <<active_otp, expired, minted, identity>>
server == <<busy, registered, code, known>>
vars == <<loop, wire, tray, ipc, hub, server>>

\* agent: agent_control is set, media runs on a session agent.  live:
\* video_frames = 0, a session lasts until somebody hangs up.  max_sessions
\* is 0 for no limit; secret: an unattended secret is given.
Config == [agent : BOOLEAN, live : BOOLEAN, reconnect : BOOLEAN,
           max_sessions : Nat, secret : BOOLEAN]

Mode == {"otp", "password", "unattended"}
Session == [id : Sid, mode : Mode]
Kind == {"incoming", "answer", "ice", "end", "error"}
Message == [kind : Kind, session : Session \cup {None}]
Busy == [session : Session, state : {"pending", "active", "offered", "answered"}]
Indicator == [connected : BOOLEAN, active : BOOLEAN, session_id : Sid \cup {None}]

ASSUME HostAssumption ==
    /\ Configs \subseteq Config
    /\ MaxInbox \in Nat /\ MaxMint \in Nat \ {0}
    /\ None \notin Sid \cup Session \cup Busy

\* The values the variables take; identity is "forced" when the service
\* declared the viewer bound itself.
TypeOK ==
    /\ cfg \in Configs
    /\ pc \in {"offline", "idle", "start", "offer", "answer", "ice", "trickle",
               "live", "done", "exited"}
    /\ session \in Session \cup {None}
    /\ completed \in Nat
    /\ socket \in {"none", "up", "lost"}
    /\ inbox \in Seq(Message)
    /\ indicator \in Indicator
    /\ commands \in [end_session : BOOLEAN, exit : BOOLEAN]
    /\ menu \in {"closed", "idle", "in_session"}
    /\ control \in {"up", "down"} /\ agent \in Sid \cup {None}
    /\ active_otp \in 0 .. MaxMint /\ minted \in 0 .. MaxMint /\ expired \in BOOLEAN
    /\ identity \in {"none", "challenged", "bound", "forced"}
    /\ busy \in Busy \cup {None}
    /\ registered \in {"none", "current", "stale"}
    /\ code \in {"fresh", "spent"}
    /\ known \subseteq Sid

NoSession == [connected |-> FALSE, active |-> FALSE, session_id |-> None]

\* Enrolled, first code minted and posted, agent connected.
Init ==
    /\ cfg \in Configs
    /\ pc = "offline" /\ session = None /\ completed = 0
    /\ socket = "none" /\ inbox = <<>>
    /\ indicator = NoSession
    /\ commands = [end_session |-> FALSE, exit |-> FALSE] /\ menu = "closed"
    /\ control = "up" /\ agent = None
    /\ active_otp = 1 /\ minted = 1 /\ expired = FALSE /\ identity = "none"
    /\ busy = None /\ registered = "none" /\ code = "fresh" /\ known = {}

-----------------------------------------------------------------------------
\* How a handler's result continues the service loop.  Errors are told apart
\* by their text: "tray" (ended from tray), "timeout" (wait incoming and the
\* answer's deadline), "error" (everything else).

CanContinue == cfg.reconnect \/ cfg.max_sessions = 0 \/ cfg.max_sessions > 1

AfterError(class) ==
    CASE class = "tray" /\ commands.exit               -> "exited"
      [] class \in {"tray", "timeout"} /\ CanContinue  -> "idle"
      [] class = "error" /\ cfg.reconnect              -> "offline"
      [] OTHER                                         -> "exited"

\* The service goes on at next, keeping the socket and the messages in rest
\* only if it goes on waiting.
Continue(next, rest) ==
    /\ pc' = next
    /\ session' = None
    /\ UNCHANGED cfg
    /\ identity' = "none"
    /\ IF next = "idle"
       THEN inbox' = rest /\ UNCHANGED <<socket, registered>>
       ELSE /\ inbox' = <<>> /\ socket' = "none"
            /\ registered' = IF registered = "current" THEN "stale" ELSE registered

SessionErr(class, rest) ==
    /\ Continue(AfterError(class), rest)
    /\ UNCHANGED <<completed, active_otp, expired, minted>>

\* What HostTray's begin_session does: a session already shown stays.
BeginSession(s) ==
    IF indicator.connected THEN indicator
    ELSE [connected |-> TRUE, active |-> FALSE, session_id |-> s]

\* Mutant: the session stays.
EndNothing == indicator

MarkActive == [indicator EXCEPT !.active = indicator.connected]
EndSession == NoSession

\* An error between the offer and the live loop.  The in-process handler
\* clears the tray; the agent's handler returns as it is, leaving the tray
\* and the attached agent.
Abandon(rest) ==
    /\ SessionErr("error", rest)
    /\ indicator' = IF cfg.agent THEN indicator ELSE EndSession
    /\ UNCHANGED <<commands, menu, ipc>>

\* DetachSession is asked of the agent, whatever it replies.
Detach == agent' = IF cfg.agent THEN None ELSE agent

\* The server's answer to a message about a session it no longer has.
ErrorMsg == [kind |-> "error", session |-> None]
Holds(states) == busy # None /\ busy.session = session /\ busy.state \in states

\* The socket takes a message; a dead one may still seem to.
CanSend == socket \in {"up", "lost"}
Go(next) == pc' = next /\ UNCHANGED <<cfg, session, completed>>

Reading(where) == pc \in where /\ inbox # <<>>
Next1 == Head(inbox)
Closed(where) == pc \in where /\ inbox = <<>> /\ socket = "lost"

-----------------------------------------------------------------------------
\* Signaling socket

\* connect and hello succeed.  The server moves the host's session, if the
\* previous socket is still registered, to the new one.
Connect ==
    /\ pc = "offline"
    /\ Go("idle")
    /\ socket' = "up" /\ inbox' = <<>>
    /\ registered' = "current"
    /\ UNCHANGED <<busy, code, known, tray, ipc, hub>>

\* ... or fail, and the service is not to try again.
ConnectFails ==
    /\ pc = "offline" /\ ~cfg.reconnect
    /\ Go("exited")
    /\ UNCHANGED <<wire, tray, ipc, hub, server>>

\* accept_incoming_session: accept, then show the session.
AcceptIncoming(m) ==
    LET taken == busy # None /\ busy.session = m.session /\ busy.state = "pending" IN
    /\ pc = "idle" /\ m.kind = "incoming"
    /\ pc' = "start" /\ session' = m.session
    /\ IF socket = "up" /\ taken
       THEN /\ busy' = [busy EXCEPT !.state = "active"]
            /\ code' = IF m.session.mode = "otp" THEN "spent" ELSE code
       ELSE UNCHANGED <<busy, code>>
    /\ inbox' = IF socket = "up" /\ ~taken THEN Append(Tail(inbox), ErrorMsg)
                ELSE Tail(inbox)
    /\ indicator' = BeginSession(m.session.id)
    /\ UNCHANGED <<cfg, completed, socket, commands, menu, ipc, hub, registered, known>>

\* recv_until passes over everything else; an error ends the wait, and the
\* loop waits again.
SkipWhileIdle ==
    /\ Reading({"idle"}) /\ Next1.kind # "incoming"
    /\ IF Next1.kind = "error"
       THEN SessionErr("timeout", Tail(inbox))
       ELSE /\ inbox' = Tail(inbox)
            /\ UNCHANGED <<loop, socket, registered, hub>>
    /\ UNCHANGED <<busy, code, known, tray, ipc>>

\* wait incoming: the deadline.
IdleTimeout ==
    /\ pc = "idle"
    /\ SessionErr("timeout", inbox)
    /\ UNCHANGED <<busy, code, known, tray, ipc>>

\* The socket is found dead while waiting, or when accepting.
IdleClosed ==
    /\ \/ Closed({"idle"})
       \/ Reading({"idle"}) /\ Next1.kind = "incoming" /\ socket = "lost"
    /\ SessionErr("error", <<>>)
    /\ UNCHANGED <<busy, code, known, tray, ipc>>

-----------------------------------------------------------------------------
\* From accept to connected

\* Mutant: the agent's refusal is not looked at.
StartSessionUnchecked ==
    /\ pc = "start"
    /\ cfg.agent => control = "up"
    /\ Go("offer")
    /\ agent' = IF cfg.agent /\ agent = None THEN session.id ELSE agent
    /\ UNCHANGED <<control, wire, tray, hub, server>>

\* Attach, policy and start_media on the agent, or the in-process manager.
StartSession ==
    /\ pc = "start"
    /\ cfg.agent => control = "up" /\ agent = None
    /\ Go("offer")
    /\ agent' = IF cfg.agent THEN session.id ELSE agent
    /\ UNCHANGED <<control, wire, tray, hub, server>>

\* The agent is gone or refuses, media do not start, or no offer comes of it:
\* every handler returns at once.
StartFails ==
    /\ pc = "start"
    /\ SessionErr("error", inbox)
    /\ agent' \in {agent} \cup
           (IF cfg.agent /\ control = "up" /\ agent = None THEN {session.id} ELSE {})
    /\ UNCHANGED <<control, tray, busy, code, known>>

SendOffer ==
    /\ pc = "offer" /\ CanSend
    /\ Go("answer")
    /\ busy' = IF socket = "up" /\ Holds({"active"})
               THEN [busy EXCEPT !.state = "offered"] ELSE busy
    /\ inbox' = IF socket = "up" /\ ~Holds({"active"}) THEN Append(inbox, ErrorMsg)
                ELSE inbox
    /\ UNCHANGED <<socket, tray, ipc, hub, registered, code, known>>

SendFails ==
    /\ pc \in {"offer", "ice", "trickle"} /\ socket = "lost"
    /\ Abandon(<<>>)
    /\ UNCHANGED <<busy, code, known>>

\* Candidates are put aside, everything else is passed over: a session_end too.
WaitAnswer ==
    /\ Reading({"answer"})
    /\ Next1.kind \in {"incoming", "ice", "end"}
    /\ inbox' = Tail(inbox)
    /\ UNCHANGED <<loop, socket, tray, ipc, hub, server>>

ApplyAnswer ==
    /\ Reading({"answer"}) /\ Next1.kind = "answer"
    /\ cfg.agent => control = "up"
    /\ Go("ice")
    /\ inbox' = Tail(inbox)
    /\ UNCHANGED <<socket, tray, ipc, hub, server>>

\* The agent is gone or refuses the answer or a candidate, the server reports
\* an error, or the socket closes.
AnswerFails ==
    /\ \/ Reading({"answer"}) /\ Next1.kind \in {"answer", "error"}
       \/ Reading({"answer"}) /\ Next1.kind = "ice" /\ ~cfg.agent
       \/ Closed({"answer"})
    /\ Abandon(<<>>)
    /\ UNCHANGED <<busy, code, known>>

\* Mutant: the deadline is looked at when a message comes.
AnswerTimeoutOnMessage ==
    /\ Reading({"answer"})
    /\ SessionErr("timeout", inbox)
    /\ Detach
    /\ indicator' = EndSession
    /\ UNCHANGED <<control, commands, menu, busy, code, known>>

AnswerTimeout ==
    /\ pc = "answer"
    /\ SessionErr("timeout", inbox)
    /\ Detach
    /\ indicator' = EndSession
    /\ UNCHANGED <<control, commands, menu, busy, code, known>>

SendHostIce ==
    /\ pc = "ice" /\ CanSend
    /\ Go("trickle")
    /\ inbox' = IF socket = "up" /\ ~Holds({"offered", "answered"})
                THEN Append(inbox, ErrorMsg) ELSE inbox
    /\ UNCHANGED <<socket, tray, ipc, hub, server>>

\* A candidate goes to the agent or the manager; every other message,
\* a session_end and an error among them, is received and dropped.
Trickle ==
    /\ Reading({"trickle"})
    /\ cfg.agent /\ Next1.kind = "ice" => control = "up"
    /\ inbox' = Tail(inbox)
    /\ UNCHANGED <<loop, socket, tray, ipc, hub, server>>

\* The agent is gone, or a candidate is refused or makes no sense: one just
\* received, or one of those put aside while waiting for the answer.
TrickleFails ==
    /\ \/ Reading({"trickle"}) /\ Next1.kind = "ice"
       \/ pc = "trickle" /\ cfg.agent /\ control = "down"
       \/ pc = "ice"
    /\ Abandon(<<>>)
    /\ UNCHANGED <<busy, code, known>>

\* "End session" while connecting.  Nothing is said to the server.
TrickleEndedByTray ==
    /\ pc = "trickle" /\ commands.end_session
    /\ SessionErr("tray", inbox)
    /\ Detach
    /\ indicator' = EndSession
    /\ commands' = [end_session |-> FALSE, exit |-> FALSE]
    /\ UNCHANGED <<control, menu, busy, code, known>>

\* The deadline passes without a connection (or without video on the agent).
\* The in-process manager's failure is classed by a text that may hold
\* "timeout" and the state's name.
TrickleTimeout ==
    /\ pc = "trickle"
    /\ \E class \in {"error"} \cup (IF cfg.agent THEN {} ELSE {"timeout"}) :
           SessionErr(class, inbox)
    /\ Detach
    /\ indicator' = EndSession
    /\ UNCHANGED <<control, commands, menu, busy, code, known>>

-----------------------------------------------------------------------------
\* LiveOtpHub, for live sessions of the in-process manager

\* Mode A (and a password session) spends the open window and challenges the
\* viewer, Mode B uses the host's secret.  Whatever goes wrong, an expired
\* window, a missing secret, a challenge that cannot be sent, the viewer is
\* declared bound.
Authorize ==
    \/ /\ session.mode # "unattended" /\ active_otp # 0 /\ ~expired
       /\ active_otp' = 0
       /\ identity' \in {"challenged", "forced"}
    \/ /\ session.mode = "unattended" /\ cfg.secret
       /\ identity' = "challenged"
       /\ UNCHANGED active_otp
    \/ identity' = "forced" /\ UNCHANGED active_otp

\* Connected: the tray shows the session as active, input is authorized.
GoLive ==
    /\ pc = "trickle"
    /\ cfg.agent => control = "up"
    /\ Go("live")
    /\ indicator' = MarkActive
    /\ IF cfg.live /\ ~cfg.agent THEN Authorize /\ UNCHANGED <<minted, expired>> ELSE UNCHANGED hub
    /\ UNCHANGED <<wire, commands, menu, ipc, server>>

\* The viewer answers the identity challenge.
ViewerBinds ==
    /\ pc = "live" /\ identity = "challenged"
    /\ identity' = "bound"
    /\ UNCHANGED <<loop, wire, tray, ipc, active_otp, expired, minted, server>>

\* The window's time (DEFAULT_OTP_TTL_SECS after minting) is over.  Nothing
\* looks at it before authorize_live does, and an idle host mints no new code.
\* (Services that never call it, with an agent or without live sessions, are
\* spared the event.)
WindowExpires ==
    /\ cfg.live /\ ~cfg.agent
    /\ active_otp # 0 /\ ~expired
    /\ expired' = TRUE
    /\ UNCHANGED <<loop, wire, tray, ipc, active_otp, minted, identity, server>>

-----------------------------------------------------------------------------
\* drive_local_media, drive_agent_live

LiveEndedByTray ==
    /\ cfg.live /\ pc = "live" /\ commands.end_session
    /\ Go("done")
    /\ commands' = [commands EXCEPT !.end_session = FALSE]
    /\ UNCHANGED <<wire, indicator, menu, ipc, hub, server>>

\* session_end, a server error or the end of the socket end the session; a
\* candidate is passed on, the rest dropped.  Server errors about stale
\* sequence numbers are passed over in process.
LiveReceive ==
    /\ cfg.live /\ Reading({"live"})
    /\ cfg.agent /\ Next1.kind = "ice" => control = "up"
    /\ inbox' = Tail(inbox)
    /\ \/ Next1.kind \in {"end", "error"} /\ Go("done")
       \/ Next1.kind = "ice" /\ cfg.agent /\ Go("done")
       \/ Next1.kind = "error" /\ ~cfg.agent /\ Go("live")
       \/ Next1.kind \in {"incoming", "answer", "ice"} /\ Go("live")
    /\ UNCHANGED <<socket, tray, ipc, hub, server>>

LiveClosed ==
    /\ cfg.live /\ Closed({"live"})
    /\ Go("done")
    /\ UNCHANGED <<wire, tray, ipc, hub, server>>

\* The agent is gone when a candidate is passed on: the handler returns.
LiveAgentGone ==
    /\ cfg.live /\ cfg.agent /\ control = "down"
    /\ Reading({"live"}) /\ Next1.kind = "ice"
    /\ Abandon(Tail(inbox))
    /\ UNCHANGED <<busy, code, known>>

\* The in-process manager sees its peer disconnect, or the pump fail.
PeerDrops ==
    /\ cfg.live /\ ~cfg.agent /\ pc = "live"
    /\ Go("done")
    /\ UNCHANGED <<wire, tray, ipc, hub, server>>

\* video_frames > 0: one burst.
PumpDone ==
    /\ ~cfg.live /\ pc = "live"
    /\ Go("done")
    /\ UNCHANGED <<wire, tray, ipc, hub, server>>

\* An error of the pump leaves the tray as it is; too little sent clears it.
PumpFails ==
    /\ ~cfg.live /\ ~cfg.agent /\ pc = "live"
    /\ SessionErr("error", inbox)
    /\ indicator' \in {indicator, EndSession}
    /\ UNCHANGED <<commands, menu, ipc, busy, code, known>>

-----------------------------------------------------------------------------
\* Ok

\* max_sessions is looked at when the loop comes round, the exit flag before.
AfterOk ==
    IF commands.exit \/ (cfg.max_sessions # 0 /\ completed + 1 >= cfg.max_sessions)
    THEN "exited" ELSE "idle"

\* end_wss_session.
EndWssSession(rest) ==
    IF socket = "up" /\ busy # None /\ busy.session = session
    THEN [busy |-> None, inbox |-> rest]
    ELSE [busy |-> busy, inbox |-> IF socket = "up" THEN Append(rest, ErrorMsg) ELSE rest]

\* Mutant: the window opens only once the code is posted.
RemintPostedOnly ==
    \/ UNCHANGED <<minted, active_otp, expired, code>>
    \/ /\ minted < MaxMint /\ minted' = minted + 1 /\ active_otp' = minted + 1
       /\ expired' = FALSE
       /\ code' = "fresh"

\* A new code: the window opens on it, and it is posted unless that fails.
Remint ==
    IF cfg.live
    THEN /\ minted < MaxMint
         /\ minted' = minted + 1 /\ active_otp' = minted + 1 /\ expired' = FALSE
         /\ code' \in {code, "fresh"}
    ELSE UNCHANGED <<minted, active_otp, expired, code>>

\* Detach, tell the server, clear the tray; then count, mint, look at exit.
Finish ==
    /\ pc = "done"
    /\ Continue(AfterOk, EndWssSession(inbox).inbox)
    /\ busy' = EndWssSession(inbox).busy
    /\ completed' = completed + 1
    /\ Detach
    /\ indicator' = EndSession
    /\ commands' = [commands EXCEPT !.exit = FALSE]
    /\ Remint
    /\ UNCHANGED <<control, menu, known>>

-----------------------------------------------------------------------------
\* Tray menu

\* The menu is built from the tray's state, and answered when the user does.
OpenMenu ==
    /\ menu = "closed" /\ pc # "exited"
    /\ menu' = IF indicator.active \/ indicator.connected THEN "in_session" ELSE "idle"
    /\ UNCHANGED <<loop, wire, indicator, commands, ipc, hub, server>>

Choose(cmd) ==
    /\ menu # "closed"
    /\ menu' = "closed"
    /\ cmd = "end_session" => menu = "in_session"
    /\ commands' = CASE cmd = "end_session" -> [commands EXCEPT !.end_session = TRUE]
                     [] cmd = "exit" -> [end_session |-> TRUE, exit |-> TRUE]
                     [] cmd = "none" -> commands
    /\ UNCHANGED <<loop, wire, indicator, ipc, hub, server>>

-----------------------------------------------------------------------------
\* Surroundings: the network, the agent process, the server and the viewers

LoseSocket ==
    /\ socket = "up"
    /\ socket' = "lost"
    /\ registered' = "stale"
    /\ UNCHANGED <<loop, inbox, tray, ipc, hub, busy, code, known>>

AgentDies ==
    /\ cfg.agent /\ control = "up"
    /\ control' = "down" /\ agent' = None
    /\ UNCHANGED <<loop, wire, tray, hub, server>>

\* The server notices that the host's previous socket is gone and closes what
\* ran over it.
ServerUnregisters ==
    /\ registered = "stale"
    /\ registered' = "none" /\ busy' = None
    /\ UNCHANGED <<loop, wire, tray, ipc, hub, code, known>>

Deliver(kind) ==
    inbox' = IF registered = "current"
             THEN Append(inbox, [kind |-> kind, session |-> busy.session]) ELSE inbox
Room == Len(inbox) < MaxInbox

ViewerIntent(s, mode) ==
    /\ busy = None /\ registered # "none" /\ Room
    /\ s \notin known
    /\ mode = "otp" => code = "fresh"
    /\ known' = known \cup {s}
    /\ busy' = [session |-> [id |-> s, mode |-> mode], state |-> "pending"]
    /\ inbox' = IF registered = "current"
                THEN Append(inbox, [kind |-> "incoming",
                                    session |-> [id |-> s, mode |-> mode]])
                ELSE inbox
    /\ UNCHANGED <<loop, socket, tray, ipc, hub, registered, code>>

ViewerAnswers ==
    /\ busy # None /\ busy.state = "offered" /\ Room
    /\ busy' = [busy EXCEPT !.state = "answered"]
    /\ Deliver("answer")
    /\ UNCHANGED <<loop, socket, tray, ipc, hub, registered, code, known>>

ViewerTrickles ==
    /\ busy # None /\ busy.state # "pending" /\ Room
    /\ registered = "current"
    /\ Deliver("ice")
    /\ UNCHANGED <<loop, socket, tray, ipc, hub, server>>

\* The viewer ends the session or goes, it expires, an operator closes it.
SessionOver ==
    /\ busy # None /\ Room
    /\ busy' = None
    /\ Deliver("end")
    /\ UNCHANGED <<loop, socket, tray, ipc, hub, registered, code, known>>

-----------------------------------------------------------------------------
Timeout == AnswerTimeout \/ TrickleTimeout

HostStep ==
    \/ Connect \/ ConnectFails
    \/ (Reading({"idle"}) /\ AcceptIncoming(Next1))
    \/ SkipWhileIdle \/ IdleTimeout \/ IdleClosed
    \/ StartSession \/ StartFails \/ SendOffer \/ SendFails
    \/ WaitAnswer \/ ApplyAnswer \/ AnswerFails \/ AnswerTimeout
    \/ SendHostIce \/ Trickle \/ TrickleFails \/ TrickleEndedByTray \/ TrickleTimeout
    \/ GoLive
    \/ LiveEndedByTray \/ LiveReceive \/ LiveClosed \/ LiveAgentGone
    \/ PumpDone \/ PumpFails
    \/ Finish

User == OpenMenu \/ \E cmd \in {"end_session", "exit", "none"} : Choose(cmd)

World ==
    \/ LoseSocket \/ AgentDies \/ ServerUnregisters
    \/ \E s \in Sid, mode \in Mode : ViewerIntent(s, mode)
    \/ ViewerAnswers \/ ViewerTrickles \/ SessionOver
    \/ PeerDrops \/ ViewerBinds
    \/ WindowExpires

Next == HostStep \/ User \/ World

Spec == Init /\ [][Next]_vars

-----------------------------------------------------------------------------
\* Safety

\* An answer or a candidate the handler is about to pass on belongs to the
\* session it serves: nothing in the handler compares session ids, it relies
\* on the server's lock, the order of the socket, and recv_until dropping what
\* an abandoned session left behind.
SignalsAreOwn ==
    Reading({"answer", "trickle", "live"}) /\ Next1.kind \in {"answer", "ice"}
        => Next1.session = session

\* The session agent works on the session the service is serving, from the
\* offer to the teardown, as long as the control connection stands.
AgentServesSession ==
    cfg.agent /\ control = "up" /\ pc \in {"offer", "answer", "ice", "trickle",
                                           "live", "done"}
        => agent = session.id

\* Whoever is at the host sees that a session is live (chrome.rs: mandatory
\* chrome), even when an earlier session was never cleared from the tray.
ChromeWhileLive == pc \in {"live", "done"} => indicator.active

\* ... and, in a live session served in process, sees it only then: every way
\* out of the session clears the tray.
ChromeOnlyWhileLive ==
    indicator.active /\ cfg.live /\ ~cfg.agent => pc \in {"live", "done"}

\* Until a session is live the newest code's window is unspent: a session that
\* failed before cannot have spent it, and one that was live has it replaced,
\* even when the new code could not be posted.  Unspent, not open: its time may
\* be over, and then the next session is declared bound without a challenge.
WindowUnspentUntilLive == pc \notin {"live", "done", "exited"} => active_otp = minted

\* No more sessions are served than max_sessions, failed and retried ones
\* between them, and nothing is accepted after the last.
SessionsBounded ==
    cfg.max_sessions # 0 =>
        /\ completed <= cfg.max_sessions
        /\ completed = cfg.max_sessions => pc = "exited"

\* One session at a time, its own messages, its own agent, and no more of them
\* than asked for.
ServesOneSession == TypeOK /\ SignalsAreOwn /\ AgentServesSession /\ SessionsBounded

\* The tray tells whoever sits at the host the truth.
ChromeTruthful == ChromeWhileLive /\ ChromeOnlyWhileLive

-----------------------------------------------------------------------------
\* Liveness

\* The viewer of the session being served is gone.
ViewerGone == session # None /\ ~Holds({"active", "offered", "answered"})

\* The service's loop and its deadlines go on; once the viewer is gone, its
\* end of the peer connection closes and the transport reports it.
HostFairness ==
    /\ WF_vars(HostStep)
    /\ WF_vars(Timeout)
    /\ WF_vars(PeerDrops /\ ViewerGone)

\* A session served in process is left once the server has closed it, even
\* when its session_end was dropped while connecting.
ClosedSessionIsLeft == ~cfg.agent /\ ViewerGone ~> session = None
=============================================================================
