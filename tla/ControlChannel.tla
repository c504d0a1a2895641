--------------------------- MODULE ControlChannel ---------------------------
(***************************************************************************)
(* The control connection between the host service and the session agent:  *)
(* the listener (loopback TCP or a named pipe), the framed stream, the     *)
(* service's request/reply client and the agent's serving loop.            *)
(*                                                                         *)
(* The agent serves one connection at a time and builds a new agent        *)
(* session for each.  Every reply is followed by the signals the agent     *)
(* has for the service and then by a sentinel; the service reads up to     *)
(* the sentinel, or gives up after its read deadline and keeps the stream. *)
(* What the agent does with a command is AgentControl's subject; here it   *)
(* is reduced to the session it is attached to.                            *)
(***************************************************************************)
EXTENDS Naturals, Sequences, FiniteSets

CONSTANTS Client,        \* service processes
          Sid,           \* sessions
          Requests,      \* per client: requests it sends outside start_session
          Impatient,     \* clients whose reads may reach their deadline
          Configs,       \* how the processes are started: set of records
          MaxRetries,    \* CreateFileW attempts on a busy pipe (40 in the code)
          NoSid, NoClient

VARIABLES
    cfg,        \* backend, boot secret expected by the agent, secret and
                \* protocol version of each client; bound on its requests
    listener,   \* "up", or "exited" with run_agent_control_server
    queue,      \* clients connected and not yet accepted
    pending,    \* named pipe: the next instance exists
    link,       \* per client: state of its end of the stream
    toAgent,    \* per client: frames written and not yet read by the agent
    toClient,   \* per client: frames written and not yet read by the client
    call,       \* per client: the request() in progress
    todo,       \* per client: what is left of start_session's sequence
    result,     \* per client: what start_session last returned
    count,      \* per client: requests sent so far
    retries,    \* per client: attempts of connect_named_pipe so far
    late,       \* per client: it gave up a read on this stream
    torn,       \* per client: and lost a part of a frame by it
    serving,    \* connection the agent serves, or NoClient
    agent,      \* agent session of that connection
    sending     \* frames of the current reply still to be written

listen == <<cfg, listener, queue, pending>>
client == <<call, todo, result, count, retries, late, torn>>
server == <<serving, agent, sending>>
cvars == <<cfg, listener, queue, pending, link, toAgent, toClient, call, todo,
           result, count, retries, late, torn, serving, agent, sending>>
-----------------------------------------------------------------------------
(* Messages *)

Methods == {"attach_session", "detach_session", "shutdown_session", "set_policy",
            "start_media", "signal_forward", "query_stats", "kill_switch"}

\* A request, with the session and the secret it carries; big: a field is
\* above its limit.  id numbers the requests of a client.
ControlMessage ==
    [method : Methods, sid : Sid \cup {NoSid}, secret : {"none", "right", "wrong"},
     big : BOOLEAN, id : Nat \ {0}]

\* What the agent writes: the reply to request id, a signal or the sentinel.
Reply(kind, id) == [kind |-> kind, id |-> id, big |-> FALSE]
Replies == [kind : {"ack", "error", "auth_failed", "stats_push", "signal", "drain_complete"},
            id : Nat \ {0}, big : BOOLEAN]

\* How the processes are started, and what a service sends on its own.
Config ==
    [backend : {"tcp", "pipe"}, expected : BOOLEAN, max_requests : [Client -> Nat],
     secret : [Client -> {"none", "right", "wrong"}], version : [Client -> Nat]]
Wish == [method : Methods, sid : Sid \cup {NoSid}, big : BOOLEAN]

ASSUME ControlAssumption ==
    /\ Configs \subseteq Config /\ Requests \in [Client -> SUBSET Wish]
    /\ Impatient \subseteq Client /\ MaxRetries \in Nat
    /\ NoSid \notin Sid /\ NoClient \notin Client

ValidateFieldLimits(m) == ~m.big

Envelope(c, m) == [v |-> cfg.version[c], message |-> m]
ControlIpcVersion == 1
UnsupportedVersion(env) == env.v # ControlIpcVersion
-----------------------------------------------------------------------------
(* Endpoints: the text form is a form and an argument, the arguments of the
   pipe forms leaf names. *)

Leaves == {"default", "a", ""}
PipeTexts == [form : {"pipe"}, arg : {""}] \cup [form : {"pipe:", "path"}, arg : Leaves]
PortTexts == [form : {"tcp:", "bare"}, arg : {0, 7900}]
Texts == PipeTexts \cup PortTexts
DefaultPipeName == "default"
NamedPipe(leaf) == <<"pipe", leaf>>
TcpLocalhost(port) == <<"tcp", port>>

ParseControlEndpoint(windows, t) ==
    IF t.form \in {"tcp:", "bare"} THEN TcpLocalhost(t.arg)
    ELSE IF ~windows THEN <<"error">>
    ELSE IF t.form = "pipe" \/ (t.form = "pipe:" /\ t.arg = "")
         THEN NamedPipe(DefaultPipeName)
    ELSE NamedPipe(t.arg)

FormatEndpoint(e) ==
    [form |-> IF e[1] = "tcp" THEN "tcp:" ELSE "pipe:", arg |-> e[2]]
-----------------------------------------------------------------------------
(* The agent session *)

FreshAgent == [sid |-> NoSid, killed |-> FALSE, media |-> FALSE, by |-> NoClient]

NewAgentSession == FreshAgent

BootSecretOk(provided) == cfg.expected => provided = "right"

\* Commands that go through while no session is attached and a secret is
\* expected: none but the attach that presents it.
Admitted(m) ==
    IF m.method = "attach_session" THEN BootSecretOk(m.secret)
    ELSE cfg.expected => agent.sid # NoSid

Matches(m) == agent.sid # NoSid /\ m.sid = agent.sid

\* The agent's answer to m is not an error.  Media may fail to start, and a
\* signal may not apply: see Handle.
Accepts(m) ==
    CASE m.method = "attach_session" -> agent.sid = NoSid \/ agent.killed
      [] m.method \in {"detach_session", "shutdown_session"} -> Matches(m)
      [] m.method \in {"set_policy", "start_media", "signal_forward"} ->
            Matches(m) /\ ~agent.killed
      [] m.method = "query_stats" -> Matches(m)
      [] m.method = "kill_switch" -> m.sid = NoSid \/ Matches(m)

Applied(m) ==
    CASE m.method = "attach_session" ->
            [sid |-> m.sid, killed |-> FALSE, media |-> FALSE, by |-> serving]
      [] m.method \in {"detach_session", "shutdown_session"} -> NewAgentSession
      [] m.method = "start_media" -> [agent EXCEPT !.media = TRUE]
      [] m.method = "kill_switch" -> [agent EXCEPT !.killed = TRUE, !.media = FALSE]
      [] OTHER -> agent

Success(m) == IF m.method = "query_stats" THEN "stats_push" ELSE "ack"

\* Mutant: the sentinel goes out before the signals.
AnswerSentinelFirst(kind, id, signals) ==
    <<Reply(kind, id), Reply("drain_complete", id)>> \o signals

\* Mutant: a refusal is the sentinel alone.
AnswerRefusalBare(kind, id, signals) ==
    (IF kind = "auth_failed" THEN <<>> ELSE <<Reply(kind, id)>>)
    \o signals \o <<Reply("drain_complete", id)>>

\* One reply, then the signals, then the sentinel.
Answer(kind, id, signals) ==
    <<Reply(kind, id)>> \o signals \o <<Reply("drain_complete", id)>>

\* Signals waiting in the agent: an offer after start_media, candidates found
\* by a poll while a session is live.  One may not fit a frame.
Signals(m, live) ==
    IF ~live THEN {<<>>}
    ELSE IF m.method = "start_media" \/ m.method = "signal_forward"
         THEN {<<>>} \cup {<<[kind |-> "signal", id |-> m.id, big |-> b]>> : b \in BOOLEAN}
    ELSE {<<>>}
-----------------------------------------------------------------------------
Idle == [st |-> "idle", m |-> <<>>, reply |-> <<>>, out |-> <<>>]

\* NamedPipeListener::bind: one instance of the pipe waits for a client.
Bound == listener = "up" /\ queue = <<>> /\ pending = TRUE

ControlInit ==
    /\ cfg \in Configs
    /\ Bound
    /\ link = [c \in Client |-> "down"]
    /\ toAgent = [c \in Client |-> <<>>] /\ toClient = [c \in Client |-> <<>>]
    /\ call = [c \in Client |-> Idle]
    /\ todo = [c \in Client |-> <<>>] /\ result = [c \in Client |-> "none"]
    /\ count = [c \in Client |-> 0] /\ retries = [c \in Client |-> 0]
    /\ late = [c \in Client |-> FALSE] /\ torn = [c \in Client |-> FALSE]
    /\ serving = NoClient /\ agent = FreshAgent /\ sending = <<>>
-----------------------------------------------------------------------------
(* Connecting *)

Pipe == cfg.backend = "pipe"

Join(c) ==
    /\ queue' = Append(queue, c)
    /\ link' = [link EXCEPT ![c] = "up"]
    /\ UNCHANGED <<cfg, listener, toAgent, toClient, call, todo, result, count, late, torn, server>>

\* Loopback TCP: the backlog takes the connection at once.
ConnectTcp(c) ==
    /\ ~Pipe /\ link[c] = "down" /\ listener = "up"
    /\ Join(c) /\ UNCHANGED <<pending, retries>>

\* Named pipe: the instance that waits takes one client.
ConnectNamedPipe(c) ==
    /\ Pipe /\ link[c] = "down" /\ listener = "up" /\ pending /\ retries[c] < MaxRetries
    /\ Join(c) /\ pending' = FALSE /\ UNCHANGED retries

\* Busy, or no instance at all: wait and try again, up to the last attempt.
ConnectPipeBusy(c) ==
    /\ Pipe /\ link[c] = "down" /\ ~(listener = "up" /\ pending) /\ retries[c] < MaxRetries
    /\ retries' = [retries EXCEPT ![c] = @ + 1]
    /\ UNCHANGED <<listen, link, toAgent, toClient, call, todo, result, count, late, torn, server>>

\* The agent takes the next connection, with a session of its own; on a pipe
\* the instance of the next client is made ready, or not.
Accept ==
    /\ listener = "up" /\ serving = NoClient /\ queue # <<>>
    /\ Pipe => link[Head(queue)] = "up"
    /\ serving' = Head(queue) /\ queue' = Tail(queue)
    /\ pending' \in IF Pipe THEN BOOLEAN ELSE {pending}
    /\ agent' = NewAgentSession /\ sending' = <<>>
    /\ UNCHANGED <<cfg, listener, link, toAgent, toClient, client>>

\* ConnectNamedPipe fails on an instance whose client has closed again; the
\* instance is replaced, accept returns the error and the server ends.
AcceptFails ==
    /\ Pipe /\ listener = "up" /\ serving = NoClient
    /\ queue # <<>> /\ link[Head(queue)] = "closed"
    /\ queue' = Tail(queue) /\ pending' \in BOOLEAN
    /\ listener' = "exited"
    /\ UNCHANGED <<cfg, link, toAgent, toClient, client, server>>

\* No instance was made ready the last time: accept makes one first, or fails
\* and ends the server.
AcceptRecreates ==
    /\ Pipe /\ listener = "up" /\ serving = NoClient /\ queue = <<>> /\ ~pending
    /\ pending' \in BOOLEAN /\ listener' = IF pending' THEN "up" ELSE "exited"
    /\ UNCHANGED <<cfg, queue, link, toAgent, toClient, client, server>>
-----------------------------------------------------------------------------
(* The client *)

\* A named pipe's flush returns when the other side has read everything.
ClientFlushed(c) == Pipe => toAgent[c] = <<>>
AgentFlushed == Pipe => toClient[serving] = <<>>

Err(c) ==
    /\ call' = [call EXCEPT ![c] = Idle]
    /\ result' = [result EXCEPT ![c] = IF todo[c] # <<>> THEN "err" ELSE @]
    /\ todo' = [todo EXCEPT ![c] = <<>>]

Transmit(c, m) ==
    /\ count' = [count EXCEPT ![c] = @ + 1]
    /\ UNCHANGED <<listen, link, toClient, retries, late, torn, server>>
    /\ IF ValidateFieldLimits(m) /\ link[c] = "up"
       THEN /\ toAgent' = [toAgent EXCEPT ![c] = Append(@, Envelope(c, m))]
            /\ call' = [call EXCEPT ![c] = [Idle EXCEPT !.st = "reply", !.m = m]]
       ELSE UNCHANGED <<toAgent, call>>

MayRequest(c) ==
    link[c] \in {"up", "lost"} /\ call[c].st = "idle" /\ todo[c] = <<>>
    /\ count[c] < cfg.max_requests[c]

Msg(c, method, sid, big) ==
    [method |-> method, sid |-> sid, big |-> big, id |-> count[c] + 1,
     secret |-> IF method = "attach_session" THEN cfg.secret[c] ELSE "none"]

\* request() outside start_session.  A field above its limit, or a stream
\* the agent has dropped, fails at send.
Request(c, method, sid, big) ==
    /\ MayRequest(c)
    /\ result' = [result EXCEPT ![c] = "none"] /\ UNCHANGED todo
    /\ Transmit(c, Msg(c, method, sid, big))

BuildSessionStartSequence == <<"attach_session", "set_policy", "start_media">>

\* start_session sends its first request.
StartSession(c, sid) ==
    /\ MayRequest(c) /\ link[c] = "up" /\ count[c] + 3 <= cfg.max_requests[c]
    /\ todo' = [todo EXCEPT ![c] = BuildSessionStartSequence]
    /\ result' = [result EXCEPT ![c] = "none"]
    /\ Transmit(c, Msg(c, "attach_session", sid, FALSE))

\* Readable: a whole frame is there and the stream is still in step.
Readable(c) == call[c].st \in {"reply", "drain"} /\ ClientFlushed(c) /\ toClient[c] # <<>>

Consume(c) ==
    /\ toClient' = [toClient EXCEPT ![c] = Tail(@)]
    /\ UNCHANGED <<listen, link, toAgent, retries, late, torn, server>>

RecvReply(c) ==
    /\ Readable(c) /\ ~torn[c] /\ call[c].st = "reply"
    /\ call' = [call EXCEPT ![c].st = "drain", ![c].reply = Head(toClient[c])]
    /\ Consume(c) /\ UNCHANGED <<todo, result, count>>

RecvOutbound(c) ==
    /\ Readable(c) /\ ~torn[c] /\ call[c].st = "drain"
    /\ Head(toClient[c]).kind \in {"signal", "stats_push"}
    /\ call' = [call EXCEPT ![c].out = Append(@, Head(toClient[c]).id)]
    /\ Consume(c) /\ UNCHANGED <<todo, result, count>>

\* The sentinel ends the request; in start_session the next one follows an
\* ack, anything else ends the sequence.
RecvDrained(c) ==
    /\ Readable(c) /\ ~torn[c] /\ call[c].st = "drain"
    /\ Head(toClient[c]).kind = "drain_complete"
    /\ toClient' = [toClient EXCEPT ![c] = Tail(@)]
    /\ UNCHANGED <<listen, link, retries, late, torn, server>>
    /\ IF todo[c] # <<>> /\ call[c].reply.kind = "ack" /\ Len(todo[c]) > 1
       THEN LET m == Msg(c, todo[c][2], call[c].m.sid, FALSE) IN
            /\ count' = [count EXCEPT ![c] = @ + 1]
            /\ IF link[c] = "up"
               THEN /\ toAgent' = [toAgent EXCEPT ![c] = Append(@, Envelope(c, m))]
                    /\ call' = [call EXCEPT ![c] = [Idle EXCEPT !.st = "reply", !.m = m]]
                    /\ todo' = [todo EXCEPT ![c] = Tail(@)] /\ UNCHANGED result
               ELSE Err(c) /\ UNCHANGED toAgent
       ELSE /\ result' = [result EXCEPT ![c] =
                    IF todo[c] = <<>> THEN @
                    ELSE IF call[c].reply.kind = "ack" THEN "ok" ELSE "err"]
            /\ call' = [call EXCEPT ![c] = [Idle EXCEPT !.m = IF Len(todo[c]) = 1 THEN call[c].m ELSE <<>>]]
            /\ todo' = [todo EXCEPT ![c] = <<>>]
            /\ UNCHANGED <<toAgent, count>>

\* Another message while draining, or bytes that are no frame any more.
RecvProtocolError(c) ==
    /\ Readable(c)
    /\ torn[c] \/ (call[c].st = "drain"
                    /\ Head(toClient[c]).kind \in {"ack", "error", "auth_failed"})
    /\ Err(c) /\ Consume(c) /\ UNCHANGED count

\* The read deadline passes, at the end of a frame or inside one; the stream
\* stays as it is.
ReadTimeout(c) ==
    /\ c \in Impatient
    /\ call[c].st \in {"reply", "drain"} /\ ClientFlushed(c)
    /\ toClient[c] = <<>> /\ link[c] = "up"
    /\ Err(c) /\ late' = [late EXCEPT ![c] = TRUE]
    /\ torn' \in {torn, [torn EXCEPT ![c] = TRUE]}
    /\ UNCHANGED <<listen, link, toAgent, toClient, count, retries, server>>

\* The agent has dropped the connection and everything before is read.
RecvEof(c) ==
    /\ call[c].st \in {"reply", "drain"} /\ toClient[c] = <<>> /\ link[c] = "lost"
    /\ Err(c)
    /\ UNCHANGED <<listen, link, toAgent, toClient, count, retries, late, torn, server>>

\* close(), or the service process ends.
Close(c) ==
    /\ link[c] \in {"up", "lost"}
    /\ link' = [link EXCEPT ![c] = "closed"]
    /\ toClient' = [toClient EXCEPT ![c] = <<>>]
    /\ call' = [call EXCEPT ![c] = Idle] /\ todo' = [todo EXCEPT ![c] = <<>>]
    /\ result' = [result EXCEPT ![c] = "none"]
    /\ UNCHANGED <<listen, toAgent, count, retries, late, torn, server>>
-----------------------------------------------------------------------------
(* The serving loop *)

\* Mutant: the agent session outlives its connection.
DropKeepAgent ==
    /\ serving' = NoClient /\ sending' = <<>> /\ UNCHANGED agent
    /\ link' = [link EXCEPT ![serving] = IF @ = "up" THEN "lost" ELSE @]
    /\ toAgent' = [toAgent EXCEPT ![serving] = <<>>]
    /\ UNCHANGED <<listen, toClient, client>>

\* The connection ends, and the agent session with it.
Drop ==
    /\ serving' = NoClient /\ sending' = <<>> /\ agent' = FreshAgent
    /\ link' = [link EXCEPT ![serving] = IF @ = "up" THEN "lost" ELSE @]
    /\ toAgent' = [toAgent EXCEPT ![serving] = <<>>]
    /\ UNCHANGED <<listen, toClient, client>>

Receiving == serving # NoClient /\ sending = <<>> /\ AgentFlushed
Env1 == Head(toAgent[serving])

Take(answer) ==
    /\ sending' = answer
    /\ toAgent' = [toAgent EXCEPT ![serving] = Tail(@)]
    /\ UNCHANGED <<listen, link, toClient, client, serving>>

\* An attach with the wrong secret, or anything before a right one.
Refuse ==
    /\ Receiving /\ toAgent[serving] # <<>> /\ ~UnsupportedVersion(Env1)
    /\ ~Admitted(Env1.message)
    /\ Take(Answer("auth_failed", Env1.message.id, <<>>)) /\ UNCHANGED agent

HandleApplied ==
    /\ Receiving /\ toAgent[serving] # <<>> /\ ~UnsupportedVersion(Env1)
    /\ LET m == Env1.message IN
       /\ Admitted(m) /\ Accepts(m)
       /\ agent' = Applied(m)
       /\ \E signals \in Signals(m, agent'.sid # NoSid /\ ~agent'.killed) :
            Take(Answer(Success(m), m.id, signals))

\* Not applied: not attached, another session, busy, killed; media that do
\* not start leave media_started down, a signal that does not apply nothing.
HandleError ==
    /\ Receiving /\ toAgent[serving] # <<>> /\ ~UnsupportedVersion(Env1)
    /\ LET m == Env1.message IN
       /\ Admitted(m)
       /\ ~Accepts(m) \/ m.method \in {"start_media", "signal_forward"}
       /\ agent' = IF Accepts(m) /\ m.method = "start_media"
                   THEN [agent EXCEPT !.media = FALSE] ELSE agent
       /\ Take(Answer("error", m.id, <<>>))

\* One frame is written.
AgentSend ==
    /\ serving # NoClient /\ sending # <<>> /\ AgentFlushed
    /\ link[serving] = "up" /\ ~Head(sending).big
    /\ toClient' = [toClient EXCEPT ![serving] = Append(@, Head(sending))]
    /\ sending' = Tail(sending)
    /\ UNCHANGED <<listen, link, toAgent, client, serving, agent>>

\* The frame does not fit, or the service is gone: the connection is dropped.
AgentSendFails ==
    /\ serving # NoClient /\ sending # <<>>
    /\ Head(sending).big \/ link[serving] # "up"
    /\ Drop

\* End of stream, or a frame that is not of this version.
AgentRecvFails ==
    /\ Receiving
    /\ IF toAgent[serving] = <<>> THEN link[serving] # "up" ELSE UnsupportedVersion(Env1)
    /\ Drop

\* Nothing for 120 s: the read fails and the connection is dropped.
AgentReadTimeout ==
    /\ Receiving /\ toAgent[serving] = <<>> /\ link[serving] = "up"
    /\ Drop
-----------------------------------------------------------------------------
Connecting(c) == ConnectTcp(c) \/ ConnectNamedPipe(c) \/ ConnectPipeBusy(c)

Calling(c) ==
    \/ \E r \in Requests[c] : Request(c, r.method, r.sid, r.big)
    \/ \E sid \in Sid : StartSession(c, sid)

Reading(c) ==
    RecvReply(c) \/ RecvOutbound(c) \/ RecvDrained(c) \/ RecvProtocolError(c)
    \/ ReadTimeout(c) \/ RecvEof(c)

Serving ==
    \/ Accept \/ AcceptFails \/ AcceptRecreates
    \/ Refuse \/ HandleApplied \/ HandleError
    \/ AgentSend \/ AgentSendFails \/ AgentRecvFails

ControlNext ==
    \/ \E c \in Client : Connecting(c) \/ Calling(c) \/ Reading(c) \/ Close(c)
    \/ Serving \/ AgentReadTimeout

ControlSpec == ControlInit /\ [][ControlNext]_cvars

\* Both processes run: the agent's loop goes on while it has something to
\* do, and a client reads what is there.
ControlFairness ==
    /\ WF_cvars(Serving)
    /\ \A c \in Client : WF_cvars(Reading(c))
-----------------------------------------------------------------------------
(* Properties *)

\* The state of the control connection has its type.
ControlTypeOK ==
    /\ listener \in {"up", "exited"} /\ pending \in BOOLEAN
    /\ queue \in Seq(Client)
    /\ link \in [Client -> {"down", "up", "lost", "closed"}]
    /\ \A c \in Client :
        /\ \A i \in DOMAIN toAgent[c] : toAgent[c][i].message \in ControlMessage
        /\ \A i \in DOMAIN toClient[c] : toClient[c][i] \in Replies
        /\ call[c].st \in {"idle", "reply", "drain"}
        /\ result[c] \in {"none", "ok", "err"} /\ count[c] \in 0 .. cfg.max_requests[c]
    /\ serving \in Client \cup {NoClient}
    /\ agent.sid \in Sid \cup {NoSid} /\ agent.by \in Client \cup {NoClient}

\* Until a client has given up on a read, the reply and the signals that
\* request() hands back are the ones to the request it sent, whatever the
\* agent refuses or drops in between (control_loop.rs request).
ReplyIsOwn ==
    \A c \in Client : ~late[c] /\ call[c].st = "drain" =>
        /\ call[c].reply.id = call[c].m.id /\ call[c].reply.kind # "drain_complete"
        /\ \A i \in DOMAIN call[c].out : call[c].out[i] = call[c].m.id

\* A session attached on the agent was attached over the connection that is
\* served now: it does not outlive the service's connection, and no other
\* service inherits it (run_agent_control_server).
SessionDiesWithConnection ==
    agent.sid # NoSid => serving # NoClient /\ agent.by = serving

\* A connection that has not presented the boot secret changes nothing: no
\* session, no kill latch, no media (serve_agent_connection's gate).
UnprovenNeverActs ==
    cfg.expected /\ serving # NoClient =>
        (cfg.secret[serving] # "right" => agent = FreshAgent)

\* When start_session returns success on a stream no read was given up on
\* and the agent still serves it, the agent is attached to that session
\* with media started.
StartedIsAttached ==
    \A c \in Client : result[c] = "ok" /\ serving = c /\ ~late[c] =>
        agent.sid = call[c].m.sid /\ agent.media /\ ~agent.killed

\* Every endpoint a configuration names is found again from its printed
\* form, which is what the service is started with (format_endpoint,
\* parse_control_endpoint); a pipe without a name stands for the default one.
EndpointRoundTrip ==
    \A windows \in {Pipe, TRUE}, t \in Texts :
        LET e == ParseControlEndpoint(windows, t) IN
        e # <<"error">> /\ (t.form = "path" => t.arg # "") =>
            /\ ParseControlEndpoint(windows, FormatEndpoint(e)) = e
            /\ e[1] = "pipe" => e[2] # ""

\* What the service is told is true: replies, signals and the outcome of
\* start_session are those of the requests it sent.
ClientNotMisled == ReplyIsOwn /\ StartedIsAttached

\* The agent acts for the connection it serves, and for one that may.
AgentServesConnection ==
    ControlTypeOK /\ SessionDiesWithConnection /\ UnprovenNeverActs /\ EndpointRoundTrip

\* A request the agent is serving returns to its caller: the two ends of a
\* named pipe are never both held in a flush, as long as no read was given
\* up before (PipeStream's flush waits for the other side to read).
ServedRequestReturns ==
    \A c \in Client :
        (serving = c /\ call[c].st # "idle" /\ ~late[c]) ~> call[c].st = "idle"
=============================================================================
