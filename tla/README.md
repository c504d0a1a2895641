# RemoteLink in TLA+

RemoteLink is a remote-desktop system: a signaling server introduces viewers
to hosts, a host service and its session agent run the controlled machine, and
a viewer shows and controls it over a peer connection. This directory holds
TLA+ models of the parts of that system whose correctness depends on order,
interleaving, failure or arithmetic, TLC configurations that check them on
small instances, and TLAPS proofs for every value of the constants.

Paths below are relative to `src/`.

## The system

| Part | State it keeps | Operations | Talks to |
|---|---|---|---|
| Session registry, `apps/server/src/session.rs` | `conns`, `peers`, `host_by_public_id`, `sessions`, `host_busy`, all under one mutex | register/bind/unregister a connection, create, accept, reject, end, relay, force-disconnect, reap | every WebSocket handler; writes to each connection's channel |
| WebSocket handlers, `routes/ws.rs` | one task per socket | hello, intent, accept, reject, end, relay | registry, code store, repository, gates |
| One-time code store, `otp.rs` | one row per host: hash, binding, attempts, expiry | store, prefilter and bind, consume, look up | intent and accept handlers, `POST /otp` |
| Device routes and repositories, `routes/devices.rs`, `repo/memory.rs`, `repo/postgres.rs` | devices and credentials, in memory with a registry file or in Postgres | register, refresh, delete, touch; save and load | HTTP clients, hello |
| Enrolment of a host, `enroll_or_reuse` in `apps/host/src/ws_session.rs`, `packages/signaling` | the host's credential file | load, refresh, register, save | device routes |
| Gates, `security/*`, `routes/blocklist.rs`, `routes/admin.rs` | token buckets, failure records, block lists, audit log | check, record, clear, add, remove, append, list | all routes |
| Host service, `apps/host/src/ws_session.rs` | one signaling socket, one agent connection, the tray | reconnect loop, one session at a time | server, agent, tray |
| Session agent, `agent.rs`, `session.rs`, `control_loop.rs` | control state, session manager, peer transport | control messages, inbound data, media pump | service (control connection), viewer (peer connection) |
| Control connection, `control_loop.rs`, `packages/platform-windows/src/ipc` | listener, framed streams, deadlines | connect, prove, request, reply, signals, sentinel | service, agent |
| Policy, tray, chrome, `policy.rs`, `tray.rs`, `chrome.rs` | code window, unattended secret, visible chrome | mint, consume, decide, prompts, kill-switch | service, agent, desktop |
| Identity, `packages/auth` | code record, challenges, bind state | hash, verify, consume, challenge, answer, bind | host, viewer |
| Capture, encoding, injection, `packages/platform-*`, `packages/media` | sources, encoder, RTP clock; rate-limit window, registrar | start, pump, stop, request keyframe; inject, register, trigger | agent |
| Transports, `packages/net` | state, queues, descriptions, threads | offer/answer, candidates, send, poll, restart, close | agent, viewer |
| Viewer, `packages/viewer-core`, `apps/viewer` | phase, bind status, frame and audio queues, captured input | connect, answer, input, drain, close | server, host |
| Playout, `packages/media` | jitter buffer, skew controller, freeze policy | push, pop, drop, adjust, tick | viewer |
| Desktop shell, `apps/desktop` | host child, status shown, settings, one viewer window | start, poll, stop, connect, disconnect, save | host process, viewer worker |

What is hard here: host and viewer sockets come and go while sessions exist;
handlers take several locks one after the other; the device repository saves
outside its lock; sessions expire but nothing sweeps them; the agent keeps its
state twice (control state and manager) and outlives sessions; data-channel
messages arrive late; error exits leave one of three processes in a session the
others have left; a reply may come after its deadline; the transports' own
threads change state the owner learns of at its next poll; packets are lost,
reordered and renumbered; captured input waits while newer input is encoded.
`PROJECT.json` lists these hazards with the line where each bites and the
properties that watch it.

What makes each part correct:

- **Session registry.** Lock and session table agree; a host has one controller
  and it is replaced only when its time is up; both ends of a session are live
  connections in the right role, through reconnects; nobody is left believing
  in a session that is gone; signals are delivered in order; no session pins a
  host.
- **Code store and handlers.** A code stands a bounded number of guesses; it is
  spent by its host's accept of the session it is bound to and by nothing else,
  and that is the session it let in unless viewers reuse session ids.
- **Device routes and repository.** A deleted device has no usable credential; a
  refresh token is good once; what was confirmed survives a restart; a host that
  restarts keeps its id and has a credential that works, as long as nothing it
  asked for failed.
- **Gates.** No interval of time lets more requests through than the rate says,
  however addresses are spelled; a back-off is waited for; strangers lock out
  nobody; an owner's lists hold what the owner was told.
- **Session agent.** Both copies of its state agree; the kill-switch is final;
  a live session is visible; input needs an identity proof of this attachment.
- **Identity and policy.** Host and viewer that are bound agree on session, key
  and both certificates; a code admits one session, before it expires.
- **Control connection.** A reply belongs to its request; an agent session dies
  with its connection; nothing is done for a connection that has not proved
  itself; a request that is served returns.
- **Host service.** Signals reach the session they belong to; agent and tray
  show the session being served; the newest code's window is unspent until a
  session is live; a session the server has closed is left; `max_sessions` is
  kept.
- **Transports.** Units arrive once and in order; a connected end knows its
  peer; callbacks catch up with the state; an end that was closed calls nobody
  back and sends nothing, and the other end learns of it.
- **Viewer.** Input leaves in order and only where it may; queues keep the
  newest and count the rest; a lost session stays lost; a worker told to stop
  ends once its socket is open.
- **Media.** Every packet is accounted for; the estimates stay within what the
  network did; the next unit encoded after a request is a keyframe, and the
  software encoder's come at their interval; what is decoded is what was
  captured; sound is on one timeline.
- **Platform input.** No burst above the limit; keys in step with the viewer; a
  click lands where the pointer was put; a kept handle triggers.
- **Desktop shell.** The host child never gets out of reach; nothing of a host
  is shown once access is off; a window that was closed was told to stop.

## Modules

### SessionRegistry (with HostLease; proofs in SignalingServerProofs)

One variable per map of `RegistryInner`; `link` tells the ways a connection can
be connected apart (in the map and writable, in the map with a dead writer
task, evicted by a newer hello but still reading, gone). Every method runs
under one mutex, so every method is one action; each request action reaps what
has expired first, as the code does. A request the code answers with an error
changes nothing else, so all of them are `ReapExpired`. `heard` records the
last message about each session put on each connection's channel: it lets
properties speak about what the peers believe. Time is the remaining life of a
session; `Tick` takes one unit off. Sequence numbers run from 0 to `MaxSeq`,
which stands for `u64::MAX`, and saturate or fail there as in the code.

`HostLease` is what the registry promises without connections: a lease per host
that is granted when free or lapsed, activated once, and ends. The refinement
mapping reads the lease off `host_busy` and the session it names.

### SignalingServer (with SignalingServerProofs)

The handlers of `ws.rs` that use more than one lock, over the registry's
actions: an intent first checks and binds the host's one-time code, then
creates the session; an accept first activates the session, then consumes the
code. `task[c]` is what connection `c`'s handler still has to do. Session ids are the
viewers' choice: the server only asks that an intent has one, so an intent may
come under the id of a session that waits, runs or is over, on any host; it is
refused by the registry if the id is taken, after it has bound the code. An
intent also ends there, its code bound, when the host's budget of intents is
spent. `wrong`, `intents`, `admitted` and `accepted` are history variables: the
wrong guesses at the present code, the intents under an id (one, or more), the
host whose code let a session in, and the ids a host accepted since its code
was last bound to them.

### AccessGates (proofs in SignalingServerProofs)

The gates in front of the routes, driven by `MCSignalingServer` one at a time
(`gate`): they share no state, so a product of them would only be larger.
A bucket is refilled and charged in one step under its mutex; a route charges
the address's bucket and then the device's. A login looks its lockout keys up
one by one, awaits the repository and records failures key by key, and other
logins run between the steps. An intent looks each subject up in the block list
while the owner edits it. An audit event draws its id, is stamped and is pushed
in three steps, so events are pushed out of order. A token is `Per` units and a
tick refills `MaxEvents` of them: the code's fractions, exactly. `served`,
`streak`, `early`, `blame`, `wanted` and `verdicts` are history variables.
Hashes of subjects are the subjects.

### DeviceRegistry, PostgresRegistry and HostEnrolment (with HostEnrolmentProofs)

`DeviceRegistry` has the requests of `devices.rs` as jobs of a few workers, the
maps, the registry file and its temporary file. Each mutation is followed by a
save in three steps (copy under the lock, write, rename) that other requests
interleave with. A write or a rename may fail (`SaveFails`): the request is
answered with an error and the maps stay changed. `Restart` loses everything but
the registry file. The write of the temporary file is one step. `overlapped` is a history variable: two
requests have been served at the same time.

`PostgresRegistry` serves the same requests from the database; `backend` is the
repository the server was started with. Every call is a statement that commits
by itself, except `rotate_refresh`, which locks the row of the old credential
and commits later. The database is external: the code sets no isolation level,
so the model has the default, READ COMMITTED, in which `revoke_all` visits the
rows it saw when it began and waits for those that are locked. Statements and
connections may fail at any point.

`HostEnrolment` composes the server with one host that enrols (`clients` =
`"host"`; with `"any"` the requests are anybody's): it refreshes the tokens of
its credential file, registers when that fails for any reason, and saves what
it got. A request or its reply may be lost, and a request may be served after
the host has given it up or was restarted; a save may fail, or leave a file that
cannot be parsed. The server may turn any request away before it changes
anything (`RefuseRequest`): the rate limit or the lockout of the address or
device, a token that expired, a lookup that fails; or because the token is
revoked or unknown. `fault` is a history variable: something went wrong, a
usable token turned away or a save failed at the server among them; a token
refused because it is spent is not a fault.
`load_creds` and `save_creds` are on, and no identity is given on the command
line.

### AgentControl (proofs in HostAgentProofs)

`state` is `AgentSessionState`, `manager` is `SessionManager`. Control messages
are handled whole. The data-channel queue is filled by the transport; a poll
takes the queue and then works through it one message at a time, which is when
an identity answer and input events meet. `attached` and `issued` count
attachments and remember in which attachment each challenge was issued.
Cryptography is reduced to whether an answer fits a challenge and was made with
the right key.

### IdentityProof and HostPolicy (proofs in HostAgentProofs)

`IdentityProof` is what that reduction rests on: `packages/auth` with a MAC as
its key and its message, and the message as the bytes the code puts together,
so that two transcripts are told apart only if the encoding tells them apart
(`Lp`, `Encode`, the hex of nonces). Every answer ever given may be presented
again, to any session, over connections with any certificates. `HostPolicy` is
`HostAuthService` on top of it: code windows minted, expiring and consumed, the
unattended switch and secret, the confirm prompt, and the decision between
consulting the policy and consuming the code. `MCAgentControl` drives agent,
proof and policy one at a time (`driven`).

### HostService (with HostServiceProofs)

`run_ws_host_service` and the handlers it awaits are one sequential program, so
its place is a program counter: `offline`, `idle`, `start`, `offer`, `answer`,
`ice`, `trickle`, `live`, `done`, `exited`. Every await is a boundary between
actions; what happens between two awaits is one action. Both session handlers
(in process, and with an agent over the control connection) share the program
counter and differ where the code differs; `cfg` is the `WsHostConfig` the
service was started with, chosen at `Init` from the constant `Configs`.

Errors are told apart by the text of their message, as the loop's match does:
"ended from tray", a timeout, everything else (`AfterError`). Which exits clear
the tray (`EndSession`), detach the agent (`Detach`) or end the session at the
server (`EndWssSession`) is modelled exit by exit, since that is where one of
the processes can be left behind: only `Finish` does all three.

The server and the viewer are the surroundings: `busy` is the session the
server's lock holds for this host and how far it has come, `registered` whether
the server knows the host by its current socket, a socket that is already dead,
or not at all. They do what `SessionRegistry` allows them to: deliver an intent,
an answer, candidates, a `session_end`; answer a message about a session that is
gone with an error. The tray menu is answered some time after it was built;
"End session" can be chosen from it while the tray shows a session, active or
not. `LiveOtpHub` is reduced to the number of the code whose window has not been
spent (`active_otp`) and whether its time is over (`expired`): a window may
expire at any moment (`WindowExpires`, 900 s in the code), nothing but
`authorize_live` notices, and only a new code is open again. `mint_otp` is on.

### DesktopShell (proofs in HostServiceProofs)

`apps/desktop`: the window's `allow_access` switch, the host child and its
handle, the status file the child's tray writes, the settings in memory and on
disk, the recent ids, and the viewer workers. A child is a number, so that
what is shown, held and running can be compared; a crash of the application
leaves its child behind (`orphans`). Removing the status file may fail, which
the code does not look at (`RemoveStatus`): the stopped host is then shown on,
so what `OffShowsNothing` claims begins with the removal. `MCHostService` drives the service or the
shell (`which`).

### ControlChannel and PlatformInput (with ControlChannelProofs)

`ControlChannel` is the stream between service and agent: a listener with one
instance of a named pipe, or a TCP socket; frames that may be torn by a drop;
the client's read deadline, after which it keeps the stream; the agent's loop
that serves one connection at a time, refuses what has not proved the boot
secret, and answers each request with a reply, the signals it has and a
sentinel. `late` marks a stream on which a read was given up.

`PlatformInput` is the injector: a fixed-window limiter, `SendInput` calls any
of which may fail, coordinates scaled to pixels, scancodes; and the kill-switch
registrar, whose handles are dropped outside its lock. `MCControl` drives
channel, injector and registrar one at a time (`part`).

### PeerTransport (with PeerTransportProofs)

Both ends of one connection over the backend the factory chose: `mock`, `live`
(TCP with an accept thread, reader threads and Hello frames) or `webrtc` (the
runtime's callbacks queue what `poll` takes). Descriptions may be stale,
candidates come at any time, the accept deadline may pass, the connection may
be reset or flap, ICE may be restarted once. The runtime's callback does not look
at `closed`: it may run after a close, overwrite the state the close has set and
queue its event (`PcLate`).

### ViewerSession and ViewerWorker (with ViewerProofs)

`ViewerSession` is `viewer-core`'s session as one record with operators that
return the next one: phases, identity answer, frame and audio queues, focus,
coalescing and encoding of input, callbacks buffered until the next drain.
`ViewerWorker` adds who drives it: a window (`ui`), the worker behind
`LiveViewerHandle` (`live`) and the command line (`cli`), each with its
deadlines: none for opening the socket, 10 s for the hello, 60 s for the host's
answer. The stop flag is looked at from the negotiation on. The transport is its state and the callbacks waiting for a poll.

### MediaPlane and Playout (with MediaProofs)

`MediaPlane` is the host's side: opening sources and encoders with their
fallbacks, `pump_media` (a few audio packets, then a frame), idle and lost
desktops, keyframe requests, the encoders and the decoder that has to make the
captured picture of what they send. Encodes may fail, and so may the send of a
packet or unit that was encoded and counted, after which the agent pumps on. A
unit of Media Foundation is labelled a keyframe; whether it is one nobody can
tell (`Idr`), since the transform is not asked for one. A picture is its
geometry, byte order, byte count and colour. `Playout` is the viewer's: jitter buffer, skew controller with
its resampler, freeze policy. `MCMedia` drives one of the four (`part`).

## Runs

| Run | Instance | Checks |
|---|---|---|
| `sessions` | 3 connections, 2 hosts, 2 session ids, sequence numbers 0..3, TTLs 1 and 2 | `LockMatchesSessions`, `PartiesConnected`, `BeliefsHold`, `HeardIsPast`, `SignalSeqIncreasesBelowMax`, `ControllerNotReplaced`, and that the registry implements `HostLease` |
| `liveness` | 3 connections, 1 host, 1 session id, `FairSpec` | `LockNotPinned` |
| `otp` | codes: 3 connections, 1 host, 2 session ids, 3 intents, 2 attempts; gates: 2 machines, 2 devices, 2 requests at a time | `GuessesBounded`, `CodesSpentRight`, `GatesHold`, `AuditPageNewest` |
| `otp_reuse` | 2 connections, 2 session ids | *violated*: `OtpSingleUse` |
| `devices` | 2 devices, 3 credentials, 2 concurrent requests, both repositories, restarts; any clients, or one host with 4 requests | `CredentialsSound`, `ConfirmedDurable` |
| `lost_save` | 2 devices, 2 credentials, 2 concurrent requests | *violated*: `ConfirmedSurvives` |
| `agent` | 2 sessions, attachments, challenges, transports, data messages; proofs with 2 session ids, 2 nonces, 3 certificates; policy with 2 windows | `MirrorsAgree`, `KilledIsDead`, `ChromeWhileLive`, `InputBoundToAttachment`, `UnattendedRespectsLatch`, `BindingSound`, `CodeAdmitsOnce` |
| `control` | 2 services, TCP and pipe, 1 retry; limiter of 1 event per 2 ticks; 2 kill-switch handles | `ClientNotMisled`, `AgentServesConnection`, `InputSound`, `ServedRequestReturns` |
| `host` | 2 session ids, 2 waiting messages, 3 codes, 4 configurations; shell with 2 host processes or workers | `ServesOneSession`, `ChromeTruthful`, `WindowUnspentUntilLive`, `ShellSound`, `ClosedSessionIsLeft` |
| `transport` | 3 backends, own and stale fingerprints, 2 units each way, 1 restart, 1 flap, 1 callback after a close | `TransportSound`, `LossIsFinal`, `EndsInTime` |
| `viewer` | 3 drivers, queues of 1, 2 connects, 3 input samples (2 with a worker), 1 flap, 3 signals | `InputGuarded`, `QueuesSound`, `LostUntilReconnect`, `WorkerEnds` |
| `media` | 4 packets with sequence numbers modulo 4 and delays of 0, 2 and 5 intervals; 6 combinations of sources; 2 desktop sizes; sends that fail | `PlayoutSound`, `PlaneSound`, `MediaInOrder` |

Several of these are conjunctions of named properties, each with its comment in
the module:

| Property | Parts |
|---|---|
| `CodesSpentRight` | `ServerTypeOK`, `AcceptSpendsBoundCode`, `OnlyAdmissionSpends` |
| `GatesHold` | `LimiterBound`, `BackOffHolds`, `StrangersLockNobody`, `BlocklistExact` |
| `CredentialsSound` | `TypeOK`, `OneLiveCredential`, `DeletedHasNoCredential` (on Postgres, while requests do not overlap) |
| `ConfirmedDurable` | `EnrolmentTypeOK` and, on Postgres or while requests do not overlap, `ConfirmedSurvives`, `RotatedStaysDead`, `EnrolledIsLive`, `RestartKeepsId` |
| `BindingSound` | `BindingsAgree`, `HonestIsBound` |
| `CodeAdmitsOnce` | `RecordAdmitsOnce`, `WindowsAdmitOnce` |
| `ClientNotMisled` | `ReplyIsOwn`, `StartedIsAttached` |
| `AgentServesConnection` | `ControlTypeOK`, `SessionDiesWithConnection`, `UnprovenNeverActs`, `EndpointRoundTrip` |
| `InputSound` | `InputTypeOK`, `BurstBounded`, `KeysInStep`, `ClickAtPointer`, `PointerCoversScreen`, `LiveHandleTriggers` |
| `ServesOneSession` | `TypeOK`, `SignalsAreOwn`, `AgentServesSession`, `SessionsBounded` |
| `ChromeTruthful` | `ChromeWhileLive`, `ChromeOnlyWhileLive` |
| `ShellSound` | `HostInReach`, `OffShowsNothing`, `WindowsOwnSessions`, `RecentsDialled` |
| `TransportSound` | `TypeOK`, `DeliveredInOrder`, `ConnectedKnowsPeer`, `CallbacksCatchUp` |
| `LossIsFinal` | `ClosedIsFinal`, `LostIsLost` |
| `EndsInTime` | `PeerLearnsOfClose`, `HandshakeEnds` |
| `InputGuarded` | `TypeOK`, `InputInOrder`, `NoStaleMove`, `BoundHere`, `NoInputUnbound`, `PhaseFollows`, `StatusAgrees` |
| `QueuesSound` | `NewestFrames`, `AudioAccounted` |
| `PlayoutSound` | `PlayoutTypeOK`, `PacketsAccounted`, `EwmaWithinSpread`, `SkewRateBounded`, `StretchOpposesSkew`, `ResampleFaithful`, `FreshVideoFullAudio` |
| `PlaneSound` | `MediaTypeOK`, `GopBounded`, `PictureSurvives`, `PreviewFits`, `AudioContiguous`, `SilenceReportedOnce`, `AudioNotFromTheFuture` |
| `MediaInOrder` | `PlayoutInOrder`, `GainFallsWhileFrozen`, `KeyframeHonoured` |

Deadlock is not checked where the system may stop or a bound ends it: the
registry once every connection has gone (a connection number is used once), the
host service, which exits, workers and transports that have closed, and
components whose clock or event count has reached its bound. `devices` checks
it, though its server can always be restarted.

### Bounds, and why they are enough

- *Registry.* Three connections are a host, the same host reconnecting, and a
  viewer; or a host and two viewers competing for it. Two hosts and two session
  ids let one session hold a lock while another is asked for, and let an id be
  reused. `MaxSeq` = 3 leaves two numbers after the first before saturation.
  TTLs only matter as zero or positive and as pending shorter than active.
- *Codes.* Two attempts: one wrong guess leaves the code alive, two kill it.
  Three intents are one that waits, one that reuses its id and one under another
  id. Lost connections and wrong guesses are paid for from the same budget
  (`MCBound`, `MCBudget` = 3): two intents may meet a connection that breaks
  between them, one intent two wrong guesses. What lost connections do to
  sessions is the question of `sessions`. Ids reused on another host need a second
  host: that is left to `CodesCorrect`.
  The `otp` run identifies states that differ only in what the peers heard
  (`VIEW`): the codes do not depend on it.
- *Gates.* Two events every two ticks fill, drain and refill a bucket within the
  clock's bound of four. Two failures lock a key, the third doubles the back-off
  and the cap of three stops it; the failure window of two lets a count go
  quiet. `MaxFlight` = 1 keeps a login in flight over a tick, so one that passed
  its look-up records its failure after the key was locked.
- *Devices.* Two requests are what a race needs; three credentials are one
  registration and two rotations, or two registrations and a rotation. Four
  requests of a host (`MaxAttempts`) are an enrolment, a restart whose refresh
  fails and is followed by a registration, and one more restart. With clients of
  any kind a state in which all five devices and credentials have been drawn is
  checked and not continued (`MaxMinted`).
- *Agent.* Two attachments, two challenges: what the first attachment leaves
  behind meets the second. The `VIEW` leaves out the media history, which no
  invariant of that run reads.
- *Identity and policy.* Session ids and nonces are chosen so that one is a
  prefix of the other and the boundary between fields can move; a third
  certificate is the one of whoever relays. Two windows and times-to-live of 0
  (raised to 1) and 2 let a window expire, be replaced and be consumed.
- *Host service.* Two session ids are an abandoned session and one that is
  served after it. `MaxInbox` bounds only what the server sends of itself;
  answers to the host's own messages are always appended. `MaxMint` is one more
  than the sessions that can finish. A window expires at any moment, so its time
  needs no clock. In the shell, at most two things are started (`MaxStarts`): two
  host processes, a host and a connection, or two connections; the two sides share
  only the form and the settings. Two host processes are one
  that is refused or dies and its replacement.
- *Control.* Two services compete for one agent; one of them gives up reads
  (`Impatient`), so that a stream with a late reply and one without exist side
  by side. The limiter sees two full windows and a half.
- *Transport and viewer.* A callback after a close comes at an end with nothing
  queued, and not on top of a flap or a restart (`MaxLate` = 1): it meets every
  other order of calls. Two units show loss, duplication and order; two
  connects show what the first leaves to the second; a queue of one is full at
  once; three samples are a move that waits, what overtakes it, and what
  follows.
- *Media.* Four packets wrap the sequence numbers; delays of 0, 2 and 5
  intervals reorder them. `KeyInterval` = 2 makes periodic keyframes happen. The
  desktop sizes are smaller and larger than the preview, with and without row
  padding. Two frames of the host's clock (`MaxHost`) lose a keyframe and send what
  comes behind it. The host's clock starts at 0 (`Uptimes`): see `dxgi.rs:202` below.

Sets of connections, hosts, session ids, devices and credentials are used with
symmetry, never in a run with fairness.

### Fairness

- `SessionRegistry!FairSpec`: `WF(Tick)`, time passes; `WF(ReapExpired)`,
  requests keep arriving. There is no background sweep, so without the second
  an expired session keeps its lock until somebody asks, which is what the code
  does. Nothing is assumed of any particular client.
- `HostFairness`: the service's task is scheduled (`WF(HostStep)`), its
  deadlines fire while it stays in the waiting phases (`WF(Timeout)`; the code
  compares with a deadline around every receive), and once the viewer has gone
  the peer connection reports it (`WF(PeerDrops /\ ViewerGone)`; the transport's
  own consent checks). Nothing is assumed of the server, the user or viewers.
- `PeerTransport!Fairness`: accept and reader threads run, both owners keep
  polling (their loops do), the runtime reports a peer that closed, and what is
  on the wire arrives. Nothing is assumed of the owners' other calls, of
  signaling, or of a reset.
- `ViewerWorker!Fairness`: the worker's thread runs and its deadlines pass: the
  hello has one of 10 s, so `HelloFails` is fair and `HelloOk` is not. The
  live loop takes its steps in turn, so each of them is weakly fair. Nothing is
  assumed of the server, the host or the user, not even that the socket opens or
  is refused: `WorkerEnds` starts from an open socket and the user's wish to
  stop, from a failed transport, or from the command line.
- `ControlFairness`: the agent's loop runs and a client that reads gets its
  turn. `ServedRequestReturns` is about the request being served: a second
  service waits as long as the first keeps its connection.

## What the violated properties say

Each states what a comment or a document of the repository says; `findings` in
`PROJECT.json` quotes the lines.

- `OtpSingleUse`: a second intent rebinds the code before it finds the host
  busy; the accept of the first session then consumes nothing, and the code
  admits another session.
- `ConfirmedSurvives`: two saves race through one temporary file outside the
  lock; the older copy ends up in the registry file after the newer mutation
  was confirmed. `ConfirmedDurable` shows that the race is the only reason.

### Disagreements without a run

Met while modelling; the models do what the code does.

Agent and host service:

- the unattended latch is said to survive detach, shutdown and re-attach
  (`agent.rs:46`), and a new control connection builds a new agent
  (`control_loop.rs:424`), whose latch is clear;
- a re-attach after the kill-switch keeps the transport (`agent.rs:124`, against
  `control_loop.rs:422`);
- error exits of the agent's session handler do not detach (`ws_session.rs:560`,
  against the comment at `:803`), so the agent refuses every later session;
- "Exit host" chosen while no session is served is not looked at by the waiting
  loop (`ws_session.rs:1297`);
- a session ended from the tray or by a deadline before it was live is not ended
  at the server (`:1254`), and no new code is minted after a session that failed
  (`:1234`);
- a code window lasts 900 s (`policy.rs:26`) and a host that waits mints no new one
  (`:1234`, `:1285`): the next session then finds the window expired, its
  authorisation fails, and it is declared bound without a challenge (see the next
  item). `WindowUnspentUntilLive` says that the window is unspent, not that it is
  open;
- when authorisation fails after connecting, the viewer is declared bound
  (`:512`, against `session.rs:401`);
- the tray keeps the id of a session that failed to start (`tray.rs:263`,
  against `chrome.rs:23`);
- the agent's live loop does not learn of a peer that dropped when the
  `session_end` was received while connecting (`:55`);
- `decide_session_accept` has no caller in the service, though `policy.rs:327`
  says to call it;
- a click on "End session" that comes after its session is over stays pending
  and ends the next one (`tray.rs:30`);
- any error of the refresh makes the host register a new id (`ws_session.rs:197`),
  where `:175` says that restarts survive: a lost reply, and also a rate limit
  (`devices.rs:165`), a lockout (`:181`), an expired token (`:216`) or a save that
  failed at the server (`memory.rs:104`), though the device is known and active.
  `RestartKeepsId` is about hosts nothing of this happened to (`fault`).

Control connection:

- a reply that arrives after the 30 s deadline is taken for the next request's
  (`control_loop.rs:101`); `ReplyIsOwn` and `ServedRequestReturns` leave streams
  marked `late` out for that reason;
- the agent drops a connection idle for 120 s and the service
  (`ws_session.rs:1152`) does not connect again;
- a client that closes before it is accepted ends the agent's server
  (`pipe.rs:283`).

Server:

- on Postgres a delete that waits for the row lock of a refresh does not see the
  credential the refresh inserts (`postgres.rs:384`); the deleted device keeps a
  live credential, where `devices.rs:339` says that a delete revokes them;
- an intent under the id of a session that exists is refused, after it has bound
  the host's code to that id (`otp.rs:193`, `ws.rs:415`): the accept of that
  session, which another viewer's code or none let in, then spends the code.
  `OnlyAdmissionSpends` is about ids of one intent;
- the counter of signals saturates at `u64::MAX` (`session.rs:459`), from where
  on one number is accepted repeatedly: `SignalSeqIncreasesBelowMax` names that
  exception;
- the quiet reset (`auth_attempts.rs:133`) comes before a lockout of
  `max_lockout` = 3600 s can be reached;
- an address to be blocked is hashed as the owner wrote it, and compared with
  the normalised address of the client; the first hop of `X-Forwarded-For` is
  not normalised.

Viewer and media:

- `begin_connect` uses a stub session id in the identity proof (`viewer-core`
  `session.rs:355`), where the host uses the id that was signalled
  (`threat-model.md:69`, `DESIGN.md:295`);
- the live worker has no deadline for a transport that stays disconnected
  (`live.rs:337`), and neither worker nor command line has one for a socket that is
  not taken (`client.rs:63`): until the server takes or refuses it, hanging up ends
  nothing. `WorkerEnds` begins once the socket is open;
- a callback of the webrtc runtime that comes after a close overwrites the state
  (`webrtc_rs.rs:262`): `connection_state()` of a closed transport may say that it
  is connected. Its owner is not called back and cannot send: that is
  `ClosedIsFinal`;
- a keyframe request is spent on the next unit encoded, also when sending it fails
  (`session.rs:995`; the agent goes on, `control_loop.rs:419`): the viewer waits for
  the next request or the next interval. The same loses a periodic keyframe, so the
  units between two that were sent may be twice as many (`GopBounded`);
- the Media Foundation encoder labels a unit a keyframe and does not ask the
  transform for one (`mf.rs:283`, `:375`; a request drains it, `:391`): no property
  says when its viewer can decode again;
- desktop frames are stamped with the time since boot (`dxgi.rs:202`) on an
  epoch of 0 (`DESIGN.md:435`); the runs start the clock at 0;
- the jitter estimate only rises (`jitter.rs:262`); audio waiting at the device
  is sent at three packets a frame (`ws_session.rs:1037`); the Media Foundation
  encoder keeps the size it was opened with (`mf.rs:217`).

Desktop:

- whether the status file could be removed is not looked at (`app.rs:120`,
  `:155`): if not, a stopped host is shown on;
- the status shown is kept in memory after a refused start (`app.rs:120`); the
  throttle returns before it asks for the next repaint (`:161`); a start at login
  makes `auto_start_host` permanent (`:51`); the settings are written in place
  (`config.rs:110`); a crash leaves the host child running; a button released
  outside the picture is not forwarded (`:366`, `:415`); turning unattended
  access off does not reach a host that runs (`:643`).

## Proofs

Eight modules hold theorems, each for every value of the constants that
satisfies the named assumptions of the module it is about; the counters that
keep TLC's runs finite may have any bound.

| Module | Theorem | States |
|---|---|---|
| `SignalingServerProofs` | `TypeCorrect` | `TypeOK`: in particular no sequence number passes `u64::MAX` |
| | `LockCorrect` | `LockMatchesSessions` |
| | `ConnectedCorrect` | `PartiesConnected` and `PresenceConnected` |
| | `ControllerCorrect` | the action property `ControllerNotReplaced` |
| | `HeardCorrect`, `SeqCorrect` | `HeardIsPast`, and the action property `SignalSeqIncreasesBelowMax` |
| | `BeliefsCorrect` | `BeliefsHold` |
| | `LeaseRefined` | the registry implements `HostLease` |
| | `RegistryRefined` | the server implements the registry, so that all of the above holds of it |
| | `ServerTypeCorrect`, `ServerInvCorrect` | `ServerTypeOK` and the server's inductive invariant |
| | `GuessesCorrect`, `CodesCorrect` | `GuessesBounded`, `CodesSpentRight` |
| | `GatesCorrect`, `AuditCorrect` | `GatesHold`, `AuditPageNewest` |
| `HostEnrolmentProofs` | `CredentialsCorrect`, `ConfirmedCorrect` | `CredentialsSound`, `ConfirmedDurable`, on either repository: with the exceptions their parts name |
| `HostAgentProofs` | `AgentInvariant` | the agent's inductive invariant |
| | `MirrorsCorrect`, `KillCorrect`, `ChromeCorrect`, `InputCorrect`, `LatchCorrect` | the agent's five invariants |
| | `BindingCorrect`, `CodesAdmitOnceCorrect` | `BindingSound`, `CodeAdmitsOnce` |
| `ControlChannelProofs` | `ChannelInvCorrect` | the control connection's inductive invariant |
| | `NotMisledCorrect`, `AgentServesCorrect` | `ClientNotMisled`, `AgentServesConnection` |
| | `InputSoundCorrect` | `InputSound` of the injector and the kill-switch |
| `HostServiceProofs` | `HostInvCorrect` | the host service's inductive invariant |
| | `ServesCorrect`, `ChromeCorrect`, `WindowCorrect` | `ServesOneSession`, `ChromeTruthful`, `WindowUnspentUntilLive` |
| | `ShellCorrect` | `ShellSound` of the desktop shell |
| `ViewerProofs` | `GuardedCorrect`, `QueuesCorrect` | `InputGuarded`, `QueuesSound` |
| | `LostCorrect` | the action property `LostUntilReconnect` |
| `PeerTransportProofs` | `TransportSoundCorrect` | `TransportSound`, over every backend |
| | `LossIsFinalCorrect` | the action property `LossIsFinal` |
| `MediaProofs` | `PlayoutCorrect`, `PlaneCorrect` | `PlayoutSound`, `PlaneSound` |
| | `PlayoutInOrderCorrect`, `GainFallsCorrect`, `KeyframesHonoured` | the three action properties of `MediaInOrder` |
| | `MediaOrderCorrect` | `MediaInOrder`, of both sides at once |
| | `MediaRunCovered` | what the `media` run drives is a behaviour of both sides |

### What they assume

Most assumptions say only that a constant has its type, that a bound is a
natural number, and that the value standing for "none" is none of the values:
`ConstantsAssumption`, `OtpAssumption` (attempts and lifetimes are positive),
`AgentAssumption`, `RegistryAssumption`, `BackendAssumption`, `PeerTransportAssumption`,
`EnrolmentAssumption`, `HostAssumption` (every session the service finishes mints
at least one code), `ViewerAssumption` (queues hold something, and there is at least
one connect), `ControlAssumption`, `PolicyAssumption`, `ShellAssumption`,
`MediaPlaneAssumption` (a picture has at least one pixel). Four say more:

- `ProofAssumption`: a byte is below 256, session ids and nonces are not empty,
  and the server has a pepper. The code takes ids from a UUID and nonces from 16
  random bytes.
- `GatesAssumption`: a page of the audit log has 1 to 500 events (100 in the
  code), and `MaxFlight <= FailureWindow`: no login is in flight for
  longer than the failure window. In the code the window is 15 minutes. Without
  it a login that looked the key up before it was locked and recorded its failure
  after the window would start the count anew and drop the lock.
- `PlayoutAssumption`: the gain of the duck mode is between silence and unity
  (`duck_q15` is 8192 of 32768), a block that is resampled is not empty, and audio is
  stretched by at most half its length. In the code `max_stretch` is 0.02; beyond one
  half the last sample kept may lie further from the block's end than
  `ResampleFaithful` allows.
- `PowersAssumption`: `2^(n+1) = 2 * 2^n` for the 21 exponents the back-off uses.
  The provers do not know `^`; TLC evaluates the formula completely on every
  run of `otp`, so nothing is left to trust.

### How they go

*Registry.* `LockMatchesSessions` and `HeardIsPast` are each inductive once the
types are known; both rest on one observation stated as lemmas: closing any set
of sessions releases exactly their locks (`ClosingKeepsLock`) and tells only
their parties (`ClosingKeepsPast`), and every request is a closing, followed by
a rewrite of at most one session that is still there. `PartiesConnected` is not
inductive alone: an evicted socket still serves requests, and one that
belonged to a viewer would let a session be created on a connection no
longer in the map. The strengthening `Connected` adds `OnlyHostsEvicted`, that
only sockets of hosts are ever evicted. `ControllerNotReplaced` follows from
the lock: an intent is granted only if the reaped lock is free, and a lock
whose session has not expired is not freed by reaping. The order of signals
follows from `HeardIsPast`: every message is numbered no lower than the
session's counter, everything heard before lower. `BeliefsHold` is preserved because a
closing tells everybody who could believe in what it closes
(`ClosingKeepsBeliefs`); `BeliefInv` adds that a connection that was never
registered has heard nothing. For the refinement, what a closing does to the
leases is one lemma (`ClosingEndsLeases`), and each request is the step of
`HostLease` it stands for: a granted intent a `Grant`, an accept an `Activate`, a
refused request a `Lapse`, since it has reaped all the same.

*Server.* `RegistryRefined` is by cases: a handler's step is a registry action or
leaves the registry alone. `ServerInv` says what is still to come. Since any
intent may come under any id, it distinguishes ids by how many did: whatever
exists under an id was asked for (`SessionsAreUsed`); the one intent under an id
that is past its code check meets no session, no accept and no other handler under
it (`TasksPending`), and a code bound to such an id is bound to the session it let
in (`BoundToOwnSession`); wrong guesses are the attempts lost (`WrongIsCounted`). An
accept's code is followed by `accepted`: an id leaves it when the code is bound to
it anew, unless the accept's handler has yet to come to the code, which then spends
it.

*Gates.* For the limiter the invariant speaks of every start time at once:
`BucketInv` says that what was let through since `i` plus what the bucket still
holds has been paid for by a full bucket and the refill since `i`. The back-off
needs `LockoutInv`: a key's record and its true streak of failures are in step,
and a login in flight that looked up a key that is now locked began before the
failure that locked it. `BlocklistExact` needs `BlockInv`: the index is that of
the entries, and an intent being looked up has yet to come to every subject
listed all the while. For the audit log `AuditInv` says that ids are drawn
once, by the log or by an append under way. Hence the events of a device can be
compared, any finite set of them can be put in order (`OrderExists`, by taking
the oldest away), and what the page leaves out is older than what it shows.

*Devices and enrolment.* The registry may become any store that is kept: the
maps, the file, the temporary file, the copy of a save under way. `RegistryInv`
says the same of all of them (`StoreSound`) and of each request how far it has
come (`JobSound`): the device of a registration without a credential is nobody
else's, a delete past its revocation has left no live credential, a rotation
that holds the row lock is alone with a live row. On Postgres a delete sees every
row it has to revoke only while requests do not overlap (`DeleteSeesAll`), which
is the disagreement reported above. A step is first described by its effects
(`Effects`, `OneActs`), and the invariants are preserved by any step with those
effects, so that the proof is not done once for each repository. `ConfirmedInv`
adds how far the file lags behind the maps (`SaveLags`); `EnrolledInv`
that the credential in a reply is live and unknown to the host until it comes;
`FaultFreeInv` that without a fault one request of the host at a time is under
way and one device exists. Failed saves are covered: `SaveLags` says that with one
request at a time the file is what the maps are once the request's last mutation is
saved, and before its first one it may lag behind by a save that failed.

*Agent.* The properties support each other and are proved together. `AgentInv`
adds `ChallengesCurrent` (an outstanding challenge and every proof based on one
were issued in the current attachment), `IdleIsClosed` (without a session
there is neither input policy nor media) and `KilledHasNoChallenge` (the kill-switch
also takes back an outstanding challenge, so that a late answer finds nothing
to answer). One lemma covers the control messages, one all other steps.

*Identity.* A MAC is its key and its bytes, so everything rests on the bytes:
fields are preceded by their lengths, hence the bytes determine the fields
(`EncodeInjective`), and hexadecimal text determines the nonce (`HexRoundTrip`).
`BindingInv` then says that every MAC in circulation was answered for the very
transcript it encodes. For the codes `RecordInv` says that the record is as it
was minted, or spent by one session; `WindowsInv` that the open window is that of
the last code minted, which no session has used.

*Control connection.* Neither end compares request numbers, so `ReplyIsOwn` can
only come from the order of the stream. `ChannelInv` describes it: on a stream no
read was given up on, there is a request, or what is left of its answer, and
nothing else (`StreamOf`, with the sentinel last); a link is the same at both
ends (`LinkOf`); the steps of `start_session` acknowledged so far are done at the
agent (`StartOf`); who is served has proved the secret (`SecretOf`). The client
that gave up a read leaves its stream marked `late`, and nothing is claimed of
it.

*Input.* `BurstBounded` speaks of any second, the limiter only of its own window.
`WindowInv` adds what joins the two: all accepted events came before the window
ends, the window has counted what it holds, and the second that ends where it
starts holds no more than one window's events. So an event is accepted into a
second that held at most the cap before the window and less than the cap in it
(`SecondOfNow`). Positions are a matter of division (`ScaleFacts`); the rest of
`InputSound` is inductive by itself.

*Host service.* The handler never compares session ids either: it may read
whatever comes next on its socket. `HostInv` is about the order of what
waits there. A session that is announced is not accepted yet, so no signal of any
session follows an announcement, and of several announcements only the last can
be of the session that holds the server's lock (`Orderly`). Hence the signals
that wait are those of the session being served (`Own`), and while it is served
no other session holds the lock as an accepted one (`LockIsOwn`). From this
follow `SignalsAreOwn` and, with what each exit leaves set, the tray and the
window: that its time may be over changes who is let in, not which window it is,
since only a session that is live and in process spends it (`WindowInv`).

*Desktop shell.* `HostInReach` is inductive once process numbers are known to be
new. The rest is not: that nothing of a host is shown after access was turned off
needs that no host runs then which could publish again (`OffIsOff`); that a
window's connection was told to stop needs that none outlives the application
(`ViewerShown`); and that recent ids were dialled needs that the id in the form is
the open connection's, and the same of what the settings file holds
(`ConfigsSound`). `OthersAre` says what the filtered list is, by induction over its
prefixes.

*Viewer.* A drain is a fold over the callback buffer. What each entry keeps the
fold keeps, because a set of numbers with 0 in it that contains `i` whenever it
contains `i - 1` contains them all; that needs only that a set of numbers has a
least one (`NatMin`, `Climb`, `StepsStay`). So every call takes a sound session to a
sound one and cannot revive a lost one (`Became`), whoever makes it
(`CallKeeps`). Challenges in a buffer are those of the session's own connection
(`Fresh`), which is why an answer binds that connection. Input is a line
(`InputInv`): what went out on this connection is older than the waiting pointer
position, that is older than the samples queued for the worker, and those are
older than the next event; a send takes from the front (`Emits`,
`SendKeepsOrder`), and what is refused or lost only leaves gaps.

*Transports.* `DeliveredInOrder` speaks of what the callbacks were given, and
that is the end of a pipeline: a wire, a reader thread or a runtime callback, a
queue, a poll. `StreamInv` therefore speaks of the whole pipeline. What came and
what waits in the queue is in order; every unit on the wire that can still be
read is due next; and nothing owed is missing, except on a connection that was
cut. Owed are all units over mock and live, and only data over webrtc, where a
sample may be lost or overtaken; so a later unit can never be read before an
earlier one that is owed. The other parts say what that rests on. `ModeInv`
says which threads and queues a backend has. `PrintInv` says which fingerprint an
end compares with and that a refused Hello lets nothing through. `ToldInv` says
that the callbacks waiting for a poll lead from what the owner was told to the
state the transport is in. `CloseInv` says that on a TCP connection a close, or
the reader's end, is the last thing that comes. Over webrtc the state of a closed
end is not part of any of them: a late callback may set it, and only what the owner
was told (`ToldInv`) stays. One lemma describes each kind of
call by what it does to the fingerprints, the state and the pipeline (`Joins`,
`Moves`), so that the invariant is proved for all calls of a kind at once.

*Playout.* The queue is in playing order because a packet is inserted before the
first that plays later (`InsertInOrder`), and what leaves is its head. The jitter
estimate stays within the spread of the delays seen because each update moves it
a sixteenth of the way towards a difference of two of them (`EstimateRises`). For
the pace of the skew correction the property speaks of the time since the first
step; `OffsetInv` counts the intervals between the first step and the last. The resampler is shown faithful without induction over its block:
each output sample is a mixture of two neighbours (`MixBetween`), and the index it
is taken from grows with its own (`SampleRises`), so that order and range carry over.
`GainAt` gives the volume the policy is heading for as a function of the time since
the last frame; `FreezeInv` says that the gain is never below it, and `GainFalls` that
it only comes down, so a tick never raises the volume.

*Media plane.* Audio is a recursive function over the turns of one pump, and
`TurnInv` climbs it: after `n` turns the next stamp is the one of the packet that
comes next, the video's fields are as they were, and a native client has taken no
more packets than there was time for. `StampAdvances` is the reason the prediction
survives the wrap of the RTP clock. The picture is arithmetic: a scaled length is
within half a unit of the exact one (`ScaledNear`), hence the shape to within a
pixel (`PreviewSized`); a box ends where the next begins, because scaling down never
lets two edges meet (`EdgeGrows`, `BoxesCover`). A decoder finds the slice of a
keyframe behind its parameter sets (`SliceFound`), and reads the sample with the
byte order it was written in (`PreviewDecodes`). `GopBounded` is about the software encoder and is not inductive: units since the
last keyframe could be many if those sent were not counted with them. `CountInv`
adds that they are no more than the units since the last forced keyframe, which is
the remainder the host forces by, and a whole interval for each keyframe whose
sending failed before it. `KeyframeHonoured` needs `AskedInv`: a keyframe
that was asked for is owed by the encoder until a unit is encoded.

### Only model-checked

- Liveness: `LockNotPinned`, `ClosedSessionIsLeft`, `EndsInTime`, `WorkerEnds`,
  `ServedRequestReturns`. The prover knows neither `WF` nor `ENABLED`.
- The two runs that expect a violation: each refutes what a document says.

## Not modelled

- Postgres itself: its isolation is taken as documented for its default level.
- Server assembly, the protocol's message formats and scancode tables, metrics,
  the update manifest, the repository's tooling: data or wiring without state
  that other parts depend on.
- Data without control: SDP and candidates, hashing and key agreement (symbolic),
  pixels, samples, the bitstream of real encoders, drawing.
- Calls of the operating system (DXGI, WASAPI, Media Foundation, PipeWire,
  `SendInput`, named pipes) and the webrtc library appear as what they may
  return.
- The write of the registry's temporary file is one step; a crash inside it, and
  what a write that fails halfway leaves there, are not modelled.
- The demos of `service.rs`, the viewer and the command lines; enrolment with an
  identity given on the command line, or without a credential file.

## Plan

Every safety invariant and action property of the runs has its theorem. What is
left: a clock for the host's code windows, with which it could be said when a
viewer finds one open; properties for two hazards that have none, a waiting host that does not
look for the tray's exit (`ws_session.rs:1297`) and a session that fails before it
is live and has spent the server's code (`ws_session.rs:1234`); the adaptation of
the bitrate; and `GatesCorrect` without `PowersAssumption`, once the prover knows `^`.
