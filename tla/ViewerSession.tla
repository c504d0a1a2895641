--------------------------- MODULE ViewerSession ---------------------------
(***************************************************************************)
(* The viewer's side of a session: ViewerSession of packages/viewer-core   *)
(* (phase machine, identity answer, media queues, input capture and        *)
(* encoding) over a peer transport, and the three programs that drive it:  *)
(*                                                                         *)
(*   ui    a window that holds a ViewerSession and reconnects              *)
(*   live  the desktop's worker thread (apps/viewer live.rs)               *)
(*   cli   the command-line viewer (apps/viewer ws_connect.rs)             *)
(*                                                                         *)
(* The session is one record, changed by operators that return the new     *)
(* record; a worker's turn is a composition of them.  The transport is     *)
(* seen as its state and the callbacks waiting for the next poll (its own  *)
(* workings are PeerTransport's).  An input sample, a frame and a packet   *)
(* are numbers.                                                            *)
(***************************************************************************)
EXTENDS Naturals, Sequences, FiniteSets, SequencesExt

CONSTANTS
    Drivers,        \* subset of {"ui", "live", "cli"}
    VideoCap,       \* video_out_cap
    AudioCap,       \* capacity of the playout queue
    MaxConnect,     \* bound: connect attempts
    MaxEvents,      \* bound: host messages, input samples and focus changes together
    MaxWorkerEvents,    \* the same, under a worker
    MaxFlap,        \* bound: times a lost connection comes back
    MaxSignal       \* bound: signaling messages

ASSUME ViewerAssumption ==
    /\ Drivers \subseteq {"ui", "live", "cli"}
    /\ VideoCap \in Nat \ {0} /\ AudioCap \in Nat \ {0}
    /\ MaxConnect \in Nat \ {0} /\ MaxEvents \in Nat /\ MaxWorkerEvents \in Nat
    /\ MaxFlap \in Nat /\ MaxSignal \in Nat

VARIABLES
    driver,
    key,            \* a bind key is installed, and identity required for input
    viewer,         \* the ViewerSession
    tr,             \* its transport: state and callbacks waiting for poll
    response,       \* the last answer to a challenge: session id, attempt
    out,            \* input messages the transport took
    worker,         \* live and cli: where run_live or run_ws_viewer is
    sig,            \* signaling messages waiting for the worker
    user,           \* the user's side: the stop flag, waiting input events
    count           \* numbers used to bound the model

vars == <<driver, key, viewer, tr, response, out, worker, sig, user, count>>

ViewerPhase == {"idle", "connecting", "answering", "connected", "streaming",
                "failed", "disconnected", "closed"}
Active == {"connecting", "answering", "connected", "streaming"}
CanSendInput == {"connected", "streaming"}

\* The session id connect_stub makes up: the host and the server know the
\* session under the id it was signalled with.
ConnectStub == "stub"

NoTransport == [state |-> "none", inbox |-> <<>>]

\* InputCapture::new with the kept always_capture.
NewCapture(always) ==
    [focused |-> FALSE, always |-> always, pending |-> 0, due |-> TRUE]

NewViewer ==
    [phase |-> "idle", told |-> "new", attempt |-> 0, sid |-> "none", authorized |-> FALSE,
     bound |-> FALSE, status |-> "unbound", buf |-> <<>>,
     video |-> <<>>, decoded |-> 0,
     auto |-> TRUE, audio |-> <<>>, enqueued |-> 0, dropped |-> 0, played |-> 0,
     seq |-> 1, capture |-> NewCapture(FALSE)]

-----------------------------------------------------------------------------
(***************************************************************************)
(* The session's parts.                                                    *)
(***************************************************************************)

\* Mutant: a lost connection that comes back revives the phase.
OnTransportStateRevives(phase, s) ==
    CASE s = "connected" /\ phase \in {"connecting", "answering", "disconnected"} -> "connected"
      [] s = "disconnected" /\ phase \in Active -> "disconnected"
      [] s = "failed" -> "failed"
      [] s = "closed" -> "closed"
      [] OTHER -> phase

\* ConnectionMachine::on_transport_state
OnTransportState(phase, s) ==
    CASE s = "connected" /\ phase \in {"connecting", "answering"} -> "connected"
      [] s = "disconnected" /\ phase \in Active -> "disconnected"
      [] s = "failed" -> "failed"
      [] s = "closed" -> "closed"
      [] OTHER -> phase

\* ConnectionMachine::on_media_received
OnMediaReceived(phase) == IF phase = "connected" THEN "streaming" ELSE phase

BindStatus(v) ==
    IF v.bound THEN "bound" ELSE IF v.authorized THEN "pending" ELSE "unbound"

\* sync_bind_status
SyncBindStatus(v) == [v EXCEPT !.status = BindStatus(v)]

\* mark_session_authorized
MarkAuthorized(v) == SyncBindStatus([v EXCEPT !.authorized = TRUE])

\* A bounded queue that gives up its oldest entry.
PushBounded(q, x, cap) ==
    Append(IF Len(q) >= cap THEN SubSeq(q, Len(q) - cap + 2, Len(q)) ELSE q, x)

\* handle_track, a frame the decoder understands.
HandleVideo(v) ==
    [v EXCEPT !.decoded = @ + 1,
              !.video = PushBounded(@, v.decoded + 1, VideoCap),
              !.phase = OnMediaReceived(@)]

\* Mutant: overflow is not counted.
PushPacketUncounted(v) ==
    [v EXCEPT !.enqueued = @ + 1, !.audio = PushBounded(@, v.enqueued + 1, AudioCap)]

\* AudioPlayoutQueue::push_packet, a packet that decodes.
PushPacket(v) ==
    [v EXCEPT !.enqueued = @ + 1,
              !.dropped = @ + (IF Len(v.audio) >= AudioCap THEN 1 ELSE 0),
              !.audio = PushBounded(@, v.enqueued + 1, AudioCap)]

\* pop, and the sink takes it.
PlayOne(v) == IF v.audio = <<>> THEN v ELSE [v EXCEPT !.audio = Tail(@), !.played = @ + 1]

\* handle_track, a packet: played at once unless auto_playout is off.
HandleAudio(v) ==
    LET q == PushPacket(v)
    IN  [(IF v.auto THEN PlayOne(q) ELSE q) EXCEPT !.phase = OnMediaReceived(@)]

\* The decoders: a mock bitstream is parsed, anything else that is not empty
\* becomes a placeholder frame.  Raw samples come in whole numbers of samples.
MockDecode(t) == t.format = "mock"
SyntheticDecode(t) == t.format # "empty"
Decode(t) == MockDecode(t) \/ SyntheticDecode(t)
DecodeAudioPacket(t) == t.format # "odd"

\* A unit the decoder does not understand leaves everything as it is.
HandleTrack(v, t) ==
    CASE t.kind = "video" /\ Decode(t) -> HandleVideo(v)
      [] t.kind = "audio" /\ DecodeAudioPacket(t) -> HandleAudio(v)
      [] OTHER -> v

\* handle_identity_message: a challenge is answered when a key is there and the
\* transport takes the answer.  Anything else is an error.
Answers(v, e) == e.ok /\ key /\ tr.state = "connected"

\* A state change is an entry of the callback buffer like any other.
HandleState(v, e) ==
    IF e.kind = "state" THEN [v EXCEPT !.phase = OnTransportState(@, e.s), !.told = e.s] ELSE v

\* The entries of a buffer handled one after the other.
Each(Handle(_, _), v, buf) ==
    LET after[i \in 0..Len(buf)] == IF i = 0 THEN v ELSE Handle(after[i - 1], buf[i])
    IN after[Len(buf)]

Identities(buf) == {i \in 1..Len(buf) : buf[i].kind = "identity"}
AnswersFirst(v) ==
    Identities(v.buf) # {} /\ Answers(v, v.buf[Min(Identities(v.buf))])

\* drain_callback_buf: states, then tracks, then identity messages up to the
\* first that is an error.
Drain(v) ==
    LET played == [Each(HandleTrack, Each(HandleState, v, v.buf), v.buf) EXCEPT !.buf = <<>>]
    IN IF AnswersFirst(v) THEN SyncBindStatus([played EXCEPT !.bound = TRUE]) ELSE played

\* The answer that drain sends, if it sends one.
Response(v) ==
    IF AnswersFirst(v)
    THEN [sid |-> v.sid, attempt |-> v.buf[Min(Identities(v.buf))].attempt] ELSE response

\* An identity message that is an error makes drain an error.
DrainFails(v) ==
    \E i \in 1..Len(v.buf) : v.buf[i].kind = "identity" /\ ~Answers(v, v.buf[i])

\* The transport's poll runs the callbacks, up to an error of its own.
Delivered(inbox) ==
    LET bad == {i \in 1..Len(inbox) : inbox[i].kind = "bad"}
    IN IF bad = {} THEN inbox
       ELSE SubSeq(inbox, 1, Min(bad) - 1)
PollError(inbox) == \E i \in 1..Len(inbox) : inbox[i].kind = "bad"

Polled(v, t) == [v EXCEPT !.buf = @ \o Delivered(t.inbox)]

\* ViewerSession::poll: an error of the transport leaves what it delivered in
\* the buffer.
PollSession(v, t) == IF PollError(t.inbox) THEN Polled(v, t) ELSE Drain(Polled(v, t))
PollResponse(v, t) == IF PollError(t.inbox) THEN response ELSE Response(Polled(v, t))
Emptied(t) == [t EXCEPT !.inbox = <<>>]

\* teardown_transport, but for the transport itself.
Teardown(v) == [v EXCEPT !.buf = <<>>]

\* begin_connect: the stub's session id, nothing of the previous session but
\* the capture's configuration and the keys.
BegunConnect(v) ==
    SyncBindStatus(
        [NewViewer EXCEPT !.phase = "connecting", !.attempt = v.attempt + 1,
                          !.sid = ConnectStub, !.auto = v.auto, !.buf = Teardown(v).buf,
                          !.capture = NewCapture(v.capture.always)])

\* close
Closed(v) == [Teardown(v) EXCEPT !.phase = "closed", !.told = "closed"]

-----------------------------------------------------------------------------
(***************************************************************************)
(* Input: capture, coalescing, encoding.                                   *)
(***************************************************************************)

MayCapture(c) == c.always \/ c.focused

SetFocused(c, focused) ==
    [c EXCEPT !.focused = focused,
              !.pending = IF c.focused /\ ~focused /\ ~c.always THEN 0 ELSE @]

SetAlwaysCapture(c, always) ==
    [c EXCEPT !.always = always,
              !.pending = IF c.always /\ ~always /\ ~c.focused THEN 0 ELSE @]

\* take_emit
TakeEmit(c) == [c EXCEPT !.pending = 0, !.due = FALSE]

\* MouseMoveCoalescer::flush
Flushed(c) == IF c.pending = 0 THEN c ELSE TakeEmit(c)
FlushedMove(c) == IF c.pending = 0 THEN <<>> ELSE <<[kind |-> "move", n |-> c.pending]>>

\* A key without a scancode is dropped, and so is everything while nothing may
\* be captured.
Taken(c, raw) == MayCapture(c) /\ raw.kind # "unmapped"

\* Mutant: the waiting move goes out behind the event.
CapturedLate(c, raw) ==
    CASE ~Taken(c, raw) -> <<>>
      [] Taken(c, raw) /\ raw.kind = "move" -> IF c.due THEN <<raw>> ELSE <<>>
      [] Taken(c, raw) /\ raw.kind = "reliable" -> <<raw>> \o FlushedMove(c)

\* InputCapture::push: what may be sent now.  A button, wheel or key event
\* takes the waiting move with it.
Captured(c, raw) ==
    CASE ~Taken(c, raw) -> <<>>
      [] Taken(c, raw) /\ raw.kind = "move" -> IF c.due THEN <<raw>> ELSE <<>>
      [] Taken(c, raw) /\ raw.kind = "reliable" -> Append(FlushedMove(c), raw)

AfterPush(c, raw) ==
    CASE ~Taken(c, raw) -> c
      [] Taken(c, raw) /\ raw.kind = "move" -> IF c.due THEN TakeEmit(c) ELSE [c EXCEPT !.pending = raw.n]
      [] Taken(c, raw) /\ raw.kind = "reliable" -> Flushed(c)

\* InputCapture::poll
CapturedByPoll(c) == IF MayCapture(c) /\ c.due THEN FlushedMove(c) ELSE <<>>
AfterPoll(c) == IF MayCapture(c) /\ c.due THEN Flushed(c) ELSE c

\* ensure_can_send_input
EnsureCanSendInput(v) == v.phase \in CanSendInput /\ (key => v.bound)

\* Each event takes a number; the first k reach the transport, and a send that
\* fails gives up the rest.
Encoded(v, events, k) ==
    [i \in 1..k |-> [seq |-> v.seq + i - 1, n |-> events[i].n, attempt |-> v.attempt,
                     bound |-> v.bound]]
SendCaptured(v, events, capture) ==
    \E k \in 0..(IF tr.state = "connected" THEN Len(events) ELSE 0) :
        /\ out' = out \o Encoded(v, events, k)
        /\ viewer' = [v EXCEPT !.seq = @ + (IF k < Len(events) THEN k + 1 ELSE k),
                               !.capture = capture]

\* push_raw_input: refused samples are gone.
PushRawInput(raw) ==
    IF EnsureCanSendInput(viewer)
    THEN SendCaptured(viewer, Captured(viewer.capture, raw), AfterPush(viewer.capture, raw))
    ELSE UNCHANGED <<viewer, out>>

\* poll_input_capture
PollInputCapture(v) ==
    IF EnsureCanSendInput(v)
    THEN SendCaptured(v, CapturedByPoll(v.capture), AfterPoll(v.capture))
    ELSE viewer' = v /\ UNCHANGED out

-----------------------------------------------------------------------------
(***************************************************************************)
(* The transport and the host at its other end.                            *)
(***************************************************************************)

\* What the host may send: media, decodable or not, a challenge, or some other
\* identity message.  Under a worker two formats are enough.
Items == [kind : {"video"}, format : {"mock", "plain", "empty"}]
    \cup [kind : {"audio"}, format : {"pcm", "odd"}]
    \cup [kind : {"identity"}, ok : BOOLEAN, attempt : {viewer.attempt}]

MoreEvents ==
    /\ count.events < IF driver = "ui" THEN MaxEvents ELSE MaxWorkerEvents
    /\ count' = [count EXCEPT !.events = @ + 1]

Queue(e) == tr' = [tr EXCEPT !.inbox = Append(@, e)]

HostSends(e) ==
    /\ tr.state = "connected"
    /\ e.kind \in {"video", "audio"} /\ driver # "ui" => e.format \in {"mock", "odd"}
    /\ MoreEvents
    /\ Queue(e)
    /\ UNCHANGED <<driver, key, viewer, response, out, worker, sig, user>>

\* A poll that ends in an error: the Hello of the wrong peer.
HostUnknown ==
    /\ tr.state \in {"connecting", "connected"}
    /\ MoreEvents
    /\ Queue([kind |-> "bad"])
    /\ UNCHANGED <<driver, key, viewer, response, out, worker, sig, user>>

\* The transport's state changes; its owner is told by the next poll.
TransportChange(s) ==
    /\ \/ tr.state = "connecting" /\ s \in {"connected", "failed"}
       \/ tr.state = "connected" /\ s = "disconnected"
       \/ tr.state = "disconnected" /\ s = "failed"
       \/ tr.state = "disconnected" /\ s = "connected" /\ count.flap < MaxFlap
    /\ tr' = [state |-> s, inbox |-> Append(tr.inbox, [kind |-> "state", s |-> s])]
    /\ count' = [count EXCEPT
           !.flap = @ + (IF tr.state = "disconnected" /\ s = "connected" THEN 1 ELSE 0)]
    /\ UNCHANGED <<driver, key, viewer, response, out, worker, sig, user>>

\* accept_offer_with_sig: the phase changes before the transport looks at the
\* description, and stays changed when it refuses.
Answering(v) ==
    [v EXCEPT !.phase = IF @ \in {"connecting", "answering"} THEN "answering" ELSE @]
AcceptOffer ==
    /\ response' = Response(Answering(viewer))
    /\ viewer' = Drain(Answering(viewer))
    /\ tr' = [tr EXCEPT !.state = "connecting"]
RefuseOffer == viewer' = Answering(viewer) /\ UNCHANGED <<response, tr>>

\* add_remote_ice hands the candidate over and drains the buffer.
AddRemoteIce == viewer' = Drain(viewer) /\ response' = Response(viewer) /\ UNCHANGED tr

Poll ==
    /\ viewer' = PollSession(viewer, tr)
    /\ response' = PollResponse(viewer, tr)
    /\ tr' = Emptied(tr)

Raw(kind) == [kind |-> kind, n |-> count.events + 1]
RawKinds == {"move", "reliable", "unmapped"}

\* The coalescing interval passes.
Tick ==
    /\ ~viewer.capture.due
    /\ viewer' = [viewer EXCEPT !.capture.due = TRUE]
    /\ UNCHANGED <<driver, key, tr, response, out, worker, sig, user, count>>

-----------------------------------------------------------------------------
(***************************************************************************)
(* A window that holds the session.                                        *)
(***************************************************************************)

UiBeginConnect ==
    /\ driver = "ui"
    /\ viewer.attempt < MaxConnect
    /\ viewer' = BegunConnect(viewer)
    /\ tr' = NoTransport
    /\ UNCHANGED <<driver, key, response, out, worker, sig, user, count>>

\* attach_transport, which every caller calls after begin_connect.
UiAttach ==
    /\ driver = "ui"
    /\ viewer.phase = "connecting" /\ tr.state = "none"
    /\ viewer' = Teardown(viewer)
    /\ tr' = [NoTransport EXCEPT !.state = "new"]
    /\ UNCHANGED <<driver, key, response, out, worker, sig, user, count>>

UiAcceptOffer ==
    /\ driver = "ui"
    /\ tr.state = "new"
    /\ AcceptOffer \/ RefuseOffer
    /\ UNCHANGED <<driver, key, out, worker, sig, user, count>>

UiPoll ==
    /\ driver = "ui"
    /\ tr.state # "none"
    /\ Poll
    /\ UNCHANGED <<driver, key, out, worker, sig, user, count>>

UiFocus ==
    /\ driver = "ui"
    /\ MoreEvents
    /\ \/ viewer' = [viewer EXCEPT !.capture = SetFocused(@, ~@.focused)]
       \/ viewer' = [viewer EXCEPT !.capture = SetAlwaysCapture(@, ~@.always)]
    /\ UNCHANGED <<driver, key, tr, response, out, worker, sig, user>>

UiInput(kind) ==
    /\ driver = "ui"
    /\ MoreEvents
    /\ PushRawInput(Raw(kind))
    /\ UNCHANGED <<driver, key, tr, response, worker, sig, user>>

UiPollInput ==
    /\ driver = "ui"
    /\ PollInputCapture(viewer)
    /\ UNCHANGED <<driver, key, tr, response, worker, sig, user, count>>

\* Frames are drawn, packets are played when auto_playout is off.
UiDrain ==
    /\ driver = "ui"
    /\ viewer' = PlayOne([viewer EXCEPT !.video = <<>>])
    /\ UNCHANGED <<driver, key, tr, response, out, worker, sig, user, count>>

UiClose ==
    /\ driver = "ui"
    /\ tr.state # "none"
    /\ viewer' = Closed(viewer)
    /\ tr' = NoTransport
    /\ UNCHANGED <<driver, key, response, out, worker, sig, user, count>>

=============================================================================
