--------------------------- MODULE ViewerWorker ---------------------------
(***************************************************************************)
(* The programs that connect a ViewerSession through the signaling server: *)
(* run_live, the worker behind LiveViewerHandle, and run_ws_viewer, the    *)
(* command-line viewer; and the whole viewer with its properties.  The     *)
(* server and the host appear as the messages they send.                   *)
(***************************************************************************)
EXTENDS ViewerSession

Signals == {"accept", "reject", "offer", "ice", "end", "closed"}

Pcs == {"off", "connect", "hello", "accept", "negotiate", "recv", "poll", "input", "media", "done"}

Init ==
    /\ driver \in Drivers
    /\ key \in BOOLEAN
    /\ driver = "cli" => ~key
    /\ \E auto, always \in BOOLEAN :
          /\ driver # "ui" => auto /\ ~always
          /\ viewer = [NewViewer EXCEPT !.auto = auto, !.capture = NewCapture(always)]
    /\ tr = NoTransport
    /\ response = [sid |-> "none", attempt |-> 0]
    /\ out = <<>>
    /\ worker = [pc |-> "off", offer |-> FALSE]
    /\ sig = <<>>
    /\ user = [stop |-> FALSE, input |-> <<>>]
    /\ count = [events |-> 0, flap |-> 0, signal |-> 0]

-----------------------------------------------------------------------------
(***************************************************************************)
(* The server, the host's signaling and the user.                          *)
(***************************************************************************)

Sent(m) == \E i \in 1..Len(sig) : sig[i] = m

\* The server relays what the host sends, in the host's order; it may close the
\* socket at any time, and nothing follows that.
ServerSends(m) ==
    /\ worker.pc \notin {"off", "connect", "hello", "done"}
    /\ count.signal < MaxSignal
    /\ ~Sent("closed")
    /\ m \in {"accept", "reject"} => worker.pc = "accept" /\ sig = <<>>
    /\ m \in {"offer", "ice", "end"} => worker.pc # "accept" \/ Sent("accept")
    /\ m = "offer" => ~Sent("offer") /\ ~worker.offer
    /\ sig' = Append(sig, m)
    /\ count' = [count EXCEPT !.signal = @ + 1]
    /\ UNCHANGED <<driver, key, viewer, tr, response, out, worker, user>>

\* request_stop, also by dropping the handle.
RequestStop ==
    /\ driver = "live"
    /\ worker.pc # "off" /\ ~user.stop
    /\ user' = [user EXCEPT !.stop = TRUE]
    /\ UNCHANGED <<driver, key, viewer, tr, response, out, worker, sig, count>>

\* send_input queues a sample whatever the worker is doing.
SendInput(kind) ==
    /\ driver = "live"
    /\ worker.pc # "off"
    /\ MoreEvents
    /\ user' = [user EXCEPT !.input = Append(@, Raw(kind))]
    /\ UNCHANGED <<driver, key, viewer, tr, response, out, worker, sig>>

-----------------------------------------------------------------------------
(***************************************************************************)
(* The worker.                                                             *)
(***************************************************************************)

Goto(pc) == worker' = [worker EXCEPT !.pc = pc]
Took(m) == sig # <<>> /\ Head(sig) = m /\ sig' = Tail(sig)

\* An early return: the session is dropped, and the transport closed with it.
Return ==
    /\ Goto("done")
    /\ tr' = NoTransport
    /\ viewer' = Closed(viewer)

\* Nothing of the session is there yet.
Handshake(from, to) ==
    /\ worker.pc = from
    /\ Goto(to)
    /\ UNCHANGED <<driver, key, viewer, tr, response, out, sig, user, count>>

\* The program runs, and asks for the socket.
Begin == Handshake("off", "connect")
Start == driver = "live" /\ Begin
StartCli == driver = "cli" /\ Begin

\* connect_async has no deadline and does not look at the stop flag: it waits
\* for as long as the server neither takes nor refuses the connection.
SocketOpens == Handshake("connect", "hello")
ConnectFails == Handshake("connect", "done")

\* hello_ok, and the session's intent goes out under an id made of the clock.
HelloOk == Handshake("hello", "accept")

\* The hello is refused, the socket closes, or 10 s pass; stop is not looked at.
HelloFails == Handshake("hello", "done")

\* The session a worker makes; the live one captures always, and its identity
\* is marked authorised before begin_connect.
LiveSession(v) ==
    LET fresh == [v EXCEPT !.capture.always = TRUE, !.capture.focused = TRUE]
    IN BegunConnect(IF key THEN MarkAuthorized(fresh) ELSE fresh)
CliSession(v) == BegunConnect(v)

\* session_accept: a session with its transport.
Accepted ==
    /\ worker.pc = "accept"
    /\ Took("accept")
    /\ viewer' = IF driver = "live" THEN LiveSession(viewer) ELSE CliSession(viewer)
    /\ tr' = [NoTransport EXCEPT !.state = "new"]
    /\ Goto("negotiate")
    /\ UNCHANGED <<driver, key, response, out, user, count>>

\* session_reject, an error, or 60 s without an answer; stop is not looked at.
NotAccepted ==
    /\ worker.pc = "accept"
    /\ \/ Took("reject") \/ Took("closed")
       \/ sig = <<>> /\ UNCHANGED sig
    /\ Return
    /\ UNCHANGED <<driver, key, response, out, user, count>>

\* Behind a message, once there is an offer and the transport is connected, the
\* loop is left.
Negotiated(offer, t) ==
    IF offer /\ t.state = "connected" THEN (IF driver = "live" THEN "recv" ELSE "media")
    ELSE "negotiate"

\* The offer is answered; the poll behind it finds nothing yet.
AnswerOffer ==
    /\ worker.pc = "negotiate"
    /\ ~user.stop
    /\ Took("offer")
    /\ AcceptOffer
    /\ worker' = [worker EXCEPT !.offer = TRUE]
    /\ UNCHANGED <<driver, key, out, user, count>>
NegotiateOffer == driver = "live" /\ AnswerOffer
CliOffer == driver = "cli" /\ AnswerOffer

\* A quarter of a second without a message: poll, and wait on, connected or not.
NegotiatePoll ==
    /\ worker.pc = "negotiate"
    /\ ~user.stop
    /\ sig = <<>>
    /\ Poll
    /\ UNCHANGED <<driver, key, out, worker, sig, user, count>>

\* The command line ignores a session_end, and polls.
CliIgnores ==
    /\ driver = "cli"
    /\ worker.pc = "negotiate"
    /\ Took("end")
    /\ Poll
    /\ Goto(Negotiated(worker.offer, tr))
    /\ UNCHANGED <<driver, key, out, user, count>>

\* A candidate is added, then the session polled.
AddIceAndPoll ==
    /\ worker.pc = "negotiate"
    /\ ~user.stop
    /\ Took("ice")
    /\ viewer' = PollSession(Drain(viewer), tr)
    /\ response' = IF Response(viewer) # response THEN Response(viewer)
                   ELSE PollResponse(Drain(viewer), tr)
    /\ tr' = Emptied(tr)
    /\ Goto(Negotiated(worker.offer, tr))
    /\ UNCHANGED <<driver, key, out, user, count>>
NegotiateIce == driver = "live" /\ AddIceAndPoll
CliIce == driver = "cli" /\ ~DrainFails(viewer) /\ AddIceAndPoll

\* A refused offer, a dead socket, session_end, and for the command line an
\* error out of add_remote_ice: the worker returns and tells nobody.
NegotiateEnd ==
    /\ driver = "live"
    /\ worker.pc = "negotiate"
    /\ ~user.stop
    /\ Took("offer") \/ Took("closed") \/ Took("end")
    /\ Return
    /\ UNCHANGED <<driver, key, response, out, user, count>>
CliEnd ==
    /\ driver = "cli"
    /\ worker.pc = "negotiate"
    /\ Took("offer") \/ Took("closed") \/ (DrainFails(viewer) /\ Took("ice"))
    /\ Return
    /\ UNCHANGED <<driver, key, response, out, user, count>>

\* The stop flag: the socket is closed and no session_end is sent.
NegotiateStopped ==
    /\ worker.pc = "negotiate"
    /\ user.stop
    /\ Return
    /\ UNCHANGED <<driver, key, response, out, sig, user, count>>

\* 45 s: without an offer an error, with one on to the stream, connected or not.
NegotiateDeadline ==
    /\ worker.pc = "negotiate"
    /\ IF worker.offer
       THEN Goto(IF driver = "live" THEN "recv" ELSE "media") /\ UNCHANGED <<viewer, tr>>
       ELSE Return
    /\ UNCHANGED <<driver, key, response, out, sig, user, count>>

\* Mutant: the stop flag is looked at while connecting only.
LiveExitUnstopped ==
    /\ worker.pc = "recv"
    /\ tr.state \in {"failed", "closed"}
    /\ UNCHANGED sig
    /\ Goto("done")
    /\ viewer' = Closed(viewer)
    /\ tr' = NoTransport
    /\ UNCHANGED <<driver, key, response, out, user, count>>

\* The live loop ends: stop, a transport that failed or is closed, session_end
\* or a dead socket.  session_end is sent, the session and the socket closed.
LiveExit ==
    /\ worker.pc = "recv"
    /\ \/ (user.stop \/ tr.state \in {"failed", "closed"}) /\ UNCHANGED sig
       \/ ~user.stop /\ (Took("end") \/ Took("closed"))
    /\ Goto("done")
    /\ viewer' = Closed(viewer)
    /\ tr' = NoTransport
    /\ UNCHANGED <<driver, key, response, out, user, count>>

\* One message or 8 ms.
LiveRecv ==
    /\ worker.pc = "recv"
    /\ ~user.stop /\ tr.state \notin {"failed", "closed"}
    /\ \/ Took("ice") /\ AddRemoteIce
       \/ sig = <<>> /\ UNCHANGED <<sig, viewer, response, tr>>
    /\ Goto("poll")
    /\ UNCHANGED <<driver, key, out, user, count>>

LivePoll ==
    /\ worker.pc = "poll"
    /\ Poll
    /\ Goto("input")
    /\ UNCHANGED <<driver, key, out, sig, user, count>>

\* Queued samples go out one by one; a refused one is dropped.
LiveInput ==
    /\ worker.pc = "input"
    /\ user.input # <<>>
    /\ PushRawInput(Head(user.input))
    /\ user' = [user EXCEPT !.input = Tail(@)]
    /\ UNCHANGED <<driver, key, tr, response, worker, sig, count>>

\* The waiting move, then the newest frame is published.
LiveShow ==
    /\ worker.pc = "input"
    /\ user.input = <<>>
    /\ PollInputCapture([viewer EXCEPT !.video = <<>>])
    /\ Goto("recv")
    /\ UNCHANGED <<driver, key, tr, response, sig, user, count>>

\* The command line polls until media have come, or the time is up.
MediaPoll ==
    /\ worker.pc = "media"
    /\ Poll
    /\ Took("end") \/ ((sig # <<>> => Head(sig) = "closed") /\ UNCHANGED sig)
    /\ UNCHANGED <<driver, key, out, worker, user, count>>

\* A late candidate drains what a failed poll left.
MediaIce ==
    /\ worker.pc = "media"
    /\ Took("ice")
    /\ LET v == PollSession(viewer, tr)
       IN /\ viewer' = Drain(v)
          /\ response' = IF Response(v) # response THEN Response(v) ELSE PollResponse(viewer, tr)
    /\ tr' = Emptied(tr)
    /\ UNCHANGED <<driver, key, out, worker, user, count>>

MediaEnd ==
    /\ worker.pc = "media"
    /\ Return
    /\ UNCHANGED <<driver, key, response, out, sig, user, count>>

-----------------------------------------------------------------------------
Next ==
    \/ UiBeginConnect \/ UiAttach \/ UiAcceptOffer \/ UiPoll \/ UiFocus
    \/ UiPollInput \/ UiDrain \/ UiClose
    \/ \E kind \in RawKinds : UiInput(kind) \/ SendInput(kind)
    \/ \E e \in Items : HostSends(e)
    \/ HostUnknown \/ Tick
    \/ \E s \in {"connected", "disconnected", "failed"} : TransportChange(s)
    \/ \E m \in Signals : ServerSends(m)
    \/ RequestStop \/ Start \/ StartCli
    \/ SocketOpens \/ ConnectFails \/ HelloOk \/ HelloFails
    \/ Accepted \/ NotAccepted
    \/ NegotiateOffer \/ CliOffer \/ NegotiatePoll \/ CliIgnores \/ NegotiateIce \/ CliIce
    \/ NegotiateEnd \/ CliEnd \/ NegotiateStopped \/ NegotiateDeadline
    \/ LiveExit \/ LiveRecv \/ LivePoll \/ LiveInput \/ LiveShow
    \/ MediaPoll \/ MediaIce \/ MediaEnd

\* The worker's thread runs and its timers fire.  Of the server nothing is
\* assumed: SocketOpens and ConnectFails may never come.
Fairness ==
    /\ WF_vars(Start) /\ WF_vars(StartCli) /\ WF_vars(HelloFails)
    /\ WF_vars(Accepted) /\ WF_vars(NotAccepted)
    /\ WF_vars(NegotiateStopped) /\ WF_vars(NegotiateDeadline)
    /\ WF_vars(LiveExit) /\ WF_vars(LiveRecv) /\ WF_vars(LivePoll)
    /\ WF_vars(LiveInput) /\ WF_vars(LiveShow) /\ WF_vars(MediaEnd)

Spec == Init /\ [][Next]_vars /\ Fairness

-----------------------------------------------------------------------------
(***************************************************************************)
(* Properties.                                                             *)
(***************************************************************************)

\* Type correctness.
TypeOK ==
    /\ driver \in Drivers /\ key \in BOOLEAN
    /\ viewer.phase \in ViewerPhase /\ viewer.told \in
          {"new", "connecting", "connected", "disconnected", "failed", "closed"}
    /\ viewer.status \in {"unbound", "pending", "bound"}
    /\ viewer.attempt \in 0..MaxConnect
    /\ Len(viewer.video) <= VideoCap /\ Len(viewer.audio) <= AudioCap
    /\ viewer.seq \in 1..count.events + 1 /\ viewer.capture.pending \in 0..count.events
    /\ tr.state \in {"none", "new", "connecting", "connected", "disconnected", "failed"}
    /\ worker.pc \in Pcs /\ worker.offer \in BOOLEAN
    /\ Range(sig) \subseteq Signals /\ user.stop \in BOOLEAN

\* Input leaves in the order it was made: within one connection both the
\* numbers and the samples they carry increase, so no pointer position reaches
\* the host behind a newer event, whatever was coalesced, refused or lost.
InputInOrder ==
    \A i, j \in 1..Len(out) : i < j /\ out[i].attempt = out[j].attempt =>
        out[i].seq < out[j].seq /\ out[i].n < out[j].n

\* A pointer position waiting to be sent never outlives the permission to
\* capture it.
NoStaleMove == ~MayCapture(viewer.capture) => viewer.capture.pending = 0

\* The session counts as bound by an answer given on this connection, to a
\* challenge that came over this connection.
BoundHere == viewer.bound => response.attempt = viewer.attempt

\* With a bind key installed, nothing typed or clicked leaves the viewer before
\* it has answered the host's challenge.
NoInputUnbound == key => \A i \in 1..Len(out) : out[i].bound

\* A phase that lets input through means that the last news of the transport
\* was not that it is lost.
PhaseFollows ==
    viewer.phase \in CanSendInput => viewer.told \notin {"disconnected", "failed", "closed"}

\* Frames waiting to be drawn are the newest ones decoded, without a gap.
NewestFrames ==
    \A i \in 1..Len(viewer.video) :
        viewer.video[i] = viewer.decoded - Len(viewer.video) + i

\* Every packet put in the playout queue is played, dropped or waiting.
AudioAccounted == viewer.enqueued = viewer.played + viewer.dropped + Len(viewer.audio)

\* The bind status shown is the one the input gate uses.
StatusAgrees == viewer.status = BindStatus(viewer)

\* A session that was lost does not come back by itself: only a new connect
\* attempt makes it active again.
LostUntilReconnect ==
    [][viewer.phase \in {"failed", "disconnected", "closed"} /\ viewer'.phase \in Active
          => viewer'.attempt > viewer.attempt]_vars

\* Once its socket is open the worker lets go: when the user hangs up, wherever
\* it is and also if that was before, and when the connection has failed.  The
\* command line comes to an end.  Until then only the server can end it.
WorkerEnds ==
    (driver # "ui" /\ worker.pc \notin {"off", "connect"}
        /\ (user.stop \/ tr.state = "failed" \/ driver = "cli"))
        ~> worker.pc = "done"

\* Input leaves in order, under the session's own proof of identity, and only
\* while it may; the status shown is the one the gate uses.
InputGuarded ==
    TypeOK /\ InputInOrder /\ NoStaleMove /\ BoundHere /\ NoInputUnbound
    /\ PhaseFollows /\ StatusAgrees

\* What waits to be shown or played is the newest, and nothing is lost to the
\* count.
QueuesSound == NewestFrames /\ AudioAccounted
=============================================================================
