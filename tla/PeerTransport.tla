--------------------------- MODULE PeerTransport ---------------------------
(***************************************************************************)
(* The peer transports of packages/net: what a host and a viewer talk      *)
(* through once signaling has carried their descriptions.  The factory     *)
(* picks one backend for both ends:                                        *)
(*                                                                         *)
(*   mock    a pair of in-process channels (mock.rs)                       *)
(*   live    one TCP connection: the offerer's accept thread, the          *)
(*           answerer's dial, a reader thread per end, Hello frames        *)
(*           (live_loopback.rs)                                            *)
(*   webrtc  webrtc-rs: connection state and data arrive on the runtime's  *)
(*           threads and wait in a queue for poll (webrtc_rs.rs)           *)
(*                                                                         *)
(* A call that blocks (finish_accept, a close that joins the accept        *)
(* thread) is an action that waits for what it blocks on.  ICE candidates  *)
(* are hints with no content here: what matters is that add_ice_candidate  *)
(* tries to connect again.  A description carries its maker's fingerprint, *)
(* or that of an earlier peer when signaling delivers a stale one.         *)
(***************************************************************************)
EXTENDS Naturals, Sequences, FiniteSets, SequencesExt

CONSTANTS
    Modes,          \* the TransportModes considered, already resolved
    Prints,         \* fingerprints a description may carry: "own", "stale"
    MaxSend,        \* bound: units sent, both ends together
    MaxRestart,     \* bound: calls of restart_ice
    MaxFlap,        \* bound: times webrtc loses and regains the other end
    MaxLate         \* bound: a webrtc callback runs after a close only after
                    \* fewer upsets than that

ASSUME PeerTransportAssumption ==
    /\ Modes \subseteq {"mock", "live", "webrtc"}
    /\ Prints \subseteq {"own", "stale"}
    /\ MaxSend \in Nat /\ MaxRestart \in Nat /\ MaxFlap \in Nat /\ MaxLate \in Nat

Peers == {"offerer", "answerer"}
Other(p) == IF p = "offerer" THEN "answerer" ELSE "offerer"
ConnectionState ==
    {"new", "connecting", "connected", "disconnected", "failed", "closed"}

VARIABLES
    mode,           \* the backend both ends were created with
    sdp,            \* sdp[p]: p has created its description
    local_desc, remote_desc,
    state,          \* ConnectionState, what connection_state() returns
    told,           \* the last state on_connection_state was called with
    closed,
    expected_fp,    \* live: fingerprint of the remote description
    remote_fp,      \* what remote_fingerprint() returns
    accept,         \* live: the offerer's accept thread
    stream,         \* live: writer attached; mock: senders; webrtc: channels
    reader,         \* live: reader thread, "none", "run" or "done"
    wire,           \* wire[p]: frames on their way to p
    inbox,          \* inbox[p]: the queue p's poll drains
    flaps,          \* webrtc: times the connection was reported lost
    restarted,      \* webrtc: ends whose ICE was restarted
    sent,           \* sent[p]: kinds of the units p sent with success
    got             \* got[p]: numbers of the units p's callbacks were given

descs == <<sdp, local_desc, remote_desc>>
conn == <<state, told, closed, expected_fp, remote_fp>>
io == <<accept, stream, reader, wire, inbox>>
counts == <<flaps, restarted, sent, got>>
vars == <<mode, descs, conn, io, counts>>

Kinds == {"data", "media"}
Frames == [kind : {"unit"}, n : 1..MaxSend]
    \cup [kind : {"hello", "close", "eof"}]
    \cup [kind : {"state"}, s : ConnectionState]
Unit(n) == [kind |-> "unit", n |-> n]
Hello == [kind |-> "hello"]
CloseFrame == [kind |-> "close"]
Eof == [kind |-> "eof"]
StateEvent(s) == [kind |-> "state", s |-> s]

Both(v) == [p \in Peers |-> v]

Init ==
    /\ mode \in Modes
    /\ sdp = Both(FALSE) /\ local_desc = Both("none") /\ remote_desc = Both("none")
    /\ state = Both("new") /\ told = Both("new") /\ closed = Both(FALSE)
    /\ expected_fp = Both("none") /\ remote_fp = Both("none")
    /\ accept = "none"
    /\ stream = Both(IF mode = "mock" THEN "open" ELSE "none")
    /\ reader = Both("none")
    /\ wire = Both(<<>>) /\ inbox = Both(<<>>)
    /\ flaps = 0 /\ restarted = {} /\ sent = Both(<<>>) /\ got = Both(<<>>)

-----------------------------------------------------------------------------
(***************************************************************************)
(* Descriptions and connecting.                                            *)
(***************************************************************************)

\* emit_state: the state changes and the callback runs with it.
EmitState(p, s) ==
    /\ state' = [state EXCEPT ![p] = s]
    /\ told' = [told EXCEPT ![p] = s]

\* live binds its listener once and starts the accept thread.
OfferLive == accept' = "waiting" /\ UNCHANGED stream

\* webrtc creates its tracks and its data channels once.
OfferWebrtc == stream' = [stream EXCEPT !["offerer"] = "connecting"] /\ UNCHANGED accept

CreateOffer ==
    /\ ~closed["offerer"]
    /\ ~sdp["offerer"]
    /\ sdp' = [sdp EXCEPT !["offerer"] = TRUE]
    /\ CASE mode = "mock" -> UNCHANGED <<accept, stream>>
         [] mode = "live" -> OfferLive
         [] mode = "webrtc" -> OfferWebrtc
    /\ UNCHANGED <<mode, local_desc, remote_desc, conn, reader, wire, inbox, counts>>

\* create_answer needs the remote offer.
CreateAnswer ==
    /\ ~closed["answerer"]
    /\ ~sdp["answerer"]
    /\ remote_desc["answerer"] # "none"
    /\ sdp' = [sdp EXCEPT !["answerer"] = TRUE]
    /\ UNCHANGED <<mode, local_desc, remote_desc, conn, io, counts>>

\* try_connect: a mock peer with both descriptions is connected at once, and
\* takes the remote fingerprint from the remote description.
TryConnect(p, ldesc, rdesc, s) ==
    /\ IF ldesc[p] # "none" /\ rdesc[p] # "none"
       THEN /\ remote_fp' = [remote_fp EXCEPT ![p] = rdesc[p]]
            /\ EmitState(p, IF s \in {"connected", "closed", "disconnected"}
                            THEN s ELSE "connected")
       ELSE /\ UNCHANGED remote_fp
            /\ EmitState(p, s)
    /\ UNCHANGED io

\* attach_stream: Hello goes out first, then the reader thread starts.
AttachStream(p) ==
    /\ stream' = [stream EXCEPT ![p] = "open"]
    /\ wire' = [wire EXCEPT ![Other(p)] = Append(@, Hello)]
    /\ reader' = [reader EXCEPT ![p] = "run"]

\* finish_accept: the offerer waits for its accept thread.  A failed accept is
\* an error now and at every later try.
FinishAccept ==
    /\ accept # "waiting"
    /\ IF accept = "got"
       THEN accept' = "done" /\ AttachStream("offerer")
       ELSE UNCHANGED <<accept, stream, wire, reader>>
    /\ UNCHANGED inbox

\* dial_remote: the connection is made while the offerer's listener is there,
\* and refused when the accept thread has ended.
DialRemote ==
    /\ IF accept = "waiting"
       THEN accept' = "dialled" /\ AttachStream("answerer")
       ELSE UNCHANGED <<accept, stream, wire, reader>>
    /\ UNCHANGED inbox

\* try_establish: nothing to do once there is a stream, or before both
\* descriptions are known.
TryEstablish(p, ldesc, rdesc) ==
    IF stream[p] # "none" \/ ldesc[p] = "none" \/ rdesc[p] = "none"
    THEN UNCHANGED io
    ELSE IF p = "offerer" THEN FinishAccept ELSE DialRemote

\* The first description of a new peer makes it connecting, on every backend.
Begun(p) == IF state[p] = "new" THEN "connecting" ELSE state[p]

LocalMock(p) == TryConnect(p, local_desc', remote_desc, Begun(p))

LocalLive(p) ==
    /\ EmitState(p, Begun(p))
    /\ TryEstablish(p, local_desc', remote_desc)
    /\ UNCHANGED remote_fp

LocalWebrtc(p) ==
    /\ IF state[p] = "new" THEN EmitState(p, "connecting") ELSE UNCHANGED <<state, told>>
    /\ UNCHANGED <<remote_fp, io>>

SetLocalDescription(p) ==
    /\ ~closed[p]
    /\ sdp[p]
    /\ local_desc[p] = "none"
    /\ local_desc' = [local_desc EXCEPT ![p] = "own"]
    /\ CASE mode = "mock" -> LocalMock(p)
         [] mode = "live" -> LocalLive(p)
         [] mode = "webrtc" -> LocalWebrtc(p)
    /\ UNCHANGED <<mode, sdp, remote_desc, closed, expected_fp, counts>>

RemoteMock(p) ==
    /\ TryConnect(p, local_desc, remote_desc', Begun(p))
    /\ UNCHANGED expected_fp

\* apply_remote_sdp keeps the fingerprint Hello has to show.
RemoteLive(p, fp) ==
    /\ expected_fp' = [expected_fp EXCEPT ![p] = fp]
    /\ EmitState(p, Begun(p))
    /\ TryEstablish(p, local_desc, remote_desc')
    /\ UNCHANGED remote_fp

RemoteWebrtc(p, fp) ==
    /\ remote_fp' = [remote_fp EXCEPT ![p] = IF @ = "none" THEN fp ELSE @]
    /\ IF state[p] = "new" THEN EmitState(p, "connecting") ELSE UNCHANGED <<state, told>>
    /\ UNCHANGED <<expected_fp, io>>

\* fp is the fingerprint the description carries.
SetRemoteDescription(p, fp) ==
    /\ ~closed[p]
    /\ sdp[Other(p)]
    /\ remote_desc[p] = "none"
    /\ remote_desc' = [remote_desc EXCEPT ![p] = fp]
    /\ CASE mode = "mock" -> RemoteMock(p)
         [] mode = "live" -> RemoteLive(p, fp)
         [] mode = "webrtc" -> RemoteWebrtc(p, fp)
    /\ UNCHANGED <<mode, sdp, local_desc, closed, counts>>

IceMock(p) == mode = "mock" /\ TryConnect(p, local_desc, remote_desc, state[p])

IceLive(p) ==
    /\ mode = "live"
    /\ TryEstablish(p, local_desc, remote_desc)
    /\ UNCHANGED <<state, told, remote_fp>>

\* add_ice_candidate: a candidate is there once the other end has set its
\* local description.  Mock and live try to connect again.
AddIceCandidate(p) ==
    /\ ~closed[p]
    /\ local_desc[Other(p)] # "none"
    /\ IceMock(p) \/ IceLive(p)
    /\ UNCHANGED <<mode, descs, closed, expected_fp, counts>>

\* restart_ice: mock and live report connecting and connected again in one
\* call, which changes nothing; webrtc stays connecting until the runtime
\* reports a new state.
RestartIce(p) ==
    /\ ~closed[p]
    /\ mode = "webrtc"
    /\ state[p] = "connected"
    /\ Cardinality(restarted) < MaxRestart
    /\ restarted' = restarted \cup {p}
    /\ EmitState(p, "connecting")
    /\ UNCHANGED <<mode, descs, closed, expected_fp, remote_fp, io, flaps, sent, got>>

-----------------------------------------------------------------------------
(***************************************************************************)
(* The live backend's threads and the network under it.                    *)
(***************************************************************************)

\* The accept thread takes the pending connection.
AcceptConnection ==
    /\ accept = "dialled"
    /\ accept' = "got"
    /\ UNCHANGED <<mode, descs, conn, stream, reader, wire, inbox, counts>>

\* Its deadline, counted from create_offer, passes: the listener goes, and a
\* connection made after the last look at it is reset.
AcceptTimeout ==
    /\ accept \in {"waiting", "dialled"}
    /\ wire' = IF accept = "dialled"
               THEN [wire EXCEPT !["answerer"] = Append(@, Eof)] ELSE wire
    /\ accept' = "failed"
    /\ UNCHANGED <<mode, descs, conn, stream, reader, inbox, counts>>

\* reader_loop: one frame, or the end of the stream, which is reported as a
\* close; a Close frame does not end the thread.
Reader(p) ==
    /\ mode = "live"
    /\ reader[p] = "run"
    /\ wire[p] # <<>>
    /\ wire' = [wire EXCEPT ![p] = Tail(@)]
    /\ inbox' = [inbox EXCEPT ![p] =
           Append(@, IF Head(wire[p]) = Eof THEN CloseFrame ELSE Head(wire[p]))]
    /\ reader' = [reader EXCEPT ![p] = IF Head(wire[p]) = Eof THEN "done" ELSE @]
    /\ UNCHANGED <<mode, descs, conn, accept, stream, counts>>

\* The connection breaks: frames still under way are lost in both directions.
ConnectionReset ==
    /\ mode = "live"
    /\ \E p \in Peers : reader[p] = "run" /\ ~closed[p]
    /\ \E cut \in [Peers -> 0..2] :
          /\ \A p \in Peers : cut[p] <= Len(wire[p])
          /\ wire' = [p \in Peers |->
                 IF reader[p] = "run" \/ accept \in {"dialled", "got"}
                 THEN Append(SubSeq(wire[p], 1, Len(wire[p]) - cut[p]), Eof)
                 ELSE wire[p]]
    /\ \A p \in Peers : Eof \notin Range(wire[p])
    /\ UNCHANGED <<mode, descs, conn, accept, stream, reader, inbox, counts>>

-----------------------------------------------------------------------------
(***************************************************************************)
(* The runtime's threads under the webrtc backend.                         *)
(***************************************************************************)

Negotiated == \A p \in Peers : local_desc[p] # "none" /\ remote_desc[p] # "none"
Genuine == \A q \in Peers : remote_desc[q] = "own"

\* on_peer_connection_state_change: the shared state changes at once, the
\* callback is queued for poll.  It does not look at closed.
PcState(p, s) ==
    /\ mode = "webrtc"
    /\ state' = [state EXCEPT ![p] = s]
    /\ inbox' = [inbox EXCEPT ![p] = Append(@, StateEvent(s))]
    /\ UNCHANGED <<mode, descs, told, closed, expected_fp, remote_fp,
                   accept, stream, reader, wire, restarted, sent, got>>

\* ICE and DTLS complete once both ends have both descriptions and the
\* fingerprints in them are right; the one of the certificate DTLS ended with,
\* stored then and again by poll, is the description's.
PcConnected(p) ==
    /\ Negotiated /\ Genuine
    /\ ~closed[p] /\ ~closed[Other(p)]
    /\ state[p] \in {"connecting", "disconnected"}
    /\ PcState(p, "connected")
    /\ UNCHANGED flaps

\* Consent is lost because the other end is gone, or for a while.
PcDisconnected(p) ==
    /\ Negotiated /\ ~closed[p]
    /\ state[p] \in {"connecting", "connected"}
    /\ \/ closed[Other(p)] /\ UNCHANGED flaps
       \/ ~closed[Other(p)] /\ flaps < MaxFlap /\ flaps' = flaps + 1
    /\ PcState(p, "disconnected")

PcFailed(p) ==
    /\ ~closed[p]
    /\ state[p] = "disconnected"
    /\ PcState(p, "failed")
    /\ UNCHANGED flaps

\* What has upset the connection so far: it was lost for a while, restarted,
\* or reported on after a close.
Upsets ==
    flaps + Cardinality(restarted)
          + Cardinality({q \in Peers : closed[q] /\ inbox[q] # <<>>})

\* A callback the runtime had started runs only after close, in place of the
\* state close had set: the close itself, or what was found before it.
PcLate(p) ==
    /\ closed[p]
    /\ inbox[p] = <<>> /\ Upsets < MaxLate
    /\ \E s \in {"closed"}
               \cup (IF Negotiated THEN {"connecting", "disconnected", "failed"} ELSE {})
               \cup (IF Negotiated /\ Genuine THEN {"connected"} ELSE {}) :
           PcState(p, s)
    /\ UNCHANGED flaps

\* on_data_channel at the answerer, and a channel that opens: SCTP may lag
\* behind the connection state.
ChannelOpen(p) ==
    /\ mode = "webrtc"
    /\ ~closed[p]
    /\ stream[p] # "open"
    /\ state[p] = "connected"
    /\ stream' = [stream EXCEPT ![p] = "open"]
    /\ UNCHANGED <<mode, descs, conn, accept, reader, wire, inbox, counts>>

\* Mutant: the data channels are unordered.
OnMessageUnordered(p, i) ==
    /\ mode = "webrtc"
    /\ ~closed[p]
    /\ i \in 1..Len(wire[p])
    /\ inbox' = [inbox EXCEPT ![p] = Append(@, wire[p][i])]
    /\ wire' = [wire EXCEPT ![p] = RemoveAt(@, i)]
    /\ UNCHANGED <<mode, descs, conn, accept, stream, reader, counts>>

\* A message or a sample reaches the runtime, which queues it for poll.  Data
\* channels keep their order; a sample may overtake, or be lost.
OnMessage(p, i) ==
    /\ mode = "webrtc"
    /\ ~closed[p]
    /\ i \in 1..Len(wire[p])
    /\ LET Kind(j) == sent[Other(p)][wire[p][j].n] IN
       /\ \/ Kind(i) = "media"
          \/ \A j \in 1..(i - 1) : Kind(j) = "media"
       /\ \/ inbox' = [inbox EXCEPT ![p] = Append(@, wire[p][i])]
          \/ Kind(i) = "media" /\ UNCHANGED inbox
    /\ wire' = [wire EXCEPT ![p] = RemoveAt(@, i)]
    /\ UNCHANGED <<mode, descs, conn, accept, stream, reader, counts>>

-----------------------------------------------------------------------------
(***************************************************************************)
(* Sending, polling, closing.                                              *)
(***************************************************************************)

\* send_wire, send_frame: the senders, or the writer, must still be there.
StreamOpen(p) == stream[p] = "open"

\* webrtc's offerer sends media as RTP samples and does not wait for a channel.
SampleTrack(p, kind) ==
    mode = "webrtc" /\ kind = "media" /\ p = "offerer" /\ stream[p] # "none"

\* Anything else needs an open channel.
CanSend(p, kind) ==
    /\ ~closed[p]
    /\ state[p] = "connected"
    /\ StreamOpen(p) \/ SampleTrack(p, kind)

\* send_video_nalu, send_audio, send_data
Send(p, kind) ==
    /\ CanSend(p, kind)
    /\ Len(sent["offerer"]) + Len(sent["answerer"]) < MaxSend
    /\ mode # "webrtc" => kind = "data"    \* one path for both kinds
    /\ sent' = [sent EXCEPT ![p] = Append(@, kind)]
    /\ wire' = [wire EXCEPT ![Other(p)] =
           IF closed[Other(p)] THEN @ ELSE Append(@, Unit(Len(sent'[p])))]
    /\ UNCHANGED <<mode, descs, conn, accept, stream, reader, inbox, flaps, restarted, got>>

\* The numbers of the units in a queue.
Units(q) ==
    LET upTo[i \in 0..Len(q)] ==
            IF i = 0 THEN <<>>
            ELSE IF q[i].kind = "unit" THEN Append(upTo[i - 1], q[i].n) ELSE upTo[i - 1]
    IN  upTo[Len(q)]

\* Mutant: the senders' disappearance goes unnoticed.
PollMockOnly(p) ==
    /\ mode = "mock"
    /\ got' = [got EXCEPT ![p] = @ \o Units(wire[p])]
    /\ wire' = [wire EXCEPT ![p] = <<>>]
    /\ UNCHANGED <<state, told, remote_fp, accept, stream, reader, inbox>>

\* mock: everything in the channel, then the senders' disappearance.
PollMock(p) ==
    /\ mode = "mock"
    /\ got' = [got EXCEPT ![p] = @ \o Units(wire[p])]
    /\ wire' = [wire EXCEPT ![p] = <<>>]
    /\ EmitState(p, IF stream[p] = "shut" /\ state[p] \in {"connected", "connecting"}
                    THEN "disconnected" ELSE state[p])
    /\ UNCHANGED <<remote_fp, accept, stream, reader, inbox>>

\* A Hello that does not show the fingerprint of the remote description.
BadHello(p, f) == f = Hello /\ expected_fp[p] \notin {"none", "own"}

\* live: frame by frame up to a close, which ends the poll, or a bad Hello,
\* which is an error; the rest of the batch is dropped with either.
PollLive(p) ==
    LET q == inbox[p]
        stops == {i \in 1..Len(q) : q[i] = CloseFrame \/ BadHello(p, q[i])}
        n == IF stops = {} THEN Len(q) ELSE CHOOSE i \in stops : \A j \in stops : i <= j
        hello == \E i \in 1..n : q[i] = Hello /\ ~BadHello(p, q[i])
        up == IF hello /\ state[p] \notin {"closed", "disconnected"} THEN "connected" ELSE state[p]
        gone == IF stops = {} THEN reader[p] = "done" ELSE q[n] = CloseFrame
    IN /\ mode = "live"
       /\ reader[p] # "none"
       /\ got' = [got EXCEPT ![p] = @ \o Units(SubSeq(q, 1, n))]
       /\ remote_fp' = IF hello THEN [remote_fp EXCEPT ![p] = "own"] ELSE remote_fp
       /\ EmitState(p, IF gone /\ up \in {"connected", "connecting"} THEN "disconnected" ELSE up)
       /\ inbox' = [inbox EXCEPT ![p] = <<>>]
       /\ UNCHANGED <<accept, stream, reader, wire>>

\* webrtc: the queued callbacks run; the state is not touched.
PollWebrtc(p) ==
    LET states == {i \in 1..Len(inbox[p]) : inbox[p][i].kind = "state"}
        newest == CHOOSE i \in states : \A j \in states : j <= i
    IN /\ mode = "webrtc"
       /\ got' = [got EXCEPT ![p] = @ \o Units(inbox[p])]
       /\ told' = IF states = {} THEN told ELSE [told EXCEPT ![p] = inbox[p][newest].s]
       /\ inbox' = [inbox EXCEPT ![p] = <<>>]
       /\ UNCHANGED <<state, remote_fp, accept, stream, reader, wire>>

\* Mutant: webrtc's poll does not look at closed.
PollUnlessMock(p) ==
    /\ closed[p] => mode = "webrtc"
    /\ PollMock(p) \/ PollLive(p) \/ PollWebrtc(p)
    /\ UNCHANGED <<mode, descs, closed, expected_fp, flaps, restarted, sent>>

Poll(p) ==
    /\ ~closed[p]
    /\ PollMock(p) \/ PollLive(p) \/ PollWebrtc(p)
    /\ UNCHANGED <<mode, descs, closed, expected_fp, flaps, restarted, sent>>

\* drop_wire_senders: neither end can send any more.
CloseMock(p) == stream' = Both("shut") /\ wire' = [wire EXCEPT ![p] = <<>>]

\* shutdown_io: Close goes out, the socket is shut down and the threads are
\* joined, the accept thread too; a connection it had taken is dropped.
CloseLive(p) ==
    /\ stream' = [stream EXCEPT ![p] = "shut"]
    /\ wire' = [wire EXCEPT
           ![p] = <<>>,
           ![Other(p)] = IF stream[p] = "open" /\ Eof \notin Range(@)
                         THEN @ \o <<CloseFrame, Eof>>
                         ELSE IF p = "offerer" /\ accept = "got" THEN Append(@, Eof) ELSE @]

\* webrtc closes the connection.
CloseWebrtc(p) ==
    /\ stream' = [stream EXCEPT ![p] = "shut"]
    /\ wire' = [wire EXCEPT ![p] = <<>>]

Close(p) ==
    /\ ~closed[p]
    /\ p = "offerer" => accept \notin {"waiting", "dialled"}
    /\ closed' = [closed EXCEPT ![p] = TRUE]
    /\ EmitState(p, "closed")
    /\ inbox' = [inbox EXCEPT ![p] = <<>>]
    /\ reader' = [reader EXCEPT ![p] = IF @ = "none" THEN @ ELSE "done"]
    /\ accept' = IF p = "offerer" /\ accept = "got" THEN "failed" ELSE accept
    /\ CASE mode = "mock" -> CloseMock(p)
         [] mode = "live" -> CloseLive(p)
         [] mode = "webrtc" -> CloseWebrtc(p)
    /\ UNCHANGED <<mode, descs, expected_fp, remote_fp, counts>>

-----------------------------------------------------------------------------
Next ==
    \/ CreateOffer \/ CreateAnswer
    \/ AcceptConnection \/ AcceptTimeout \/ ConnectionReset
    \/ \E p \in Peers :
          \/ SetLocalDescription(p) \/ AddIceCandidate(p) \/ RestartIce(p)
          \/ \E fp \in Prints : SetRemoteDescription(p, fp)
          \/ Reader(p) \/ Poll(p) \/ Close(p)
          \/ PcConnected(p) \/ PcDisconnected(p) \/ PcFailed(p) \/ PcLate(p)
          \/ ChannelOpen(p)
          \/ \E i \in 1..Len(wire[p]) : OnMessage(p, i)
          \/ \E kind \in Kinds : Send(p, kind)

\* The threads run, the network reports a lost peer, and both owners poll.
Fairness ==
    /\ WF_vars(AcceptConnection)
    /\ \A p \in Peers :
          /\ WF_vars(Reader(p)) /\ WF_vars(Poll(p))
          /\ WF_vars(closed[Other(p)] /\ PcDisconnected(p))
          /\ WF_vars(\E i \in 1..Len(wire[p]) : OnMessage(p, i))

Spec == Init /\ [][Next]_vars /\ Fairness

-----------------------------------------------------------------------------
(***************************************************************************)
(* Properties.                                                             *)
(***************************************************************************)

\* Type correctness.
TypeOK ==
    /\ mode \in Modes
    /\ sdp \in [Peers -> BOOLEAN] /\ closed \in [Peers -> BOOLEAN]
    /\ local_desc \in [Peers -> {"none", "own"}]
    /\ {remote_desc, expected_fp, remote_fp} \subseteq [Peers -> {"none", "own", "stale"}]
    /\ state \in [Peers -> ConnectionState] /\ told \in [Peers -> ConnectionState]
    /\ accept \in {"none", "waiting", "dialled", "got", "failed", "done"}
    /\ stream \in [Peers -> {"none", "connecting", "open", "shut"}]
    /\ reader \in [Peers -> {"none", "run", "done"}]
    /\ wire \in [Peers -> Seq(Frames)] /\ inbox \in [Peers -> Seq(Frames)]
    /\ flaps \in 0..MaxFlap /\ restarted \subseteq Peers
    /\ sent \in [Peers -> Seq(Kinds)] /\ got \in [Peers -> Seq(1..MaxSend)]

\* What a peer's callbacks are given is what the other end sent, in order, once
\* and without a gap: over the mock channels, over a TCP connection whose Hello
\* was accepted, and over webrtc, where only samples may be lost or overtaken.
DeliveredInOrder ==
    \A p \in Peers : (mode = "live" => remote_fp[p] # "none") =>
        LET from == sent[Other(p)]
            Ordered(n) == mode = "webrtc" => from[n] = "data"
        IN  \A i \in 1..Len(got[p]) :
                /\ got[p][i] \in 1..Len(from)
                /\ \A j \in 1..(i - 1) : got[p][j] # got[p][i]
                /\ Ordered(got[p][i]) =>
                      \A n \in 1..(got[p][i] - 1) : Ordered(n) =>
                          \E j \in 1..(i - 1) : got[p][j] = n

\* A connected transport can tell whom it talks to, and over a TCP connection
\* that is the end whose description it was given: the identity messages of the
\* host and the viewer are computed from remote_fingerprint.
ConnectedKnowsPeer ==
    \A p \in Peers : state[p] = "connected" =>
        /\ remote_fp[p] # "none"
        /\ mode # "mock" => remote_fp[p] = "own" /\ remote_desc[p] = "own"

\* Once poll has drained the queue the owner's view of the connection is the
\* transport's own, except after an ICE restart.
CallbacksCatchUp ==
    \A p \in Peers :
        p \notin restarted /\ (\A i \in 1..Len(inbox[p]) : inbox[p][i].kind # "state")
            => told[p] = state[p]

\* A closed transport stays closed, calls nobody back and sends nothing,
\* whatever callback of the runtime is still to run.  Mock and live go on
\* saying so; what webrtc's connection_state() says is the last callback's.
ClosedIsFinal ==
    [][\A p \in Peers : closed[p] =>
          /\ closed'[p] /\ told'[p] = "closed"
          /\ got'[p] = got[p] /\ sent'[p] = sent[p]
          /\ mode # "webrtc" => state'[p] = "closed"]_vars

\* A connection that was lost is not used again on mock and live: only webrtc
\* comes back from disconnected.
LostIsLost ==
    [][\A p \in Peers : state[p] = "disconnected" /\ mode # "webrtc"
          => state'[p] \in {"disconnected", "closed"}]_vars

\* When one end closes, a connected other end finds out.
PeerLearnsOfClose ==
    \A p \in Peers :
        closed[Other(p)] /\ state[p] = "connected" /\ ~closed[p]
            ~> state[p] \in {"disconnected", "failed"} \/ closed[p]

\* Two ends with a TCP connection between them leave connecting, when the
\* descriptions were the right ones.
HandshakeEnds ==
    \A p \in Peers :
        mode = "live" /\ expected_fp[p] = "own" /\ stream = Both("open")
            ~> state[p] \in {"connected", "disconnected", "closed"}

\* Messages, the peer's fingerprint and the owner's view of the connection
\* are right on every transport.
TransportSound == TypeOK /\ DeliveredInOrder /\ ConnectedKnowsPeer /\ CallbacksCatchUp

\* Nothing comes back from the dead: closed stays closed, lost stays lost.
LossIsFinal == ClosedIsFinal /\ LostIsLost

\* Neither end waits for ever: for an end that closed, or for a handshake.
EndsInTime == PeerLearnsOfClose /\ HandshakeEnds
=============================================================================
