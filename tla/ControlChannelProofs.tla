----------------------- MODULE ControlChannelProofs -----------------------
(***************************************************************************)
(* Proofs about ControlChannel, for any number of clients, sessions and    *)
(* requests: what the service is told over the control connection is about *)
(* the request it sent, and the agent acts only for the connection it      *)
(* serves.  At the end, about PlatformInput: remote input keeps to its     *)
(* bounds and in step with the viewer.                                     *)
(*                                                                         *)
(* Neither end compares request numbers.  As long as a client has not      *)
(* given up a read, its stream is in step: a request, or what is left of   *)
(* its answer, is all there is on it (StreamInv).                          *)
(***************************************************************************)
EXTENDS ControlChannel, PlatformInput, SequenceTheorems, FiniteSetTheorems, TLAPS

Call == [st : {"idle", "reply", "drain"}, m : ControlMessage \cup {<<>>},
         reply : Replies \cup {<<>>}, out : Seq(Nat)]
Agent == [sid : Sid \cup {NoSid}, killed : BOOLEAN, media : BOOLEAN,
          by : Client \cup {NoClient}]

\* What is left of start_session's sequence.
Last1 == <<"start_media">>
Last2 == <<"set_policy", "start_media">>
Steps == {<<>>, Last1, Last2, BuildSessionStartSequence}
Left(steps) == IF steps = <<>> THEN 0 ELSE Len(steps) - 1

ChannelTypes ==
    /\ cfg \in Configs /\ listener \in {"up", "exited"} /\ pending \in BOOLEAN
    /\ queue \in Seq(Client)
    /\ link \in [Client -> {"down", "up", "lost", "closed"}]
    /\ toAgent \in [Client -> Seq([v : Nat, message : ControlMessage])]
    /\ toClient \in [Client -> Seq(Replies)]
    /\ call \in [Client -> Call] /\ todo \in [Client -> Steps]
    /\ result \in [Client -> {"none", "ok", "err"}]
    /\ count \in [Client -> Nat] /\ retries \in [Client -> Nat]
    /\ late \in [Client -> BOOLEAN] /\ torn \in [Client -> BOOLEAN]
    /\ serving \in Client \cup {NoClient}
    /\ agent \in Agent /\ sending \in Seq(Replies)

InQueue(c) == \E i \in 1 .. Len(queue) : queue[i] = c

\* A connection waits, then is served, then is gone; start_session has
\* reserved its requests.
LinkOf(c) ==
    /\ count[c] + Left(todo[c]) <= cfg.max_requests[c]
    /\ InQueue(c) => c # serving /\ link[c] \in {"up", "closed"}
    /\ serving = c => link[c] \in {"up", "closed"}
    /\ link[c] = "lost" => toAgent[c] = <<>>
    /\ link[c] = "down" => toAgent[c] = <<>> /\ toClient[c] = <<>>
    /\ link[c] \in {"down", "closed"} =>
          call[c].st = "idle" /\ todo[c] = <<>> /\ result[c] # "ok"

\* A client that reads its stream and never gave up a read on it.
InStep(c) == ~late[c] /\ link[c] # "closed"

After == {"signal", "drain_complete"}

\* Nothing is under way.
Quiet(c) == /\ toAgent[c] = <<>> /\ toClient[c] = <<>>
            /\ serving = c => sending = <<>>

\* The request is on its way, or the answer, or the rest of it.
Asked(c) ==
    toAgent[c] # <<>> =>
        /\ call[c].st = "reply" /\ Len(toAgent[c]) = 1
        /\ toAgent[c][1].message = call[c].m
        /\ toClient[c] = <<>> /\ (serving = c => sending = <<>>)

Received(c) ==
    \A i \in 1 .. Len(toClient[c]) :
        /\ toClient[c][i].id = call[c].m.id
        /\ toClient[c][i].kind = "drain_complete" =>
              i = Len(toClient[c]) /\ (serving = c => sending = <<>>)
        /\ call[c].st = "drain" \/ i > 1 => toClient[c][i].kind \in After
        /\ call[c].st = "reply" /\ i = 1 => toClient[c][i].kind # "drain_complete"

Coming(c) ==
    serving = c => \A i \in 1 .. Len(sending) :
        /\ sending[i].id = call[c].m.id
        /\ call[c].st = "drain" \/ toClient[c] # <<>> \/ i > 1 => sending[i].kind \in After
        /\ call[c].st = "reply" /\ toClient[c] = <<>> /\ i = 1
              => sending[i].kind # "drain_complete"

\* What has been read of the answer.
Read(c) ==
    /\ call[c].st = "reply" => call[c].out = <<>>
    /\ call[c].st = "drain" =>
        /\ call[c].reply \in Replies /\ call[c].reply.id = call[c].m.id
        /\ call[c].reply.kind # "drain_complete"
        /\ \A i \in 1 .. Len(call[c].out) : call[c].out[i] = call[c].m.id

Talking(c) == Asked(c) /\ Received(c) /\ Coming(c) /\ Read(c)

StreamOf(c) ==
    /\ torn[c] => late[c]
    /\ call[c].st # "idle" => call[c].m \in ControlMessage
    /\ InStep(c) => IF call[c].st = "idle" THEN Quiet(c) ELSE Talking(c)

\* The agent has acknowledged the request in progress.
Acked(c) ==
    /\ toAgent[c] = <<>>
    /\ IF call[c].st = "drain" THEN call[c].reply.kind = "ack"
       ELSE IF toClient[c] # <<>> THEN toClient[c][1].kind = "ack"
       ELSE sending # <<>> /\ sending[1].kind = "ack"

HasSession(c) == agent.sid = call[c].m.sid /\ ~agent.killed

\* start_session: each step is sent after the one before is acknowledged, so
\* the agent has done it.
StartOf(c) ==
    InStep(c) =>
        /\ todo[c] # <<>> => call[c].st # "idle" /\ call[c].m.method = todo[c][1]
        /\ InQueue(c) => /\ todo[c] \in {<<>>, BuildSessionStartSequence}
                         /\ result[c] # "ok" /\ call[c].st # "drain"
                         /\ toClient[c] = <<>>
        /\ result[c] = "ok" => todo[c] = <<>> /\ call[c].st = "idle" /\ call[c].m \in ControlMessage
        /\ serving = c =>
            /\ result[c] = "ok" => HasSession(c) /\ agent.media
            /\ todo[c] \in {Last1, Last2} => HasSession(c)
            /\ todo[c] # <<>> /\ Acked(c) => HasSession(c)
            /\ todo[c] = Last1 /\ Acked(c) => agent.media

\* An attach carries the secret of its service.
SecretOf(c) ==
    \A i \in 1 .. Len(toAgent[c]) :
        toAgent[c][i].message.method = "attach_session" =>
            toAgent[c][i].message.secret = cfg.secret[c]

ClientInv(c) == LinkOf(c) /\ StreamOf(c) /\ StartOf(c) /\ SecretOf(c)

\* The agent's side: who waits waits once, an answer ends with its sentinel,
\* and the agent session is the served connection's.
AgentInv ==
    /\ \A i, j \in 1 .. Len(queue) : queue[i] = queue[j] => i = j
    /\ \A i \in 1 .. Len(sending) : sending[i].kind = "drain_complete" => i = Len(sending)
    /\ serving = NoClient => agent = FreshAgent /\ sending = <<>>
    /\ SessionDiesWithConnection /\ UnprovenNeverActs

ChannelInv ==
    /\ ChannelTypes /\ AgentInv
    /\ \A c \in Client : ClientInv(c)

-----------------------------------------------------------------------------
\* A client no step concerns.

\* Its end of the stream is as it was.
Same(c) ==
    /\ link'[c] = link[c] /\ toAgent'[c] = toAgent[c] /\ toClient'[c] = toClient[c]
    /\ call'[c] = call[c] /\ todo'[c] = todo[c] /\ result'[c] = result[c]
    /\ count'[c] = count[c] /\ late'[c] = late[c] /\ torn'[c] = torn[c]

\* What holds of a client goes on holding while neither its stream nor, if it
\* is served, the agent changes.
LEMMA SameKeeps ==
    ASSUME NEW c \in Client, ClientInv(c), Same(c), cfg' = cfg,
           InQueue(c)' => InQueue(c),
           serving' = c <=> serving = c,
           serving = c => sending' = sending /\ agent' = agent
    PROVE  ClientInv(c)'
  <1>1. LinkOf(c)'
    BY DEF ClientInv, LinkOf, Same
  <1>2. StreamOf(c)'
    BY DEF ClientInv, StreamOf, Same, InStep, Quiet, Talking, Asked, Received, Coming, Read
  <1>3. StartOf(c)'
    BY DEF ClientInv, StartOf, Same, InStep, HasSession, Acked
  <1>4. SecretOf(c)'
    BY DEF ClientInv, SecretOf, Same
  <1> QED
    BY <1>1, <1>2, <1>3, <1>4 DEF ClientInv

-----------------------------------------------------------------------------
\* What the messages and the records are made of.

\* A message in its envelope.
LEMMA EnvelopeTypes ==
    ASSUME cfg \in Configs, NEW c \in Client, NEW m \in ControlMessage
    PROVE  /\ Envelope(c, m) \in [v : Nat, message : ControlMessage]
           /\ Envelope(c, m).message = m
  <1>1. cfg.version[c] \in Nat
    BY ControlAssumption DEF Config
  <1> QED
    BY <1>1 DEF Envelope

\* What the configuration says of a client.
LEMMA ConfigTypes ==
    ASSUME cfg \in Configs, NEW c \in Client
    PROVE  /\ cfg.max_requests[c] \in Nat
           /\ cfg.secret[c] \in {"none", "right", "wrong"}
           /\ cfg.expected \in BOOLEAN
  BY ControlAssumption DEF Config

\* The fields of a client's request in progress.
LEMMA CallTypes ==
    ASSUME ChannelTypes, NEW c \in Client
    PROVE  /\ call[c] \in Call
           /\ call[c].st \in {"idle", "reply", "drain"}
           /\ call[c].m \in ControlMessage \cup {<<>>}
           /\ call[c].reply \in Replies \cup {<<>>}
           /\ call[c].out \in Seq(Nat)
           /\ Idle \in Call /\ Idle.st = "idle" /\ Idle.m = <<>>
           /\ \A m \in ControlMessage \cup {<<>>} :
                 /\ [Idle EXCEPT !.m = m] \in Call
                 /\ [Idle EXCEPT !.m = m].st = "idle" /\ [Idle EXCEPT !.m = m].m = m
                 /\ [Idle EXCEPT !.st = "reply", !.m = m] \in Call
                 /\ [Idle EXCEPT !.st = "reply", !.m = m].st = "reply"
                 /\ [Idle EXCEPT !.st = "reply", !.m = m].m = m
           /\ Idle.out = <<>>
  <1>1. call[c] \in Call
    BY DEF ChannelTypes
  <1>2. <<>> \in Seq(Nat)
    OBVIOUS
  <1>3. Idle \in Call /\ Idle.st = "idle" /\ Idle.m = <<>>
    BY <1>2 DEF Idle, Call
  <1> QED
    BY <1>1, <1>2, <1>3 DEF Call, Idle

\* What is left of start_session's sequence.
LEMMA StepsTypes ==
    /\ <<>> \in Steps /\ Last1 \in Steps /\ Last2 \in Steps /\ BuildSessionStartSequence \in Steps
    /\ Left(<<>>) = 0 /\ Left(Last1) = 0 /\ Left(Last2) = 1
    /\ Left(BuildSessionStartSequence) = 2
    /\ Len(Last1) = 1 /\ Len(Last2) = 2 /\ Len(BuildSessionStartSequence) = 3
    /\ Last1 # <<>> /\ Last2 # <<>> /\ BuildSessionStartSequence # <<>>
    /\ Last1 # Last2 /\ Last1 # BuildSessionStartSequence /\ Last2 # BuildSessionStartSequence
    /\ Tail(BuildSessionStartSequence) = Last2 /\ Tail(Last2) = Last1
    /\ BuildSessionStartSequence[1] = "attach_session"
    /\ BuildSessionStartSequence[2] = "set_policy"
    /\ Last2[1] = "set_policy" /\ Last2[2] = "start_media" /\ Last1[1] = "start_media"
    /\ \A s \in Steps : /\ Left(s) \in Nat
                        /\ Len(s) > 1 => s \in {Last2, BuildSessionStartSequence}
                        /\ ~(Len(s) > 1) /\ s # <<>> => s = Last1
  <1>1. /\ Len(<<>>) = 0 /\ Len(Last1) = 1 /\ Len(Last2) = 2
        /\ Len(BuildSessionStartSequence) = 3
    BY DEF Last1, Last2, BuildSessionStartSequence
  <1>2. Last1 # <<>> /\ Last2 # <<>> /\ BuildSessionStartSequence # <<>>
    BY <1>1
  <1>3. Last1 # Last2 /\ Last1 # BuildSessionStartSequence /\ Last2 # BuildSessionStartSequence
    BY <1>1
  <1>4. Tail(BuildSessionStartSequence) = Last2 /\ Tail(Last2) = Last1
    BY DEF Last1, Last2, BuildSessionStartSequence
  <1>5. /\ BuildSessionStartSequence[1] = "attach_session"
        /\ BuildSessionStartSequence[2] = "set_policy"
        /\ Last2[1] = "set_policy" /\ Last2[2] = "start_media" /\ Last1[1] = "start_media"
    BY DEF Last1, Last2, BuildSessionStartSequence
  <1>6. /\ Left(<<>>) = 0 /\ Left(Last1) = 0 /\ Left(Last2) = 1
        /\ Left(BuildSessionStartSequence) = 2
    BY <1>1, <1>2 DEF Left
  <1>7. \A s \in Steps : /\ Left(s) \in Nat
                         /\ Len(s) > 1 => s \in {Last2, BuildSessionStartSequence}
                         /\ ~(Len(s) > 1) /\ s # <<>> => s = Last1
    <2> SUFFICES ASSUME NEW s \in Steps
                 PROVE  /\ Left(s) \in Nat
                        /\ Len(s) > 1 => s \in {Last2, BuildSessionStartSequence}
                        /\ ~(Len(s) > 1) /\ s # <<>> => s = Last1
      OBVIOUS
    <2>1. CASE s = <<>>
      BY <1>1, <1>6, <2>1
    <2>2. CASE s = Last1
      BY <1>1, <1>6, <2>2
    <2>3. CASE s = Last2
      <3>1. Len(s) = 2 /\ Left(s) = 1
        BY <1>1, <1>6, <2>3
      <3> QED
        BY <2>3, <3>1
    <2>4. CASE s = BuildSessionStartSequence
      BY <1>1, <1>6, <2>4
    <2> QED
      BY <2>1, <2>2, <2>3, <2>4 DEF Steps
  <1> QED
    BY <1>1, <1>2, <1>3, <1>4, <1>5, <1>6, <1>7 DEF Steps

\* One message on an empty stream.
LEMMA AppendFirst ==
    ASSUME NEW S, NEW e \in S
    PROVE  /\ Append(<<>>, e) \in Seq(S) /\ Append(<<>>, e) # <<>>
           /\ Len(Append(<<>>, e)) = 1 /\ Append(<<>>, e)[1] = e
  <1>1. <<>> \in Seq(S) /\ Len(<<>>) = 0
    OBVIOUS
  <1> QED
    BY <1>1, AppendProperties

-----------------------------------------------------------------------------
\* The client's steps.

\* A step of a client concerns nobody else.
LEMMA ClientStep ==
    ASSUME ChannelInv, NEW c \in Client, \A d \in Client \ {c} : Same(d),
           UNCHANGED <<cfg, queue, serving, agent, sending>>, ClientInv(c)'
    PROVE  AgentInv' /\ \A d \in Client : ClientInv(d)'
  <1>1. \A d : InQueue(d)' <=> InQueue(d)
    BY DEF InQueue
  <1>2. ASSUME NEW d \in Client, d # c PROVE ClientInv(d)'
    BY <1>1, <1>2, SameKeeps DEF ChannelInv
  <1>3. AgentInv'
    BY DEF ChannelInv, AgentInv, SessionDiesWithConnection, UnprovenNeverActs
  <1> QED
    BY <1>2, <1>3

\* A request is sent, alone or as the first of start_session.
LEMMA TransmitStep ==
    ASSUME ChannelInv, NEW c \in Client, NEW m \in ControlMessage, Transmit(c, m),
           call[c].st = "idle", link[c] \in {"up", "lost"},
           m.method = "attach_session" => m.secret = cfg.secret[c],
           result' = [result EXCEPT ![c] = "none"],
           todo[c] = <<>>,
           \/ todo' = todo /\ count[c] < cfg.max_requests[c]
           \/ /\ todo' = [todo EXCEPT ![c] = BuildSessionStartSequence]
              /\ count[c] + 3 <= cfg.max_requests[c]
              /\ m.method = "attach_session" /\ ~m.big /\ link[c] = "up"
    PROVE  ChannelInv'
  <1> DEFINE asking == [Idle EXCEPT !.st = "reply", !.m = m]
  <1>1. /\ asking \in Call /\ asking.st = "reply" /\ asking.m = m /\ asking.out = <<>>
    BY CallTypes DEF ChannelInv, Idle
  <1>2. Envelope(c, m) \in [v : Nat, message : ControlMessage] /\ Envelope(c, m).message = m
    BY EnvelopeTypes DEF ChannelInv, ChannelTypes
  <1> HIDE DEF asking
  <1>3. /\ count' = [count EXCEPT ![c] = count[c] + 1]
        /\ UNCHANGED <<cfg, listener, queue, pending, link, toClient, retries, late, torn,
                       serving, agent, sending>>
        /\ \/ /\ ~m.big /\ link[c] = "up" /\ call' = [call EXCEPT ![c] = asking]
              /\ toAgent' = [toAgent EXCEPT ![c] = Append(toAgent[c], Envelope(c, m))]
           \/ ~(~m.big /\ link[c] = "up") /\ UNCHANGED <<toAgent, call>>
    BY DEF Transmit, ValidateFieldLimits, listen, server, asking
  <1>4. ChannelTypes
    BY DEF ChannelInv
  <1>5. Append(toAgent[c], Envelope(c, m)) \in Seq([v : Nat, message : ControlMessage])
    BY <1>2, <1>4, AppendProperties DEF ChannelTypes
  <1>6. /\ \A d \in Client \ {c} : Same(d)
        /\ link'[c] = link[c] /\ toClient'[c] = toClient[c] /\ late'[c] = late[c]
        /\ torn'[c] = torn[c] /\ count'[c] = count[c] + 1 /\ result'[c] = "none"
        /\ todo'[c] = todo[c] \/ (todo'[c] = BuildSessionStartSequence /\ ~m.big /\ link[c] = "up")
    BY <1>3, <1>4 DEF ChannelTypes, Same
  <1>7. \/ /\ call'[c] = asking /\ link[c] = "up"
           /\ toAgent'[c] = Append(toAgent[c], Envelope(c, m))
        \/ /\ call'[c] = call[c] /\ toAgent'[c] = toAgent[c]
           /\ todo'[c] = <<>>
    BY <1>3, <1>4, <1>6 DEF ChannelTypes
  <1>8. ChannelTypes'
    <2>1. toAgent' \in [Client -> Seq([v : Nat, message : ControlMessage])]
      BY <1>3, <1>4, <1>5 DEF ChannelTypes
    <2>2. call' \in [Client -> Call]
      BY <1>1, <1>3, <1>4 DEF ChannelTypes
    <2>3. todo' \in [Client -> Steps]
      BY <1>4, StepsTypes DEF ChannelTypes
    <2>4. result' \in [Client -> {"none", "ok", "err"}]
      BY <1>4 DEF ChannelTypes
    <2>5. count' \in [Client -> Nat]
      <3>1. count[c] + 1 \in Nat
        BY <1>4 DEF ChannelTypes
      <3> QED
        BY <1>3, <1>4, <3>1 DEF ChannelTypes
    <2> QED
      BY <1>3, <1>4, <2>1, <2>2, <2>3, <2>4, <2>5 DEF ChannelTypes
  <1>9. LinkOf(c)'
    <2>1. count'[c] + Left(todo'[c]) <= cfg.max_requests[c]
      <3>1. \/ todo'[c] = <<>> /\ count[c] < cfg.max_requests[c]
            \/ todo'[c] = BuildSessionStartSequence /\ count[c] + 3 <= cfg.max_requests[c]
        BY <1>4, <1>6 DEF ChannelTypes
      <3> QED
        BY <1>4, <1>6, <3>1, StepsTypes, ConfigTypes, SMTT(30) DEF ChannelTypes
    <2>2. InQueue(c)' <=> InQueue(c)
      BY <1>3 DEF InQueue
    <2> QED
      BY <1>3, <1>6, <1>7, <2>1, <2>2 DEF ChannelInv, ClientInv, LinkOf
  <1>10. StreamOf(c)'
    <2>1. torn'[c] => late'[c]
      BY <1>6 DEF ChannelInv, ClientInv, StreamOf
    <2>2. ASSUME InStep(c)'
          PROVE  IF call'[c].st = "idle" THEN Quiet(c)' ELSE Talking(c)'
      <3>1. Quiet(c)
        BY <1>6, <2>2 DEF ChannelInv, ClientInv, StreamOf, InStep
      <3>2. CASE call'[c] = call[c] /\ toAgent'[c] = toAgent[c]
        BY <1>3, <1>6, <3>1, <3>2 DEF Quiet
      <3>3. CASE call'[c] = asking /\ toAgent'[c] = Append(toAgent[c], Envelope(c, m))
        <4>1. /\ toAgent'[c] # <<>> /\ Len(toAgent'[c]) = 1
              /\ toAgent'[c][1].message = m
          BY <1>2, <3>1, <3>3, AppendFirst DEF Quiet
        <4>2. toClient'[c] = <<>> /\ Len(<<>>) = 0 /\ (serving' = c => sending' = <<>>)
          BY <1>3, <1>6, <3>1 DEF Quiet
        <4> QED
          BY <1>1, <3>3, <4>1, <4>2 DEF Talking, Asked, Received, Coming, Read
      <3> QED
        BY <1>7, <3>2, <3>3
    <2>3. call'[c].st # "idle" => call'[c].m \in ControlMessage
      BY <1>1, <1>7
      DEF ChannelInv, ClientInv, StreamOf
    <2> QED
      BY <2>1, <2>2, <2>3 DEF StreamOf
  <1>11. StartOf(c)'
    <2> SUFFICES ASSUME InStep(c)' PROVE StartOf(c)'
      BY DEF StartOf
    <2>1. Quiet(c) /\ InStep(c)
      BY <1>6 DEF ChannelInv, ClientInv, StreamOf, InStep
    <2>2. InQueue(c)' <=> InQueue(c)
      BY <1>3 DEF InQueue
    <2>3. todo'[c] \in {<<>>, BuildSessionStartSequence}
      BY <1>6
    <2>4. todo'[c] # <<>> => /\ call'[c] = asking /\ ~Acked(c)'
                             /\ m.method = "attach_session"
      <3>1. CASE call'[c] = asking /\ toAgent'[c] = Append(toAgent[c], Envelope(c, m))
        <4>1. toAgent'[c] # <<>>
          BY <1>2, <2>1, <3>1, AppendFirst DEF Quiet
        <4> QED
          BY <1>4, <1>6, <3>1, <4>1 DEF Acked, ChannelTypes
      <3> QED
        BY <1>7, <3>1
    <2> QED
      BY <1>1, <1>6, <1>7, <2>1, <2>2, <2>3, <2>4, StepsTypes
      DEF ChannelInv, ClientInv, StartOf, Quiet
  <1>12. SecretOf(c)'
    <2>1. CASE toAgent'[c] = toAgent[c]
      BY <1>3, <2>1 DEF ChannelInv, ClientInv, SecretOf
    <2>2. CASE toAgent'[c] = Append(toAgent[c], Envelope(c, m))
      <3>1. \A i \in 1 .. Len(toAgent'[c]) :
                \/ i \in 1 .. Len(toAgent[c]) /\ toAgent'[c][i] = toAgent[c][i]
                \/ toAgent'[c][i] = Envelope(c, m)
        <4> DEFINE S == [v : Nat, message : ControlMessage]
        <4>1. toAgent[c] \in Seq(S) /\ Envelope(c, m) \in S
          BY <1>2, <1>4 DEF ChannelTypes
        <4> HIDE DEF S
        <4>2. Len(toAgent[c]) \in Nat
          BY <4>1
        <4> QED
          BY <2>2, <4>1, <4>2, AppendProperties
      <3> QED
        BY <1>2, <1>3, <3>1 DEF ChannelInv, ClientInv, SecretOf
    <2> QED
      BY <1>7, <2>1, <2>2
  <1>13. ClientInv(c)'
    BY <1>9, <1>10, <1>11, <1>12 DEF ClientInv
  <1> QED
    BY <1>3, <1>6, <1>8, <1>13, ClientStep DEF ChannelInv

\* The messages a service writes.
LEMMA MsgTypes ==
    ASSUME ChannelInv, NEW c \in Client, NEW method \in Methods,
           NEW sid \in Sid \cup {NoSid}, NEW big \in BOOLEAN
    PROVE  /\ Msg(c, method, sid, big) \in ControlMessage
           /\ Msg(c, method, sid, big).method = method
           /\ Msg(c, method, sid, big).sid = sid /\ Msg(c, method, sid, big).big = big
           /\ method = "attach_session" => Msg(c, method, sid, big).secret = cfg.secret[c]
  <1>1. count[c] + 1 \in Nat \ {0}
    BY DEF ChannelInv, ChannelTypes
  <1>2. cfg.secret[c] \in {"none", "right", "wrong"}
    BY ConfigTypes DEF ChannelInv, ChannelTypes
  <1> QED
    BY <1>1, <1>2 DEF Msg, ControlMessage

\* A request on its own.
LEMMA RequestStep ==
    ASSUME ChannelInv, NEW c \in Client, NEW r \in Requests[c],
           Request(c, r.method, r.sid, r.big)
    PROVE  ChannelInv'
  <1>1. r \in Wish
    BY ControlAssumption
  <1>2. r.method \in Methods /\ r.sid \in Sid \cup {NoSid} /\ r.big \in BOOLEAN
    BY <1>1 DEF Wish
  <1> DEFINE m == Msg(c, r.method, r.sid, r.big)
  <1>3. m \in ControlMessage /\ (m.method = "attach_session" => m.secret = cfg.secret[c])
    BY <1>2, MsgTypes
  <1> HIDE DEF m
  <1>4. /\ link[c] \in {"up", "lost"} /\ call[c].st = "idle" /\ todo[c] = <<>>
        /\ count[c] < cfg.max_requests[c] /\ todo' = todo
        /\ result' = [result EXCEPT ![c] = "none"] /\ Transmit(c, m)
    BY DEF Request, MayRequest, m
  <1> QED
    BY <1>3, <1>4, TransmitStep

\* start_session sends its first request.
LEMMA StartSessionStep ==
    ASSUME ChannelInv, NEW c \in Client, NEW sid \in Sid, StartSession(c, sid)
    PROVE  ChannelInv'
  <1> DEFINE m == Msg(c, "attach_session", sid, FALSE)
  <1>1. /\ m \in ControlMessage /\ m.method = "attach_session" /\ m.secret = cfg.secret[c]
        /\ m.big = FALSE
    <2>1. "attach_session" \in Methods /\ sid \in Sid \cup {NoSid}
      BY DEF Methods
    <2>2. \A big \in BOOLEAN : LET k == Msg(c, "attach_session", sid, big) IN
            /\ k \in ControlMessage /\ k.method = "attach_session"
            /\ k.secret = cfg.secret[c] /\ k.big = big
      BY <2>1, MsgTypes
    <2> QED
      BY <2>2
  <1> HIDE DEF m
  <1>2. /\ link[c] = "up" /\ call[c].st = "idle" /\ todo[c] = <<>>
        /\ count[c] + 3 <= cfg.max_requests[c]
        /\ todo' = [todo EXCEPT ![c] = BuildSessionStartSequence]
        /\ result' = [result EXCEPT ![c] = "none"] /\ Transmit(c, m)
    BY DEF StartSession, MayRequest, m
  <1> QED
    BY <1>1, <1>2, TransmitStep

\* A client out of step, or one that has just become so: its stream is not
\* looked at any more.
LEMMA OutOfStep ==
    ASSUME NEW c \in Client, ~InStep(c)', (torn[c] => late[c])',
           (call[c].st # "idle" => call[c].m \in ControlMessage)'
    PROVE  StreamOf(c)' /\ StartOf(c)'
  BY DEF StreamOf, StartOf

\* What a client that can read has before it.
LEMMA ReadableFacts ==
    ASSUME ChannelInv, NEW c \in Client, Readable(c)
    PROVE  /\ call[c].st \in {"reply", "drain"} /\ toClient[c] # <<>>
           /\ call[c].m \in ControlMessage /\ link[c] \notin {"down", "closed"}
           /\ toClient[c] \in Seq(Replies) /\ Head(toClient[c]) \in Replies
           /\ Head(toClient[c]) = toClient[c][1] /\ Len(toClient[c]) \in Nat
           /\ Len(toClient[c]) >= 1
           /\ Tail(toClient[c]) \in Seq(Replies)
           /\ Len(Tail(toClient[c])) = Len(toClient[c]) - 1
           /\ \A i \in 1 .. Len(Tail(toClient[c])) :
                 /\ i + 1 \in 1 .. Len(toClient[c]) /\ i + 1 > 1
                 /\ Tail(toClient[c])[i] = toClient[c][i + 1]
           /\ InStep(c) => Talking(c) /\ toAgent[c] = <<>> /\ ~InQueue(c)
  <1>1. call[c].st \in {"reply", "drain"} /\ toClient[c] # <<>>
    BY DEF Readable
  <1>2. call[c].m \in ControlMessage /\ link[c] \notin {"down", "closed"}
    BY <1>1 DEF ChannelInv, ClientInv, StreamOf, LinkOf
  <1>3. toClient[c] \in Seq(Replies)
    BY DEF ChannelInv, ChannelTypes
  <1>4. /\ Head(toClient[c]) \in Replies /\ Tail(toClient[c]) \in Seq(Replies)
        /\ Len(Tail(toClient[c])) = Len(toClient[c]) - 1
        /\ \A i \in 1 .. Len(Tail(toClient[c])) : Tail(toClient[c])[i] = toClient[c][i + 1]
    BY <1>1, <1>3, HeadTailProperties
  <1>5. /\ Head(toClient[c]) = toClient[c][1] /\ Len(toClient[c]) \in Nat
        /\ Len(toClient[c]) >= 1
    BY <1>1, <1>3
  <1>6. InStep(c) => Talking(c)
    BY <1>1 DEF ChannelInv, ClientInv, StreamOf
  <1>7. InStep(c) => toAgent[c] = <<>>
    BY <1>1, <1>6 DEF Talking, Asked
  <1>8. InStep(c) => ~InQueue(c)
    BY <1>1 DEF ChannelInv, ClientInv, StartOf
  <1>9. \A i \in 1 .. Len(Tail(toClient[c])) : i + 1 \in 1 .. Len(toClient[c]) /\ i + 1 > 1
    BY <1>4, <1>5
  <1> QED
    BY <1>1, <1>2, <1>3, <1>4, <1>5, <1>6, <1>7, <1>8, <1>9

\* The first message of an answer is read: the reply.
LEMMA RecvReplyStep ==
    ASSUME ChannelInv, NEW c \in Client, RecvReply(c)
    PROVE  ChannelInv'
  <1> DEFINE r == Head(toClient[c])
             rest == Tail(toClient[c])
             got == [call[c] EXCEPT !.st = "drain", !.reply = r]
  <1>1. Readable(c) /\ call[c].st = "reply"
    BY DEF RecvReply
  <1>2. /\ r \in Replies /\ r = toClient[c][1] /\ rest \in Seq(Replies)
        /\ Len(toClient[c]) \in Nat /\ 1 \in 1 .. Len(toClient[c])
        /\ Len(rest) = Len(toClient[c]) - 1
        /\ \A i \in 1 .. Len(rest) : /\ i + 1 \in 1 .. Len(toClient[c]) /\ i + 1 > 1
                                     /\ rest[i] = toClient[c][i + 1]
        /\ call[c].m \in ControlMessage /\ toClient[c] # <<>>
        /\ link[c] \notin {"down", "closed"}
        /\ InStep(c) => Talking(c) /\ toAgent[c] = <<>> /\ ~InQueue(c)
    BY <1>1, ReadableFacts
  <1>3. ChannelTypes
    BY DEF ChannelInv
  <1>4. /\ got \in Call /\ got.st = "drain" /\ got.reply = r /\ got.m = call[c].m
        /\ got.out = call[c].out
    <2> HIDE DEF r
    <2>1. call[c] \in Call
      BY <1>3, CallTypes
    <2> QED
      BY <1>2, <2>1 DEF Call
  <1>5. /\ call' = [call EXCEPT ![c] = got] /\ toClient' = [toClient EXCEPT ![c] = rest]
        /\ UNCHANGED <<cfg, listener, queue, pending, link, toAgent, retries, late, torn,
                       serving, agent, sending, todo, result, count>>
    BY <1>3 DEF RecvReply, Consume, listen, server, ChannelTypes
  <1> HIDE DEF r, rest, got
  <1>6. ChannelTypes'
    BY <1>2, <1>3, <1>4, <1>5 DEF ChannelTypes
  <1>7. /\ \A d \in Client \ {c} : Same(d)
        /\ call'[c] = got /\ toClient'[c] = rest /\ toAgent'[c] = toAgent[c]
        /\ link'[c] = link[c] /\ todo'[c] = todo[c] /\ result'[c] = result[c]
        /\ count'[c] = count[c] /\ late'[c] = late[c] /\ torn'[c] = torn[c]
    BY <1>3, <1>5 DEF ChannelTypes, Same
  <1>8. (InQueue(c)' <=> InQueue(c)) /\ (InStep(c)' <=> InStep(c))
    BY <1>5, <1>7 DEF InQueue, InStep
  <1>9. LinkOf(c)' /\ SecretOf(c)'
    BY <1>2, <1>5, <1>7, <1>8 DEF ChannelInv, ClientInv, LinkOf, SecretOf
  <1>10. StreamOf(c)'
    <2>1. ASSUME InStep(c) PROVE Talking(c)'
      <3>1. Talking(c) /\ toAgent[c] = <<>>
        BY <1>2, <2>1
      <3>2. Asked(c)'
        BY <1>7, <3>1 DEF Asked
      <3>3. Received(c)'
        BY <1>1, <1>2, <1>4, <1>5, <1>7, <3>1 DEF Talking, Received
      <3>4. Coming(c)'
        BY <1>2, <1>4, <1>5, <1>7, <3>1 DEF Talking, Coming
      <3>5. r.id = call[c].m.id /\ r.kind # "drain_complete"
        BY <1>1, <1>2, <3>1 DEF Talking, Received
      <3>6. call[c].out = <<>> /\ Len(<<>>) = 0
        BY <1>1, <3>1 DEF Talking, Read
      <3>7. Read(c)'
        BY <1>2, <1>4, <1>7, <3>5, <3>6 DEF Read
      <3> QED
        BY <1>2, <1>4, <1>7, <3>2, <3>3, <3>4, <3>7 DEF Talking
    <2> QED
      BY <1>2, <1>4, <1>7, <1>8, <2>1 DEF ChannelInv, ClientInv, StreamOf
  <1>11. StartOf(c)'
    <2> SUFFICES ASSUME InStep(c) PROVE StartOf(c)'
      BY <1>8 DEF StartOf
    <2>1. Acked(c)' => Acked(c)
      BY <1>1, <1>2, <1>4, <1>7 DEF Acked
    <2>2. HasSession(c)' <=> HasSession(c)
      BY <1>4, <1>5, <1>7 DEF HasSession
    <2>3. result[c] # "ok"
      BY <1>1 DEF ChannelInv, ClientInv, StartOf
    <2> QED
      BY <1>1, <1>2, <1>4, <1>5, <1>7, <1>8, <2>1, <2>2, <2>3
      DEF ChannelInv, ClientInv, StartOf
  <1>12. ClientInv(c)'
    BY <1>9, <1>10, <1>11 DEF ClientInv
  <1> QED
    BY <1>5, <1>6, <1>7, <1>12, ClientStep DEF ChannelInv

\* A signal of the answer is read.
LEMMA RecvOutboundStep ==
    ASSUME ChannelInv, NEW c \in Client, RecvOutbound(c)
    PROVE  ChannelInv'
  <1> DEFINE r == Head(toClient[c])
             rest == Tail(toClient[c])
             out == Append(call[c].out, r.id)
             got == [call[c] EXCEPT !.out = out]
  <1>1. Readable(c) /\ call[c].st = "drain"
    BY DEF RecvOutbound
  <1>2. /\ r \in Replies /\ r = toClient[c][1] /\ rest \in Seq(Replies)
        /\ Len(toClient[c]) \in Nat /\ 1 \in 1 .. Len(toClient[c])
        /\ Len(rest) = Len(toClient[c]) - 1
        /\ \A i \in 1 .. Len(rest) : /\ i + 1 \in 1 .. Len(toClient[c]) /\ i + 1 > 1
                                     /\ rest[i] = toClient[c][i + 1]
        /\ call[c].m \in ControlMessage /\ toClient[c] # <<>>
        /\ link[c] \notin {"down", "closed"}
        /\ InStep(c) => Talking(c) /\ toAgent[c] = <<>> /\ ~InQueue(c)
    BY <1>1, ReadableFacts
  <1>3. ChannelTypes
    BY DEF ChannelInv
  <1>4. /\ call' = [call EXCEPT ![c] = got] /\ toClient' = [toClient EXCEPT ![c] = rest]
        /\ UNCHANGED <<cfg, listener, queue, pending, link, toAgent, retries, late, torn,
                       serving, agent, sending, todo, result, count>>
    BY <1>3 DEF RecvOutbound, Consume, listen, server, ChannelTypes
  <1> HIDE DEF r, rest
  <1>5. /\ out \in Seq(Nat) /\ Len(call[c].out) \in Nat /\ Len(out) = Len(call[c].out) + 1
        /\ \A i \in 1 .. Len(call[c].out) : out[i] = call[c].out[i]
        /\ out[Len(call[c].out) + 1] = r.id
    <2>1. r.id \in Nat
      BY <1>2 DEF Replies
    <2>2. call[c].out \in Seq(Nat)
      BY <1>3, CallTypes
    <2>3. Len(call[c].out) \in Nat
      BY <2>2
    <2> QED
      BY <2>1, <2>2, <2>3, AppendProperties
  <1> HIDE DEF out
  <1>6. /\ got \in Call /\ got.st = "drain" /\ got.reply = call[c].reply
        /\ got.m = call[c].m /\ got.out = out
    <2>1. call[c] \in Call
      BY <1>3, CallTypes
    <2> QED
      BY <1>1, <1>5, <2>1 DEF Call
  <1> HIDE DEF got
  <1>7. ChannelTypes'
    BY <1>2, <1>3, <1>4, <1>6 DEF ChannelTypes
  <1>8. /\ \A d \in Client \ {c} : Same(d)
        /\ call'[c] = got /\ toClient'[c] = rest /\ toAgent'[c] = toAgent[c]
        /\ link'[c] = link[c] /\ todo'[c] = todo[c] /\ result'[c] = result[c]
        /\ count'[c] = count[c] /\ late'[c] = late[c] /\ torn'[c] = torn[c]
    BY <1>3, <1>4 DEF ChannelTypes, Same
  <1>9. (InQueue(c)' <=> InQueue(c)) /\ (InStep(c)' <=> InStep(c))
    BY <1>4, <1>8 DEF InQueue, InStep
  <1>10. LinkOf(c)' /\ SecretOf(c)'
    BY <1>2, <1>4, <1>8, <1>9 DEF ChannelInv, ClientInv, LinkOf, SecretOf
  <1>11. StreamOf(c)'
    <2>1. ASSUME InStep(c) PROVE Talking(c)'
      <3>1. Talking(c) /\ toAgent[c] = <<>>
        BY <1>2, <2>1
      <3>2. Asked(c)'
        BY <1>8, <3>1 DEF Asked
      <3>3. Received(c)'
        <4>1. ASSUME NEW i \in 1 .. Len(rest)
              PROVE  /\ rest[i].id = call[c].m.id
                     /\ rest[i].kind = "drain_complete" =>
                           i = Len(rest) /\ (serving = c => sending = <<>>)
                     /\ rest[i].kind \in After
          <5>1. /\ i + 1 \in 1 .. Len(toClient[c]) /\ i + 1 > 1
                /\ rest[i] = toClient[c][i + 1]
            BY <1>2
          <5>2. i + 1 = Len(toClient[c]) => i = Len(rest)
            BY <1>2
          <5> QED
            BY <3>1, <5>1, <5>2 DEF Talking, Received
        <4> QED
          BY <1>4, <1>6, <1>8, <4>1 DEF Received
      <3>4. Coming(c)'
        BY <1>1, <1>4, <1>6, <1>8, <3>1 DEF Talking, Coming
      <3>5. r.id = call[c].m.id
        BY <1>1, <1>2, <3>1 DEF Talking, Received
      <3>6. \A i \in 1 .. Len(out) : i \in 1 .. Len(call[c].out) \/ i = Len(call[c].out) + 1
        BY <1>5
      <3>7. \A i \in 1 .. Len(out) : out[i] = call[c].m.id
        BY <1>1, <1>5, <3>1, <3>5, <3>6 DEF Talking, Read
      <3>8. Read(c)'
        BY <1>1, <1>6, <1>8, <3>1, <3>7 DEF Talking, Read
      <3> QED
        BY <3>2, <3>3, <3>4, <3>8 DEF Talking
    <2> QED
      BY <1>2, <1>6, <1>8, <1>9, <2>1 DEF ChannelInv, ClientInv, StreamOf
  <1>12. StartOf(c)'
    <2> SUFFICES ASSUME InStep(c) PROVE StartOf(c)'
      BY <1>9 DEF StartOf
    <2>1. Acked(c)' => Acked(c)
      BY <1>1, <1>6, <1>8 DEF Acked
    <2>2. HasSession(c)' <=> HasSession(c)
      BY <1>4, <1>6, <1>8 DEF HasSession
    <2>3. result[c] # "ok"
      BY <1>1 DEF ChannelInv, ClientInv, StartOf
    <2> QED
      BY <1>1, <1>2, <1>4, <1>6, <1>8, <1>9, <2>1, <2>2, <2>3
      DEF ChannelInv, ClientInv, StartOf
  <1>13. ClientInv(c)'
    BY <1>10, <1>11, <1>12 DEF ClientInv
  <1> QED
    BY <1>4, <1>7, <1>8, <1>13, ClientStep DEF ChannelInv

\* What Err leaves of the request.
LEMMA ErrEffect ==
    ASSUME ChannelTypes, NEW c \in Client, Err(c)
    PROVE  /\ call' \in [Client -> Call] /\ todo' \in [Client -> Steps]
           /\ result' \in [Client -> {"none", "ok", "err"}]
           /\ call'[c] = Idle /\ todo'[c] = <<>>
           /\ result'[c] \in {"err", result[c]}
           /\ todo[c] # <<>> => result'[c] = "err"
           /\ \A d \in Client \ {c} : /\ call'[d] = call[d] /\ todo'[d] = todo[d]
                                      /\ result'[d] = result[d]
  BY CallTypes, StepsTypes DEF Err, ChannelTypes

\* The request failed for its client; the stream holds nothing, or the client
\* has become out of step.
LEMMA FailedStep ==
    ASSUME ChannelInv, NEW c \in Client, Err(c), call[c].st # "idle",
           \A d \in Client \ {c} : late'[d] = late[d] /\ torn'[d] = torn[d],
           late' \in [Client -> BOOLEAN], torn' \in [Client -> BOOLEAN],
           torn'[c] => late'[c], late[c] => late'[c],
           UNCHANGED <<cfg, listener, queue, pending, link, toAgent, retries,
                       serving, agent, sending>>,
           toClient' \in [Client -> Seq(Replies)],
           \A d \in Client \ {c} : toClient'[d] = toClient[d],
           count' \in [Client -> Nat], \A d \in Client \ {c} : count'[d] = count[d],
           count'[c] <= count[c] + Left(todo[c]),
           InStep(c)' => Quiet(c)'
    PROVE  ChannelInv'
  <1>1. ChannelTypes
    BY DEF ChannelInv
  <1>2. /\ call' \in [Client -> Call] /\ todo' \in [Client -> Steps]
        /\ result' \in [Client -> {"none", "ok", "err"}]
        /\ call'[c] = Idle /\ todo'[c] = <<>>
        /\ result'[c] \in {"err", result[c]}
        /\ \A d \in Client \ {c} : /\ call'[d] = call[d] /\ todo'[d] = todo[d]
                                   /\ result'[d] = result[d]
    BY <1>1, ErrEffect
  <1>3. ChannelTypes'
    BY <1>1, <1>2 DEF ChannelTypes
  <1>4. \A d \in Client \ {c} : Same(d)
    BY <1>2 DEF Same
  <1>5. InQueue(c)' <=> InQueue(c)
    BY DEF InQueue
  <1>6. Idle.st = "idle"
    BY DEF Idle
  <1>7. LinkOf(c)'
    <2>1. count'[c] + Left(todo'[c]) <= cfg.max_requests[c]
      <3>1. Left(todo[c]) \in Nat /\ count[c] \in Nat /\ count'[c] \in Nat
        BY <1>1, StepsTypes DEF ChannelTypes
      <3>2. count[c] + Left(todo[c]) <= cfg.max_requests[c] /\ cfg.max_requests[c] \in Nat
        BY <1>1, ConfigTypes DEF ChannelInv, ClientInv, LinkOf, ChannelTypes
      <3> QED
        BY <1>2, <3>1, <3>2, StepsTypes
    <2> QED
      BY <1>2, <1>5, <2>1 DEF ChannelInv, ClientInv, LinkOf
  <1>8. StreamOf(c)'
    BY <1>2, <1>6 DEF StreamOf
  <1>9. StartOf(c)'
    <2> SUFFICES ASSUME InStep(c)' PROVE StartOf(c)'
      BY DEF StartOf
    <2>1. InStep(c) /\ result[c] # "ok"
      BY <1>1 DEF ChannelInv, ClientInv, StartOf, InStep, ChannelTypes
    <2>2. toClient'[c] = <<>>
      BY DEF Quiet
    <2> QED
      BY <1>2, <1>5, <1>6, <2>1, <2>2, StepsTypes DEF StartOf
  <1>10. SecretOf(c)'
    BY DEF ChannelInv, ClientInv, SecretOf
  <1>11. ClientInv(c)'
    BY <1>7, <1>8, <1>9, <1>10 DEF ClientInv
  <1> QED
    BY <1>3, <1>4, <1>11, ClientStep DEF ChannelInv

\* Something else than the rest of an answer is read: that happens only to a
\* client out of step.
LEMMA RecvProtocolErrorStep ==
    ASSUME ChannelInv, NEW c \in Client, RecvProtocolError(c)
    PROVE  ChannelInv'
  <1>1. ChannelTypes
    BY DEF ChannelInv
  <1>2. /\ Readable(c) /\ Err(c) /\ call[c].st # "idle"
        /\ UNCHANGED <<cfg, listener, queue, pending, link, toAgent, retries, late, torn,
                       serving, agent, sending, count>>
        /\ toClient' = [toClient EXCEPT ![c] = Tail(toClient[c])]
    BY DEF RecvProtocolError, Consume, listen, server, Readable
  <1>3. ~InStep(c)
    <2> SUFFICES ASSUME InStep(c) PROVE FALSE
      OBVIOUS
    <2>1. /\ Talking(c) /\ Head(toClient[c]) = toClient[c][1]
          /\ Len(toClient[c]) \in Nat /\ Len(toClient[c]) >= 1
      BY <1>2, ReadableFacts
    <2>2. ~torn[c]
      BY DEF InStep, ChannelInv, ClientInv, StreamOf
    <2>3. /\ call[c].st = "drain"
          /\ Head(toClient[c]).kind \in {"ack", "error", "auth_failed"}
      BY <2>2 DEF RecvProtocolError
    <2>4. 1 \in 1 .. Len(toClient[c])
      BY <2>1
    <2> QED
      BY <2>1, <2>3, <2>4 DEF Talking, Received, After
  <1>4. Tail(toClient[c]) \in Seq(Replies)
    BY <1>2, ReadableFacts
  <1>5. /\ toClient' \in [Client -> Seq(Replies)]
        /\ \A d \in Client \ {c} : toClient'[d] = toClient[d]
    BY <1>1, <1>2, <1>4 DEF ChannelTypes
  <1>6. /\ late \in [Client -> BOOLEAN] /\ torn \in [Client -> BOOLEAN]
        /\ count \in [Client -> Nat] /\ (torn[c] => late[c])
    BY <1>1 DEF ChannelTypes, ChannelInv, ClientInv, StreamOf
  <1>7. count[c] <= count[c] + Left(todo[c])
    <2>1. count[c] \in Nat /\ Left(todo[c]) \in Nat
      BY <1>1, StepsTypes DEF ChannelTypes
    <2> QED
      BY <2>1
  <1>8. ~InStep(c)'
    BY <1>2, <1>3 DEF InStep
  <1> QED
    BY <1>2, <1>5, <1>6, <1>7, <1>8, FailedStep

\* A read is given up.
LEMMA ReadTimeoutStep ==
    ASSUME ChannelInv, NEW c \in Client, ReadTimeout(c)
    PROVE  ChannelInv'
  <1>1. ChannelTypes
    BY DEF ChannelInv
  <1>2. /\ Err(c) /\ call[c].st # "idle"
        /\ UNCHANGED <<cfg, listener, queue, pending, link, toAgent, toClient, retries,
                       serving, agent, sending, count>>
        /\ late' = [late EXCEPT ![c] = TRUE]
        /\ torn' \in {torn, [torn EXCEPT ![c] = TRUE]}
    BY DEF ReadTimeout, listen, server
  <1>3. /\ late' \in [Client -> BOOLEAN] /\ torn' \in [Client -> BOOLEAN] /\ late'[c]
        /\ \A d \in Client \ {c} : late'[d] = late[d] /\ torn'[d] = torn[d]
    BY <1>1, <1>2 DEF ChannelTypes
  <1>4. ~InStep(c)'
    BY <1>3 DEF InStep
  <1>5. count[c] <= count[c] + Left(todo[c])
    <2>1. count[c] \in Nat /\ Left(todo[c]) \in Nat
      BY <1>1, StepsTypes DEF ChannelTypes
    <2> QED
      BY <2>1
  <1>6. toClient \in [Client -> Seq(Replies)] /\ count \in [Client -> Nat]
    BY <1>1 DEF ChannelTypes
  <1> QED
    BY <1>2, <1>3, <1>4, <1>5, <1>6, FailedStep

\* The agent has dropped the connection.
LEMMA RecvEofStep ==
    ASSUME ChannelInv, NEW c \in Client, RecvEof(c)
    PROVE  ChannelInv'
  <1>1. ChannelTypes
    BY DEF ChannelInv
  <1>2. /\ Err(c) /\ call[c].st # "idle" /\ toClient[c] = <<>> /\ link[c] = "lost"
        /\ UNCHANGED <<cfg, listener, queue, pending, link, toAgent, toClient, retries,
                       late, torn, serving, agent, sending, count>>
    BY DEF RecvEof, listen, server
  <1>3. Quiet(c)'
    BY <1>2 DEF Quiet, ChannelInv, ClientInv, LinkOf
  <1>4. /\ late \in [Client -> BOOLEAN] /\ torn \in [Client -> BOOLEAN]
        /\ count \in [Client -> Nat] /\ (torn[c] => late[c])
        /\ toClient \in [Client -> Seq(Replies)]
    BY <1>1 DEF ChannelTypes, ChannelInv, ClientInv, StreamOf
  <1>5. count[c] <= count[c] + Left(todo[c])
    <2>1. count[c] \in Nat /\ Left(todo[c]) \in Nat
      BY <1>1, StepsTypes DEF ChannelTypes
    <2> QED
      BY <2>1
  <1> QED
    BY <1>2, <1>3, <1>4, <1>5, FailedStep

\* The sentinel is the last of an answer: nothing is left on the stream.
LEMMA SentinelIsLast ==
    ASSUME ChannelInv, NEW c \in Client, Readable(c), InStep(c), call[c].st = "drain",
           Head(toClient[c]).kind = "drain_complete"
    PROVE  /\ Tail(toClient[c]) = <<>> /\ toAgent[c] = <<>>
           /\ serving = c => sending = <<>>
  <1>1. /\ Talking(c) /\ toAgent[c] = <<>> /\ Head(toClient[c]) = toClient[c][1]
        /\ Len(toClient[c]) \in Nat /\ Len(toClient[c]) >= 1
        /\ Tail(toClient[c]) \in Seq(Replies)
        /\ Len(Tail(toClient[c])) = Len(toClient[c]) - 1
    BY ReadableFacts
  <1>2. 1 \in 1 .. Len(toClient[c])
    BY <1>1
  <1>3. Len(toClient[c]) = 1 /\ (serving = c => sending = <<>>)
    BY <1>1, <1>2 DEF Talking, Received
  <1>4. Tail(toClient[c]) = <<>>
    <2>1. Len(Tail(toClient[c])) = 0
      BY <1>1, <1>3
    <2> QED
      BY <1>1, <2>1, EmptySeq
  <1> QED
    BY <1>1, <1>3, <1>4

\* start_session goes on with its next request.
LEMMA NextRequestStep ==
    ASSUME ChannelInv, NEW c \in Client, Readable(c), call[c].st = "drain",
           Head(toClient[c]).kind = "drain_complete",
           todo[c] \in {Last2, BuildSessionStartSequence},
           call[c].reply.kind = "ack", link[c] = "up",
           NEW m, m = Msg(c, todo[c][2], call[c].m.sid, FALSE),
           toClient' = [toClient EXCEPT ![c] = Tail(toClient[c])],
           toAgent' = [toAgent EXCEPT ![c] = Append(toAgent[c], Envelope(c, m))],
           call' = [call EXCEPT ![c] = [Idle EXCEPT !.st = "reply", !.m = m]],
           todo' = [todo EXCEPT ![c] = Tail(todo[c])],
           count' = [count EXCEPT ![c] = count[c] + 1],
           UNCHANGED <<cfg, listener, queue, pending, link, retries, late, torn,
                       serving, agent, sending, result>>
    PROVE  ChannelInv'
  <1> DEFINE asking == [Idle EXCEPT !.st = "reply", !.m = m]
             S == [v : Nat, message : ControlMessage]
             sent == Append(toAgent[c], Envelope(c, m))
             rest == Tail(toClient[c])
             left == Tail(todo[c])
  <1>1. ChannelTypes
    BY DEF ChannelInv
  <1>2. /\ call[c].m \in ControlMessage /\ rest \in Seq(Replies)
        /\ InStep(c) => ~InQueue(c)
    BY ReadableFacts
  <1>3. /\ todo[c][2] \in {"set_policy", "start_media"} /\ todo[c][2] \in Methods
        /\ left \in {Last1, Last2} /\ left[1] = todo[c][2] /\ left # <<>>
        /\ Left(left) + 1 = Left(todo[c]) /\ Left(left) \in Nat
    <2>1. CASE todo[c] = Last2
      <3>1. left = Last1 /\ todo[c][2] = "start_media"
        BY <2>1, StepsTypes
      <3> HIDE DEF left
      <3> QED
        BY <2>1, <3>1, StepsTypes DEF Methods
    <2>2. CASE todo[c] = BuildSessionStartSequence
      <3>1. left = Last2 /\ todo[c][2] = "set_policy"
        BY <2>2, StepsTypes
      <3> HIDE DEF left
      <3> QED
        BY <2>2, <3>1, StepsTypes DEF Methods
    <2> QED
      BY <2>1, <2>2
  <1>4. /\ m \in ControlMessage /\ m.method = todo[c][2] /\ m.sid = call[c].m.sid
        /\ m.method # "attach_session"
    <2>1. call[c].m.sid \in Sid \cup {NoSid}
      BY <1>2 DEF ControlMessage
    <2> QED
      BY <1>3, <2>1, MsgTypes
  <1>5. Envelope(c, m) \in S /\ Envelope(c, m).message = m
    BY <1>1, <1>4, EnvelopeTypes DEF ChannelTypes
  <1>6. asking \in Call /\ asking.st = "reply" /\ asking.m = m /\ asking.out = <<>>
    BY <1>1, <1>4, CallTypes DEF Idle
  <1>7. /\ toAgent[c] \in Seq(S) /\ sent \in Seq(S) /\ Len(toAgent[c]) \in Nat
        /\ Len(sent) = Len(toAgent[c]) + 1
        /\ \A i \in 1 .. Len(toAgent[c]) : sent[i] = toAgent[c][i]
        /\ sent[Len(toAgent[c]) + 1] = Envelope(c, m)
    <2>1. toAgent[c] \in Seq(S)
      BY <1>1 DEF ChannelTypes
    <2> HIDE DEF S
    <2>2. Len(toAgent[c]) \in Nat
      BY <2>1
    <2> DEFINE e == Envelope(c, m)
    <2>3. e \in S
      BY <1>5
    <2> HIDE DEF e
    <2>4. /\ Append(toAgent[c], e) \in Seq(S)
          /\ Len(Append(toAgent[c], e)) = Len(toAgent[c]) + 1
          /\ \A i \in 1 .. Len(toAgent[c]) : Append(toAgent[c], e)[i] = toAgent[c][i]
          /\ Append(toAgent[c], e)[Len(toAgent[c]) + 1] = e
      BY <2>1, <2>3, AppendProperties
    <2> QED
      BY <2>1, <2>2, <2>4 DEF e
  <1> HIDE DEF asking, sent, rest, left
  <1>8. ChannelTypes'
    <2>1. toAgent' \in [Client -> Seq(S)] /\ toClient' \in [Client -> Seq(Replies)]
      BY <1>1, <1>2, <1>7 DEF ChannelTypes, sent, rest
    <2>2. call' \in [Client -> Call] /\ todo' \in [Client -> Steps]
      BY <1>1, <1>3, <1>6, StepsTypes DEF ChannelTypes, asking, left
    <2>3. count' \in [Client -> Nat]
      <3>1. count[c] + 1 \in Nat
        BY <1>1 DEF ChannelTypes
      <3> QED
        BY <1>1, <3>1 DEF ChannelTypes
    <2> QED
      BY <1>1, <2>1, <2>2, <2>3 DEF ChannelTypes
  <1>9. /\ \A d \in Client \ {c} : Same(d)
        /\ call'[c] = asking /\ toClient'[c] = rest /\ toAgent'[c] = sent
        /\ link'[c] = link[c] /\ todo'[c] = left /\ result'[c] = result[c]
        /\ count'[c] = count[c] + 1 /\ late'[c] = late[c] /\ torn'[c] = torn[c]
    BY <1>1 DEF ChannelTypes, Same, asking, rest, sent, left
  <1>10. (InQueue(c)' <=> InQueue(c)) /\ (InStep(c)' <=> InStep(c))
    BY <1>9 DEF InQueue, InStep
  <1>11. LinkOf(c)'
    <2>1. count'[c] + Left(todo'[c]) <= cfg.max_requests[c]
      <3>1. count[c] + Left(todo[c]) <= cfg.max_requests[c] /\ count[c] \in Nat
        BY <1>1 DEF ChannelInv, ClientInv, LinkOf, ChannelTypes
      <3>2. cfg.max_requests[c] \in Nat
        BY <1>1, ConfigTypes DEF ChannelTypes
      <3>3. Left(left) + 1 = Left(todo[c]) /\ Left(left) \in Nat
        BY <1>3
      <3> QED
        <4> DEFINE n == Left(left)
        <4>1. count'[c] = count[c] + 1 /\ Left(todo'[c]) = n
          BY <1>9
        <4>2. Left(todo[c]) = n + 1 /\ n \in Nat
          BY <3>3
        <4> HIDE DEF n
        <4> QED
          BY <3>1, <3>2, <4>1, <4>2
    <2> QED
      BY <1>9, <1>10, <2>1 DEF ChannelInv, ClientInv, LinkOf
  <1>12. InStep(c) => /\ sent # <<>> /\ Len(sent) = 1 /\ sent[1].message = m /\ rest = <<>>
                      /\ serving = c => sending = <<>>
    <2> SUFFICES ASSUME InStep(c)
                 PROVE  /\ sent # <<>> /\ Len(sent) = 1 /\ sent[1].message = m
                        /\ rest = <<>> /\ (serving = c => sending = <<>>)
      OBVIOUS
    <2>1. rest = <<>> /\ toAgent[c] = <<>> /\ (serving = c => sending = <<>>)
      BY SentinelIsLast DEF rest
    <2>2. sent # <<>> /\ Len(sent) = 1 /\ sent[1] = Envelope(c, m)
      BY <1>5, <2>1, AppendFirst DEF sent
    <2> QED
      BY <1>5, <2>1, <2>2
  <1>13. StreamOf(c)'
    <2>1. ASSUME InStep(c) PROVE Talking(c)'
      <3>1. Len(<<>>) = 0
        OBVIOUS
      <3>2. Asked(c)'
        BY <1>6, <1>9, <1>12, <2>1 DEF Asked
      <3>3. rest = <<>> /\ (serving = c => sending = <<>>)
        BY <1>12, <2>1
      <3>4. Received(c)'
        BY <1>9, <3>1, <3>3 DEF Received
      <3>5. Coming(c)'
        BY <3>1, <3>3 DEF Coming
      <3>6. Read(c)'
        BY <1>6, <1>9 DEF Read
      <3> QED
        BY <3>2, <3>4, <3>5, <3>6 DEF Talking
    <2> QED
      BY <1>4, <1>6, <1>9, <1>10, <2>1 DEF ChannelInv, ClientInv, StreamOf
  <1>14. StartOf(c)'
    <2> SUFFICES ASSUME InStep(c) PROVE StartOf(c)'
      BY <1>10 DEF StartOf
    <2>1. result[c] # "ok" /\ ~InQueue(c)'
      BY <1>2, <1>10 DEF ChannelInv, ClientInv, StartOf
    <2>2. ~Acked(c)'
      BY <1>9, <1>12 DEF Acked
    <2>3. serving = c => HasSession(c)'
      <3>1. Acked(c)
        BY SentinelIsLast DEF Acked
      <3>2. serving = c => HasSession(c)
        BY <3>1, StepsTypes DEF ChannelInv, ClientInv, StartOf
      <3> QED
        BY <1>4, <1>6, <1>9, <3>2 DEF HasSession
    <2> QED
      BY <1>3, <1>4, <1>6, <1>9, <2>1, <2>2, <2>3 DEF StartOf
  <1>15. SecretOf(c)'
    <2> HIDE DEF S
    <2>1. \A i \in 1 .. Len(sent) :
              \/ i \in 1 .. Len(toAgent[c]) /\ sent[i] = toAgent[c][i]
              \/ sent[i] = Envelope(c, m)
      <3>1. \A i \in 1 .. Len(sent) :
                i \in 1 .. Len(toAgent[c]) \/ i = Len(toAgent[c]) + 1
        BY <1>7
      <3> QED
        BY <1>7, <3>1
    <2> QED
      BY <1>4, <1>5, <1>9, <2>1 DEF ChannelInv, ClientInv, SecretOf
  <1>16. ClientInv(c)'
    BY <1>11, <1>13, <1>14, <1>15 DEF ClientInv
  <1> QED
    BY <1>8, <1>9, <1>16, ClientStep DEF ChannelInv

\* The request, or the whole sequence, is done.
LEMMA DoneStep ==
    ASSUME ChannelInv, NEW c \in Client, Readable(c), call[c].st = "drain",
           Head(toClient[c]).kind = "drain_complete",
           ~(todo[c] # <<>> /\ call[c].reply.kind = "ack" /\ Len(todo[c]) > 1),
           NEW out, out = (IF todo[c] = <<>> THEN result[c]
                           ELSE IF call[c].reply.kind = "ack" THEN "ok" ELSE "err"),
           NEW m, m = (IF Len(todo[c]) = 1 THEN call[c].m ELSE <<>>),
           result' = [result EXCEPT ![c] = out],
           call' = [call EXCEPT ![c] = [Idle EXCEPT !.m = m]],
           todo' = [todo EXCEPT ![c] = <<>>],
           toClient' = [toClient EXCEPT ![c] = Tail(toClient[c])],
           UNCHANGED <<cfg, listener, queue, pending, link, toAgent, retries, late, torn,
                       serving, agent, sending, count>>
    PROVE  ChannelInv'
  <1> DEFINE idle == [Idle EXCEPT !.m = m]
             rest == Tail(toClient[c])
  <1>1. ChannelTypes
    BY DEF ChannelInv
  <1>2. /\ call[c].m \in ControlMessage /\ rest \in Seq(Replies)
        /\ InStep(c) => ~InQueue(c)
    BY ReadableFacts
  <1>3. idle \in Call /\ idle.st = "idle" /\ idle.m = m
    <2>1. m \in ControlMessage \cup {<<>>} /\ Idle \in Call
      BY <1>1, <1>2, CallTypes
    <2> QED
      BY <2>1 DEF Call, Idle
  <1>4. /\ out \in {"none", "ok", "err"}
        /\ out = "ok" /\ todo[c] # <<>> => todo[c] = Last1 /\ m = call[c].m
                                           /\ call[c].reply.kind = "ack"
    <2>1. /\ todo[c] \in Steps /\ result[c] \in {"none", "ok", "err"}
          /\ Len(Last1) = 1
      BY <1>1, StepsTypes DEF ChannelTypes
    <2>2. out \in {"none", "ok", "err"}
      BY <2>1
    <2>3. ASSUME out = "ok", todo[c] # <<>>
          PROVE  todo[c] = Last1 /\ m = call[c].m /\ call[c].reply.kind = "ack"
      <3>1. call[c].reply.kind = "ack"
        BY <2>3
      <3>2. todo[c] = Last1
        BY <2>1, <2>3, <3>1, StepsTypes
      <3> QED
        BY <2>1, <3>1, <3>2
    <2> QED
      BY <2>2, <2>3
  <1> HIDE DEF idle, rest
  <1>5. ChannelTypes'
    <2>1. call' \in [Client -> Call] /\ todo' \in [Client -> Steps]
      BY <1>1, <1>3, StepsTypes DEF ChannelTypes, idle
    <2>2. /\ toClient' \in [Client -> Seq(Replies)]
          /\ result' \in [Client -> {"none", "ok", "err"}]
      BY <1>1, <1>2, <1>4 DEF ChannelTypes, rest
    <2> QED
      BY <1>1, <2>1, <2>2 DEF ChannelTypes
  <1>6. /\ \A d \in Client \ {c} : Same(d)
        /\ call'[c] = idle /\ toClient'[c] = rest /\ toAgent'[c] = toAgent[c]
        /\ link'[c] = link[c] /\ todo'[c] = <<>> /\ result'[c] = out
        /\ count'[c] = count[c] /\ late'[c] = late[c] /\ torn'[c] = torn[c]
    BY <1>1 DEF ChannelTypes, Same, idle, rest
  <1>7. (InQueue(c)' <=> InQueue(c)) /\ (InStep(c)' <=> InStep(c))
    BY <1>6 DEF InQueue, InStep
  <1>8. LinkOf(c)'
    <2>1. count'[c] + Left(todo'[c]) <= cfg.max_requests[c]
      <3>1. count[c] + Left(todo[c]) <= cfg.max_requests[c] /\ count[c] \in Nat
        BY <1>1 DEF ChannelInv, ClientInv, LinkOf, ChannelTypes
      <3>2. cfg.max_requests[c] \in Nat /\ Left(todo[c]) \in Nat
        BY <1>1, ConfigTypes, StepsTypes DEF ChannelTypes
      <3> QED
        BY <1>6, <3>1, <3>2, StepsTypes
    <2>2. link[c] # "down"
      BY ReadableFacts
    <2> QED
      BY <1>6, <1>7, <2>1, <2>2 DEF ChannelInv, ClientInv, LinkOf
  <1>9. StreamOf(c)'
    <2>1. InStep(c) => Quiet(c)'
      BY <1>6, SentinelIsLast DEF Quiet, rest
    <2> QED
      BY <1>3, <1>6, <1>7, <2>1 DEF ChannelInv, ClientInv, StreamOf
  <1>10. StartOf(c)'
    <2> SUFFICES ASSUME InStep(c) PROVE StartOf(c)'
      BY <1>7 DEF StartOf
    <2>1. result[c] # "ok" /\ ~InQueue(c)'
      BY <1>2, <1>7 DEF ChannelInv, ClientInv, StartOf
    <2>2. CASE out = "ok"
      <3>1. todo[c] = Last1 /\ m = call[c].m /\ call[c].reply.kind = "ack"
        BY <1>4, <2>1, <2>2
      <3>2. Acked(c)
        BY <3>1, SentinelIsLast DEF Acked
      <3>3. serving = c => HasSession(c) /\ agent.media
        BY <3>1, <3>2, StepsTypes DEF ChannelInv, ClientInv, StartOf
      <3>4. serving = c => HasSession(c)' /\ agent'.media
        BY <1>3, <1>6, <3>1, <3>3 DEF HasSession
      <3> QED
        BY <1>2, <1>3, <1>6, <2>1, <3>1, <3>4, StepsTypes DEF StartOf
    <2>3. CASE out # "ok"
      BY <1>3, <1>6, <2>1, <2>3, StepsTypes DEF StartOf
    <2> QED
      BY <2>2, <2>3
  <1>11. SecretOf(c)'
    BY <1>6 DEF ChannelInv, ClientInv, SecretOf
  <1>12. ClientInv(c)'
    BY <1>8, <1>9, <1>10, <1>11 DEF ClientInv
  <1> QED
    BY <1>5, <1>6, <1>12, ClientStep DEF ChannelInv

\* The sentinel is read.
LEMMA RecvDrainedStep ==
    ASSUME ChannelInv, NEW c \in Client, RecvDrained(c)
    PROVE  ChannelInv'
  <1>1. ChannelTypes
    BY DEF ChannelInv
  <1>2. /\ Readable(c) /\ call[c].st = "drain" /\ Head(toClient[c]).kind = "drain_complete"
        /\ toClient' = [toClient EXCEPT ![c] = Tail(toClient[c])]
        /\ UNCHANGED <<cfg, listener, queue, pending, link, retries, late, torn,
                       serving, agent, sending>>
    BY DEF RecvDrained, listen, server
  <1> DEFINE more == todo[c] # <<>> /\ call[c].reply.kind = "ack" /\ Len(todo[c]) > 1
  <1>3. CASE ~more
    <2> DEFINE out == IF todo[c] = <<>> THEN result[c]
                      ELSE IF call[c].reply.kind = "ack" THEN "ok" ELSE "err"
               m == IF Len(todo[c]) = 1 THEN call[c].m ELSE <<>>
    <2>1. /\ result' = [result EXCEPT ![c] = out]
          /\ call' = [call EXCEPT ![c] = [Idle EXCEPT !.m = m]]
          /\ todo' = [todo EXCEPT ![c] = <<>>]
          /\ UNCHANGED <<toAgent, count>>
      BY <1>3 DEF RecvDrained
    <2> HIDE DEF out, m
    <2> QED
      BY <1>2, <1>3, <2>1, DoneStep DEF out, m
  <1>4. CASE more /\ link[c] = "up"
    <2> DEFINE m == Msg(c, todo[c][2], call[c].m.sid, FALSE)
    <2>1. /\ toAgent' = [toAgent EXCEPT ![c] = Append(toAgent[c], Envelope(c, m))]
          /\ call' = [call EXCEPT ![c] = [Idle EXCEPT !.st = "reply", !.m = m]]
          /\ todo' = [todo EXCEPT ![c] = Tail(todo[c])] /\ result' = result
          /\ count' = [count EXCEPT ![c] = count[c] + 1]
      BY <1>4 DEF RecvDrained
    <2>2. todo[c] \in {Last2, BuildSessionStartSequence}
      BY <1>1, <1>4, StepsTypes DEF ChannelTypes
    <2> HIDE DEF m
    <2> QED
      BY <1>2, <1>4, <2>1, <2>2, NextRequestStep DEF m
  <1>5. CASE more /\ link[c] # "up"
    <2>1. Err(c) /\ toAgent' = toAgent /\ count' = [count EXCEPT ![c] = count[c] + 1]
      BY <1>5 DEF RecvDrained
    <2>2. todo[c] \in {Last2, BuildSessionStartSequence}
      BY <1>1, <1>5, StepsTypes DEF ChannelTypes
    <2>3. /\ count[c] \in Nat /\ count' \in [Client -> Nat] /\ count'[c] = count[c] + 1
          /\ \A d \in Client \ {c} : count'[d] = count[d]
      <3>1. count[c] \in Nat /\ count[c] + 1 \in Nat
        BY <1>1 DEF ChannelTypes
      <3> QED
        BY <1>1, <2>1, <3>1 DEF ChannelTypes
    <2>4. count'[c] <= count[c] + Left(todo[c])
      BY <2>2, <2>3, StepsTypes
    <2>5. /\ toClient' \in [Client -> Seq(Replies)] /\ toClient'[c] = Tail(toClient[c])
          /\ \A d \in Client \ {c} : toClient'[d] = toClient[d]
      BY <1>1, <1>2, ReadableFacts DEF ChannelTypes
    <2>6. InStep(c)' => Quiet(c)'
      BY <1>2, <2>1, <2>5, SentinelIsLast DEF InStep, Quiet
    <2>7. /\ late \in [Client -> BOOLEAN] /\ torn \in [Client -> BOOLEAN]
          /\ (torn[c] => late[c])
      BY <1>1 DEF ChannelTypes, ChannelInv, ClientInv, StreamOf
    <2> QED
      BY <1>2, <2>1, <2>3, <2>4, <2>5, <2>6, <2>7, FailedStep
  <1> QED
    BY <1>3, <1>4, <1>5

\* The service closes its end.
LEMMA CloseStep ==
    ASSUME ChannelInv, NEW c \in Client, Close(c)
    PROVE  ChannelInv'
  <1>1. ChannelTypes
    BY DEF ChannelInv
  <1>2. /\ link' = [link EXCEPT ![c] = "closed"] /\ toClient' = [toClient EXCEPT ![c] = <<>>]
        /\ call' = [call EXCEPT ![c] = Idle] /\ todo' = [todo EXCEPT ![c] = <<>>]
        /\ result' = [result EXCEPT ![c] = "none"]
        /\ UNCHANGED <<cfg, listener, queue, pending, toAgent, count, retries, late, torn,
                       serving, agent, sending>>
    BY DEF Close, listen, server
  <1>3. ChannelTypes'
    <2>1. Idle \in Call
      BY <1>1, CallTypes
    <2>2. toClient' \in [Client -> Seq(Replies)]
      <3>1. <<>> \in Seq(Replies)
        BY EmptySeq
      <3> QED
        BY <1>1, <1>2, <3>1 DEF ChannelTypes
    <2>3. todo' \in [Client -> Steps]
      BY <1>1, <1>2, StepsTypes DEF ChannelTypes
    <2> QED
      BY <1>1, <1>2, <2>1, <2>2, <2>3 DEF ChannelTypes
  <1>4. /\ \A d \in Client \ {c} : Same(d)
        /\ link'[c] = "closed" /\ todo'[c] = <<>> /\ count'[c] = count[c]
        /\ call'[c] = Idle /\ toAgent'[c] = toAgent[c] /\ late'[c] = late[c]
        /\ torn'[c] = torn[c]
    BY <1>1, <1>2 DEF ChannelTypes, Same
  <1>5. (InQueue(c)' <=> InQueue(c)) /\ ~InStep(c)'
    BY <1>2, <1>4 DEF InQueue, InStep
  <1>6. LinkOf(c)'
    <2>1. count'[c] + Left(todo'[c]) <= cfg.max_requests[c]
      <3>1. count[c] + Left(todo[c]) <= cfg.max_requests[c] /\ count[c] \in Nat
        BY <1>1 DEF ChannelInv, ClientInv, LinkOf, ChannelTypes
      <3>2. cfg.max_requests[c] \in Nat /\ Left(todo[c]) \in Nat
        BY <1>1, ConfigTypes, StepsTypes DEF ChannelTypes
      <3> QED
        BY <1>4, <3>1, <3>2, StepsTypes
    <2>2. Idle.st = "idle" /\ result'[c] = "none"
      BY <1>1, <1>2 DEF Idle, ChannelTypes
    <2> QED
      BY <1>2, <1>4, <1>5, <2>1, <2>2 DEF ChannelInv, ClientInv, LinkOf
  <1>7. StreamOf(c)' /\ StartOf(c)'
    <2>1. Idle.st = "idle" /\ (torn[c] => late[c])
      BY DEF Idle, ChannelInv, ClientInv, StreamOf
    <2> QED
      BY <1>4, <1>5, <2>1, OutOfStep
  <1>8. SecretOf(c)'
    BY <1>2, <1>4 DEF ChannelInv, ClientInv, SecretOf
  <1>9. ClientInv(c)'
    BY <1>6, <1>7, <1>8 DEF ClientInv
  <1> QED
    BY <1>2, <1>3, <1>4, <1>9, ClientStep DEF ChannelInv

\* A connection is made: it waits to be accepted.
LEMMA JoinStep ==
    ASSUME ChannelInv, NEW c \in Client, Join(c), link[c] = "down", pending' \in BOOLEAN,
           retries' = retries
    PROVE  ChannelInv'
  <1>1. ChannelTypes
    BY DEF ChannelInv
  <1>2. /\ queue' = Append(queue, c) /\ link' = [link EXCEPT ![c] = "up"]
        /\ UNCHANGED <<cfg, listener, toAgent, toClient, call, todo, result, count, late,
                       torn, serving, agent, sending>>
    BY DEF Join, server
  <1>3. /\ queue' \in Seq(Client) /\ Len(queue) \in Nat /\ Len(queue') = Len(queue) + 1
        /\ \A i \in 1 .. Len(queue) : queue'[i] = queue[i]
        /\ queue'[Len(queue) + 1] = c
    <2>1. queue \in Seq(Client)
      BY <1>1 DEF ChannelTypes
    <2>2. Len(queue) \in Nat
      BY <2>1
    <2> QED
      BY <1>2, <2>1, <2>2, AppendProperties
  <1>4. \A i \in 1 .. Len(queue') : i \in 1 .. Len(queue) \/ i = Len(queue) + 1
    BY <1>3
  <1>5. ~InQueue(c) /\ serving # c
    BY DEF ChannelInv, ClientInv, LinkOf
  <1>6. ChannelTypes'
    BY <1>1, <1>2, <1>3 DEF ChannelTypes
  <1>7. ASSUME NEW d \in Client, d # c PROVE ClientInv(d)'
    <2>1. Same(d)
      BY <1>1, <1>2, <1>7 DEF Same, ChannelTypes
    <2>2. InQueue(d)' => InQueue(d)
      BY <1>3, <1>4, <1>7 DEF InQueue
    <2> QED
      BY <1>2, <2>1, <2>2, SameKeeps DEF ChannelInv
  <1>8. ClientInv(c)'
    <2>1. link'[c] = "up"
      BY <1>1, <1>2 DEF ChannelTypes
    <2>2. /\ toAgent[c] = <<>> /\ toClient[c] = <<>> /\ call[c].st = "idle"
          /\ todo[c] = <<>> /\ result[c] # "ok"
      BY DEF ChannelInv, ClientInv, LinkOf
    <2>3. LinkOf(c)'
      BY <1>2, <1>5, <2>1 DEF ChannelInv, ClientInv, LinkOf
    <2>4. StreamOf(c)'
      BY <1>2, <1>5, <2>2 DEF ChannelInv, ClientInv, StreamOf, Quiet
    <2>5. StartOf(c)'
      BY <1>2, <1>5, <2>2, StepsTypes DEF StartOf
    <2>6. SecretOf(c)'
      BY <1>2 DEF ChannelInv, ClientInv, SecretOf
    <2> QED
      BY <2>3, <2>4, <2>5, <2>6 DEF ClientInv
  <1>9. AgentInv'
    <2>1. \A i, j \in 1 .. Len(queue') : queue'[i] = queue'[j] => i = j
      <3>1. \A i \in 1 .. Len(queue) : queue'[i] = queue[i] /\ queue[i] # c
        BY <1>3, <1>5 DEF InQueue
      <3>2. \A i, j \in 1 .. Len(queue) : queue[i] = queue[j] => i = j
        BY DEF ChannelInv, AgentInv
      <3> QED
        BY <1>3, <1>4, <3>1, <3>2
    <2> QED
      BY <1>2, <2>1 DEF ChannelInv, AgentInv, SessionDiesWithConnection, UnprovenNeverActs
  <1> QED
    BY <1>6, <1>7, <1>8, <1>9 DEF ChannelInv

\* Connecting, or trying to.
LEMMA ConnectingStep ==
    ASSUME ChannelInv, NEW c \in Client, Connecting(c)
    PROVE  ChannelInv'
  <1>1. pending \in BOOLEAN
    BY DEF ChannelInv, ChannelTypes
  <1>2. CASE ConnectTcp(c)
    BY <1>1, <1>2, JoinStep DEF ConnectTcp
  <1>3. CASE ConnectNamedPipe(c)
    BY <1>3, JoinStep DEF ConnectNamedPipe
  <1>4. CASE ConnectPipeBusy(c)
    <2>1. /\ retries' = [retries EXCEPT ![c] = retries[c] + 1]
          /\ UNCHANGED <<cfg, listener, queue, pending, link, toAgent, toClient, call, todo,
                         result, count, late, torn, serving, agent, sending>>
      BY <1>4 DEF ConnectPipeBusy, listen, server
    <2>2. ChannelTypes'
      <3>1. retries[c] + 1 \in Nat
        BY DEF ChannelInv, ChannelTypes
      <3> QED
        BY <2>1, <3>1 DEF ChannelInv, ChannelTypes
    <2>3. \A d \in Client : Same(d) /\ (InQueue(d)' <=> InQueue(d))
      BY <2>1 DEF Same, InQueue
    <2>4. \A d \in Client : ClientInv(d)'
      BY <2>1, <2>3, SameKeeps DEF ChannelInv
    <2> QED
      BY <2>1, <2>2, <2>4, ClientStep DEF ChannelInv, Same
  <1> QED
    BY <1>2, <1>3, <1>4 DEF Connecting

-----------------------------------------------------------------------------
\* The agent's steps.

\* What the queue is made of.
LEMMA QueueFacts ==
    ASSUME ChannelInv, queue # <<>>
    PROVE  /\ Len(queue) \in Nat /\ 1 \in 1 .. Len(queue) /\ Head(queue) = queue[1]
           /\ Head(queue) \in Client /\ InQueue(Head(queue))
           /\ Tail(queue) \in Seq(Client)
           /\ \A i \in 1 .. Len(Tail(queue)) :
                 /\ i \in Nat /\ i + 1 \in 1 .. Len(queue) /\ i + 1 # 1
                 /\ Tail(queue)[i] = queue[i + 1]
  <1>1. queue \in Seq(Client)
    BY DEF ChannelInv, ChannelTypes
  <1>2. /\ Head(queue) \in Client /\ Tail(queue) \in Seq(Client)
        /\ Len(Tail(queue)) = Len(queue) - 1
        /\ \A i \in 1 .. Len(Tail(queue)) : Tail(queue)[i] = queue[i + 1]
    BY <1>1, HeadTailProperties
  <1>3. Len(queue) \in Nat /\ Len(queue) >= 1 /\ Head(queue) = queue[1]
    BY <1>1
  <1>4. \A i \in 1 .. Len(Tail(queue)) : i \in Nat /\ i + 1 \in 1 .. Len(queue) /\ i + 1 # 1
    BY <1>2, <1>3
  <1>5. 1 \in 1 .. Len(queue)
    BY <1>3
  <1> QED
    BY <1>1, <1>2, <1>3, <1>4, <1>5 DEF InQueue

\* The head leaves the queue: who waits still waits once, and not the head.
LEMMA QueueTail ==
    ASSUME ChannelInv, queue # <<>>, queue' = Tail(queue),
           NEW c \in Client, c = Head(queue)
    PROVE  /\ ~InQueue(c)'
           /\ \A d : InQueue(d)' => InQueue(d)
           /\ \A i, j \in 1 .. Len(queue') : queue'[i] = queue'[j] => i = j
  <1>1. \A i, j \in 1 .. Len(queue) : queue[i] = queue[j] => i = j
    BY DEF ChannelInv, AgentInv
  <1>2. \A i \in 1 .. Len(queue') :
            i \in Nat /\ i + 1 \in 1 .. Len(queue) /\ i + 1 # 1 /\ queue'[i] = queue[i + 1]
    BY QueueFacts
  <1>3. ~InQueue(c)'
    <2>1. ASSUME NEW i \in 1 .. Len(queue'), queue'[i] = c PROVE FALSE
      <3>1. queue[i + 1] = queue[1] /\ i + 1 \in 1 .. Len(queue) /\ 1 \in 1 .. Len(queue)
        BY <1>2, <2>1, QueueFacts
      <3> QED
        BY <1>1, <1>2, <3>1
    <2> QED
      BY <2>1 DEF InQueue
  <1>4. \A d : InQueue(d)' => InQueue(d)
    BY <1>2 DEF InQueue
  <1>5. \A i, j \in 1 .. Len(queue') : queue'[i] = queue'[j] => i = j
    <2> SUFFICES ASSUME NEW i \in 1 .. Len(queue'), NEW j \in 1 .. Len(queue'),
                        queue'[i] = queue'[j]
                 PROVE  i = j
      OBVIOUS
    <2>1. i + 1 = j + 1
      BY <1>1, <1>2
    <2> QED
      BY <1>2, <2>1
  <1> QED
    BY <1>3, <1>4, <1>5

\* The next connection is accepted: nothing has been answered on it yet.
LEMMA AcceptStep ==
    ASSUME ChannelInv, Accept
    PROVE  ChannelInv'
  <1>1. ChannelTypes
    BY DEF ChannelInv
  <1>2. /\ serving = NoClient /\ queue # <<>> /\ serving' = Head(queue) /\ queue' = Tail(queue)
        /\ pending' \in BOOLEAN /\ agent' = FreshAgent /\ sending' = <<>>
        /\ UNCHANGED <<cfg, listener, link, toAgent, toClient, call, todo, result, count,
                       retries, late, torn>>
    BY <1>1 DEF Accept, client, NewAgentSession, ChannelTypes
  <1>3. PICK c \in Client : c = Head(queue)
    BY <1>2, QueueFacts
  <1>4. /\ serving' = c /\ InQueue(c) /\ ~InQueue(c)' /\ queue' \in Seq(Client)
        /\ \A d : InQueue(d)' => InQueue(d)
        /\ \A i, j \in 1 .. Len(queue') : queue'[i] = queue'[j] => i = j
    BY <1>2, <1>3, QueueFacts, QueueTail
  <1>5. FreshAgent \in Agent /\ FreshAgent.sid = NoSid
    BY DEF FreshAgent, Agent
  <1>6. sending' \in Seq(Replies) /\ Len(sending') = 0
    BY <1>2, EmptySeq
  <1>7. ChannelTypes'
    BY <1>1, <1>2, <1>4, <1>5, <1>6 DEF ChannelTypes
  <1>8. \A d \in Client : Same(d) /\ serving # d
    BY <1>2, ControlAssumption DEF Same
  <1>9. ASSUME NEW d \in Client, d # c PROVE ClientInv(d)'
    BY <1>2, <1>4, <1>8, <1>9, SameKeeps DEF ChannelInv
  <1>10. ClientInv(c)'
    <2>1. LinkOf(c)'
      BY <1>2, <1>4, <1>8 DEF ChannelInv, ClientInv, LinkOf, Same
    <2>2. StreamOf(c)'
      <3>1. InStep(c)' => InStep(c)
        BY <1>8 DEF Same, InStep
      <3>2. Quiet(c) => Quiet(c)'
        BY <1>2 DEF Quiet
      <3>3. Talking(c) => Talking(c)'
        BY <1>2, <1>6 DEF Talking, Asked, Received, Coming, Read
      <3> QED
        BY <1>2, <3>1, <3>2, <3>3 DEF ChannelInv, ClientInv, StreamOf
    <2>3. StartOf(c)'
      <3> SUFFICES ASSUME InStep(c) PROVE StartOf(c)'
        BY <1>2 DEF StartOf, InStep
      <3>1. /\ todo[c] # <<>> => call[c].st # "idle" /\ call[c].m.method = todo[c][1]
            /\ todo[c] \in {<<>>, BuildSessionStartSequence}
            /\ result[c] # "ok" /\ call[c].st # "drain" /\ toClient[c] = <<>>
        BY <1>4 DEF ChannelInv, ClientInv, StartOf
      <3>2. ~Acked(c)'
        BY <1>2, <3>1 DEF Acked
      <3> QED
        BY <1>2, <1>4, <3>1, <3>2, StepsTypes DEF StartOf
    <2>4. SecretOf(c)'
      BY <1>2 DEF ChannelInv, ClientInv, SecretOf
    <2> QED
      BY <2>1, <2>2, <2>3, <2>4 DEF ClientInv
  <1>11. AgentInv'
    <2>1. serving' # NoClient
      BY <1>4, ControlAssumption
    <2> QED
      BY <1>2, <1>4, <1>5, <1>6, <2>1 DEF AgentInv, SessionDiesWithConnection, UnprovenNeverActs
  <1> QED
    BY <1>7, <1>9, <1>10, <1>11 DEF ChannelInv

\* Nobody is accepted.
LEMMA NobodyStep ==
    ASSUME ChannelInv, AcceptFails \/ AcceptRecreates
    PROVE  ChannelInv'
  <1>1. ChannelTypes
    BY DEF ChannelInv
  <1>2. /\ (queue # <<>> /\ queue' = Tail(queue)) \/ queue' = queue
        /\ pending' \in BOOLEAN /\ listener' \in {"up", "exited"}
        /\ UNCHANGED <<cfg, link, toAgent, toClient, call, todo, result, count,
                       retries, late, torn, serving, agent, sending>>
    BY DEF AcceptFails, AcceptRecreates, client, server
  <1>3. /\ queue' \in Seq(Client)
        /\ \A d : InQueue(d)' => InQueue(d)
        /\ \A i, j \in 1 .. Len(queue') : queue'[i] = queue'[j] => i = j
    <2>1. CASE queue # <<>> /\ queue' = Tail(queue)
      <3>1. PICK c \in Client : c = Head(queue)
        BY <2>1, QueueFacts
      <3> QED
        BY <2>1, <3>1, QueueFacts, QueueTail
    <2>2. CASE queue' = queue
      BY <1>1, <2>2 DEF ChannelInv, AgentInv, InQueue, ChannelTypes
    <2> QED
      BY <1>2, <2>1, <2>2
  <1>4. ChannelTypes'
    BY <1>1, <1>2, <1>3 DEF ChannelTypes
  <1>5. ASSUME NEW d \in Client PROVE ClientInv(d)'
    <2>1. Same(d)
      BY <1>2 DEF Same
    <2> QED
      BY <1>2, <1>3, <2>1, SameKeeps DEF ChannelInv
  <1>6. AgentInv'
    BY <1>2, <1>3 DEF ChannelInv, AgentInv, SessionDiesWithConnection, UnprovenNeverActs
  <1> QED
    BY <1>4, <1>5, <1>6 DEF ChannelInv

\* A step on the connection served: nobody else is concerned.
LEMMA ServedStep ==
    ASSUME ChannelInv, NEW s \in Client, serving = s, serving' \in {s, NoClient},
           \A d \in Client \ {s} : Same(d),
           cfg' = cfg, queue' = queue, ChannelTypes', AgentInv', ClientInv(s)'
    PROVE  ChannelInv'
  <1>1. ASSUME NEW d \in Client, d # s PROVE ClientInv(d)'
    <2>1. InQueue(d)' => InQueue(d)
      BY DEF InQueue
    <2>2. serving # d /\ serving' # d
      BY <1>1, ControlAssumption
    <2> QED
      BY <1>1, <2>1, <2>2, SameKeeps DEF ChannelInv
  <1> QED
    BY <1>1 DEF ChannelInv

\* The connection is dropped.
LEMMA DropStep ==
    ASSUME ChannelInv, Drop, serving # NoClient
    PROVE  ChannelInv'
  <1>1. ChannelTypes
    BY DEF ChannelInv
  <1>2. PICK s \in Client : serving = s
    BY <1>1 DEF ChannelTypes
  <1>3. /\ serving' = NoClient /\ sending' = <<>> /\ agent' = FreshAgent
        /\ link' = [link EXCEPT ![s] = IF link[s] = "up" THEN "lost" ELSE link[s]]
        /\ toAgent' = [toAgent EXCEPT ![s] = <<>>]
        /\ UNCHANGED <<cfg, listener, queue, pending, toClient, call, todo, result, count,
                       retries, late, torn>>
    BY <1>2 DEF Drop, listen, client
  <1>4. FreshAgent \in Agent /\ FreshAgent.sid = NoSid
    BY DEF FreshAgent, Agent
  <1>5. sending' \in Seq(Replies) /\ Len(sending') = 0
    BY <1>3, EmptySeq
  <1>6. /\ \A d \in Client \ {s} : Same(d)
        /\ link[s] \in {"up", "closed"}
        /\ link'[s] \in {"lost", "closed"} /\ (link'[s] = "lost" <=> link[s] = "up")
        /\ toAgent'[s] = <<>> /\ Len(toAgent'[s]) = 0
    <2>1. link[s] \in {"up", "closed"}
      BY <1>2 DEF ChannelInv, ClientInv, LinkOf
    <2> QED
      BY <1>1, <1>3, <2>1 DEF ChannelTypes, Same
  <1>7. ChannelTypes'
    <2>1. toAgent' \in [Client -> Seq([v : Nat, message : ControlMessage])]
      <3>1. <<>> \in Seq([v : Nat, message : ControlMessage])
        BY EmptySeq
      <3> QED
        BY <1>1, <1>3, <3>1 DEF ChannelTypes
    <2>2. link' \in [Client -> {"down", "up", "lost", "closed"}]
      BY <1>1, <1>3, <1>6 DEF ChannelTypes
    <2> QED
      BY <1>1, <1>3, <1>4, <1>5, <2>1, <2>2 DEF ChannelTypes
  <1>8. /\ ~InQueue(s)' /\ serving' # s
        /\ InStep(s)' => InStep(s)
    <2>1. ~InQueue(s)
      BY <1>2 DEF ChannelInv, ClientInv, LinkOf
    <2> QED
      BY <1>3, <1>6, <2>1, ControlAssumption DEF InQueue, InStep
  <1>9. ClientInv(s)'
    <2>1. LinkOf(s)'
      BY <1>3, <1>6, <1>8 DEF ChannelInv, ClientInv, LinkOf
    <2>2. StreamOf(s)'
      <3>1. Quiet(s) => Quiet(s)'
        BY <1>3, <1>6, <1>8 DEF Quiet
      <3>2. Talking(s) => Talking(s)'
        BY <1>3, <1>6, <1>8 DEF Talking, Asked, Received, Coming, Read
      <3> QED
        BY <1>3, <1>8, <3>1, <3>2 DEF ChannelInv, ClientInv, StreamOf
    <2>3. StartOf(s)'
      BY <1>3, <1>8 DEF ChannelInv, ClientInv, StartOf
    <2>4. SecretOf(s)'
      BY <1>6 DEF SecretOf
    <2> QED
      BY <2>1, <2>2, <2>3, <2>4 DEF ClientInv
  <1>10. AgentInv'
    <2>1. \A i, j \in 1 .. Len(queue) : queue[i] = queue[j] => i = j
      BY DEF ChannelInv, AgentInv
    <2> QED
      BY <1>3, <1>4, <1>5, <2>1 DEF AgentInv, SessionDiesWithConnection, UnprovenNeverActs
  <1> QED
    BY <1>2, <1>3, <1>6, <1>7, <1>9, <1>10, ServedStep

\* A frame of the answer is written.
LEMMA AgentSendStep ==
    ASSUME ChannelInv, AgentSend
    PROVE  ChannelInv'
  <1>1. ChannelTypes
    BY DEF ChannelInv
  <1>2. PICK s \in Client : serving = s
    BY <1>1 DEF ChannelTypes, AgentSend
  <1> DEFINE f == Head(sending)
             sent == Append(toClient[s], f)
             rest == Tail(sending)
  <1>3. /\ sending # <<>> /\ link[s] = "up"
        /\ toClient' = [toClient EXCEPT ![s] = sent] /\ sending' = rest
        /\ UNCHANGED <<cfg, listener, queue, pending, link, toAgent, call, todo, result, count,
                       retries, late, torn, serving, agent>>
    BY <1>2 DEF AgentSend, listen, client
  <1>4. /\ f \in Replies /\ f = sending[1] /\ 1 \in 1 .. Len(sending) /\ Len(sending) \in Nat
        /\ rest \in Seq(Replies)
        /\ \A i \in 1 .. Len(rest) : /\ i + 1 \in 1 .. Len(sending) /\ i + 1 > 1
                                     /\ rest[i] = sending[i + 1]
                                     /\ i + 1 = Len(sending) => i = Len(rest)
        /\ Len(sending) = 1 => rest = <<>>
    <2>1. sending \in Seq(Replies)
      BY <1>1 DEF ChannelTypes
    <2>2. /\ f \in Replies /\ rest \in Seq(Replies) /\ Len(rest) = Len(sending) - 1
          /\ \A i \in 1 .. Len(rest) : rest[i] = sending[i + 1]
      BY <1>3, <2>1, HeadTailProperties
    <2>3. f = sending[1] /\ Len(sending) \in Nat /\ Len(sending) >= 1
      BY <1>3, <2>1
    <2> HIDE DEF rest, f
    <2>4. Len(sending) = 1 => rest = <<>>
      BY <2>2, <2>3, EmptySeq
    <2> QED
      BY <2>2, <2>3, <2>4
  <1>5. /\ toClient[s] \in Seq(Replies) /\ Len(toClient[s]) \in Nat
        /\ sent \in Seq(Replies) /\ Len(sent) = Len(toClient[s]) + 1 /\ sent # <<>>
        /\ \A i \in 1 .. Len(toClient[s]) : sent[i] = toClient[s][i]
        /\ sent[Len(toClient[s]) + 1] = f
        /\ toClient[s] = <<>> \/ 1 \in 1 .. Len(toClient[s])
    <2>1. toClient[s] \in Seq(Replies) /\ Len(toClient[s]) \in Nat
      BY <1>1 DEF ChannelTypes
    <2>2. toClient[s] = <<>> \/ 1 \in 1 .. Len(toClient[s])
      BY <2>1, EmptySeq
    <2> HIDE DEF f
    <2> QED
      BY <1>4, <2>1, <2>2, AppendProperties
  <1>6. \A i \in 1 .. Len(sent) : i \in 1 .. Len(toClient[s]) \/ i = Len(toClient[s]) + 1
    BY <1>5
  <1> HIDE DEF f, sent, rest
  <1>7. ChannelTypes'
    BY <1>1, <1>3, <1>4, <1>5 DEF ChannelTypes
  <1>8. /\ \A d \in Client \ {s} : Same(d)
        /\ toClient'[s] = sent /\ serving' = s
        /\ InQueue(s)' <=> InQueue(s)
        /\ InStep(s)' <=> InStep(s)
    BY <1>1, <1>2, <1>3 DEF ChannelTypes, Same, InQueue, InStep
  <1>9. ~InQueue(s)
    BY <1>2 DEF ChannelInv, ClientInv, LinkOf
  <1>10. ASSUME InStep(s)
         PROVE  Talking(s) /\ toAgent[s] = <<>> /\ call[s].st \in {"reply", "drain"}
    <2>1. call[s].st # "idle" /\ Talking(s)
      BY <1>2, <1>3, <1>10 DEF ChannelInv, ClientInv, StreamOf, Quiet
    <2>2. toAgent[s] = <<>>
      BY <1>2, <1>3, <2>1 DEF Talking, Asked
    <2>3. call[s].st \in {"idle", "reply", "drain"}
      BY <1>1, CallTypes
    <2> QED
      BY <2>1, <2>2, <2>3
  <1>11. LinkOf(s)' /\ SecretOf(s)'
    BY <1>3, <1>8, <1>9 DEF ChannelInv, ClientInv, LinkOf, SecretOf
  <1>12. StreamOf(s)'
    <2>1. ASSUME InStep(s) PROVE Talking(s)'
      <3>1. Talking(s) /\ toAgent[s] = <<>> /\ call[s].st \in {"reply", "drain"}
        BY <1>10, <2>1
      <3>2. Asked(s)' /\ Read(s)'
        BY <1>3, <3>1 DEF Talking, Asked, Read
      <3>3. Received(s)'
        <4>1. ASSUME NEW i \in 1 .. Len(toClient[s])
              PROVE  /\ sent[i].id = call[s].m.id /\ sent[i].kind # "drain_complete"
                     /\ call[s].st = "drain" \/ i > 1 => sent[i].kind \in After
          BY <1>2, <1>3, <1>5, <3>1, <4>1 DEF Talking, Received
        <4>2. f.id = call[s].m.id
          BY <1>2, <1>4, <3>1 DEF Talking, Coming
        <4>3. f.kind = "drain_complete" => rest = <<>>
          <5>1. f.kind = "drain_complete" => Len(sending) = 1
            BY <1>4 DEF ChannelInv, AgentInv
          <5> QED
            BY <1>4, <5>1
        <4>4. call[s].st = "drain" \/ Len(toClient[s]) + 1 > 1 => f.kind \in After
          <5>1. Len(toClient[s]) + 1 > 1 => toClient[s] # <<>>
            BY <1>5
          <5> QED
            BY <1>2, <1>4, <3>1, <5>1 DEF Talking, Coming
        <4>5. call[s].st = "reply" /\ Len(toClient[s]) + 1 = 1 => f.kind # "drain_complete"
          <5>1. Len(toClient[s]) + 1 = 1 => toClient[s] = <<>>
            BY <1>5
          <5> QED
            BY <1>2, <1>4, <3>1, <5>1 DEF Talking, Coming
        <4>6. ASSUME NEW i \in 1 .. Len(sent)
              PROVE  /\ sent[i].id = call[s].m.id
                     /\ sent[i].kind = "drain_complete" => i = Len(sent) /\ rest = <<>>
                     /\ call[s].st = "drain" \/ i > 1 => sent[i].kind \in After
                     /\ call[s].st = "reply" /\ i = 1 => sent[i].kind # "drain_complete"
          <5>1. CASE i \in 1 .. Len(toClient[s])
            BY <4>1, <5>1
          <5>2. CASE i = Len(toClient[s]) + 1
            BY <1>5, <4>2, <4>3, <4>4, <4>5, <5>2
          <5> QED
            BY <1>6, <4>6, <5>1, <5>2
        <4> QED
          BY <1>3, <1>8, <4>6 DEF Received
      <3>4. Coming(s)'
        BY <1>2, <1>3, <1>4, <1>5, <1>8, <3>1 DEF Talking, Coming
      <3> QED
        BY <3>2, <3>3, <3>4 DEF Talking
    <2>2. InStep(s) => call[s].st # "idle"
      BY <1>10
    <2> QED
      BY <1>3, <1>8, <2>1, <2>2 DEF ChannelInv, ClientInv, StreamOf
  <1>13. StartOf(s)'
    <2> SUFFICES ASSUME InStep(s) PROVE StartOf(s)'
      BY <1>8 DEF StartOf
    <2>1. toAgent[s] = <<>> /\ call[s].st \in {"reply", "drain"}
      BY <1>10
    <2>2. Acked(s)' => Acked(s)
      <3>1. CASE call[s].st = "drain"
        BY <1>3, <2>1, <3>1 DEF Acked
      <3>2. CASE call[s].st # "drain" /\ toClient[s] # <<>>
        <4>1. sent[1] = toClient[s][1]
          BY <1>5, <3>2
        <4> QED
          BY <1>3, <1>5, <1>8, <2>1, <3>2, <4>1 DEF Acked
      <3>3. CASE call[s].st # "drain" /\ toClient[s] = <<>>
        <4>1. sent[1] = sending[1]
          <5>1. Len(toClient[s]) = 0
            BY <3>3
          <5> QED
            BY <1>4, <1>5, <5>1
        <4> QED
          BY <1>3, <1>5, <1>8, <2>1, <3>3, <4>1 DEF Acked
      <3> QED
        BY <3>1, <3>2, <3>3
    <2>3. HasSession(s)' <=> HasSession(s)
      BY <1>3 DEF HasSession
    <2> QED
      BY <1>2, <1>3, <1>8, <1>9, <2>1, <2>2, <2>3 DEF ChannelInv, ClientInv, StartOf
  <1>14. ClientInv(s)'
    BY <1>11, <1>12, <1>13 DEF ClientInv
  <1>15. AgentInv'
    <2>1. \A i \in 1 .. Len(rest) : rest[i].kind = "drain_complete" => i = Len(rest)
      BY <1>4 DEF ChannelInv, AgentInv
    <2>2. s # NoClient
      BY ControlAssumption
    <2> QED
      BY <1>2, <1>3, <2>1, <2>2
      DEF ChannelInv, AgentInv, SessionDiesWithConnection, UnprovenNeverActs
  <1> QED
    BY <1>2, <1>3, <1>7, <1>8, <1>14, <1>15, ServedStep

\* An answer to m: its reply, at most one signal, its sentinel.
AnswerTo(answer, m, kind) ==
    /\ answer \in Seq(Replies) /\ answer # <<>> /\ Len(answer) \in Nat /\ answer[1].kind = kind
    /\ \A i \in 1 .. Len(answer) :
          /\ answer[i].id = m.id
          /\ i > 1 => answer[i].kind \in After
          /\ answer[i].kind = "drain_complete" => i = Len(answer)
          /\ i = 1 => answer[i].kind # "drain_complete"

\* The kinds of reply.
Kinds == {"ack", "error", "auth_failed", "stats_push"}

\* What the agent writes is an answer.
LEMMA AnswerShape ==
    ASSUME NEW m \in ControlMessage, NEW kind \in Kinds,
           NEW live, NEW signals \in Signals(m, live)
    PROVE  AnswerTo(Answer(kind, m.id, signals), m, kind)
  <1> DEFINE r == Reply(kind, m.id)
             d == Reply("drain_complete", m.id)
             g(b) == [kind |-> "signal", id |-> m.id, big |-> b]
             a == Answer(kind, m.id, signals)
  <1>1. /\ r \in Replies /\ r.kind = kind /\ r.id = m.id /\ kind # "drain_complete"
        /\ d \in Replies /\ d.kind = "drain_complete" /\ d.id = m.id
    BY DEF Reply, Replies, ControlMessage, Kinds
  <1>2. ASSUME NEW b \in BOOLEAN
        PROVE  g(b) \in Replies /\ g(b).kind = "signal" /\ g(b).id = m.id
    BY DEF Replies, ControlMessage
  <1>3. a = (<<r>> \o signals) \o <<d>>
    BY DEF Answer
  <1>4. signals = <<>> \/ \E b \in BOOLEAN : signals = <<g(b)>>
    BY DEF Signals
  <1> HIDE DEF r, d, g, a
  <1>5. /\ signals \in Seq(Replies) /\ Len(signals) \in {0, 1}
        /\ \A i \in 1 .. Len(signals) : signals[i].kind = "signal" /\ signals[i].id = m.id
    <2>1. CASE signals = <<>>
      BY <2>1, EmptySeq
    <2>2. CASE \E b \in BOOLEAN : signals = <<g(b)>>
      BY <1>2, <2>2
    <2> QED
      BY <1>4, <2>1, <2>2
  <1>6. /\ <<r>> \in Seq(Replies) /\ Len(<<r>>) = 1 /\ <<r>>[1] = r
        /\ <<d>> \in Seq(Replies) /\ Len(<<d>>) = 1 /\ <<d>>[1] = d
    BY <1>1
  <1> DEFINE rs == <<r>> \o signals
  <1>7. /\ rs \in Seq(Replies) /\ Len(rs) = 1 + Len(signals) /\ rs[1] = r
        /\ \A i \in 1 .. Len(signals) : rs[i + 1] = signals[i]
    <2>1. /\ rs \in Seq(Replies) /\ Len(rs) = 1 + Len(signals)
          /\ \A i \in 1 .. 1 + Len(signals) :
                rs[i] = IF i <= 1 THEN <<r>>[i] ELSE signals[i - 1]
      BY <1>5, <1>6, ConcatProperties
    <2> HIDE DEF rs
    <2>2. 1 \in 1 .. 1 + Len(signals)
      BY <1>5
    <2>3. \A i \in 1 .. Len(signals) :
              i + 1 \in 1 .. 1 + Len(signals) /\ ~(i + 1 <= 1) /\ i + 1 - 1 = i
      BY <1>5
    <2> QED
      BY <1>6, <2>1, <2>2, <2>3
  <1>8. /\ a \in Seq(Replies) /\ Len(a) = Len(signals) + 2 /\ a[1] = r
        /\ a[Len(signals) + 2] = d
        /\ \A i \in 1 .. Len(signals) : a[i + 1] = signals[i]
    <2>1. a = rs \o <<d>>
      BY <1>3
    <2> HIDE DEF rs
    <2>2. /\ a \in Seq(Replies) /\ Len(a) = Len(rs) + 1
          /\ \A i \in 1 .. Len(rs) + 1 :
                a[i] = IF i <= Len(rs) THEN rs[i] ELSE <<d>>[i - Len(rs)]
      BY <1>6, <1>7, <2>1, ConcatProperties
    <2>3. /\ Len(rs) + 1 = Len(signals) + 2 /\ 1 \in 1 .. Len(rs) + 1 /\ 1 <= Len(rs)
          /\ Len(rs) + 1 \in 1 .. Len(rs) + 1 /\ ~(Len(rs) + 1 <= Len(rs))
          /\ Len(rs) + 1 - Len(rs) = 1
      BY <1>5, <1>7
    <2>4. \A i \in 1 .. Len(signals) : i + 1 \in 1 .. Len(rs) + 1 /\ i + 1 <= Len(rs)
      BY <1>5, <1>7
    <2> QED
      BY <1>6, <1>7, <2>2, <2>3, <2>4
  <1>9. /\ Len(a) \in Nat /\ 1 # Len(a) /\ a # <<>>
        /\ \A i \in 1 .. Len(a) : \/ i = 1 \/ i = Len(a)
                                  \/ i # Len(a) /\ i > 1 /\ \E j \in 1 .. Len(signals) : i = j + 1
    <2> DEFINE n == Len(signals)   l == Len(a)
    <2>1. n \in {0, 1} /\ l = n + 2
      BY <1>5, <1>8
    <2>2. a # <<>>
      BY <2>1
    <2> HIDE DEF a, n, l, rs
    <2>3. \A i \in 1 .. l : i = 1 \/ i = l \/ (i # l /\ i > 1 /\ i = 1 + 1 /\ 1 \in 1 .. n)
      BY <2>1
    <2>4. l \in Nat /\ 1 # l
      BY <2>1
    <2>5. /\ l \in Nat /\ 1 # l
          /\ \A i \in 1 .. l : \/ i = 1 \/ i = l
                               \/ i # l /\ i > 1 /\ \E j \in 1 .. n : i = j + 1
      BY <2>3, <2>4
    <2> QED
      BY <2>2, <2>5 DEF n, l
  <1>10. ASSUME NEW i \in 1 .. Len(a)
         PROVE  /\ a[i].id = m.id /\ (i > 1 => a[i].kind \in After)
                /\ a[i].kind = "drain_complete" => i = Len(a)
                /\ i = 1 => a[i].kind # "drain_complete"
    <2>1. CASE i = 1
      BY <1>1, <1>8, <2>1
    <2>2. CASE i = Len(a)
      BY <1>1, <1>8, <1>9, <2>2 DEF After
    <2>3. CASE i > 1 /\ \E j \in 1 .. Len(signals) : i = j + 1
      BY <1>5, <1>8, <2>3 DEF After
    <2> QED
      BY <1>9, <2>1, <2>2, <2>3
  <1>11. a[1].kind = kind
    BY <1>1, <1>8
  <1> QED
    BY <1>8, <1>9, <1>10, <1>11 DEF AnswerTo, a

\* The request the agent reads next.
LEMMA EnvFacts ==
    ASSUME ChannelInv, NEW s \in Client, serving = s, toAgent[s] # <<>>
    PROVE  /\ Env1 = toAgent[s][1] /\ Env1.message \in ControlMessage
           /\ Len(toAgent[s]) \in Nat /\ 1 \in 1 .. Len(toAgent[s])
           /\ Tail(toAgent[s]) \in Seq([v : Nat, message : ControlMessage])
           /\ Len(toAgent[s]) = 1 => Tail(toAgent[s]) = <<>>
           /\ \A i \in 1 .. Len(Tail(toAgent[s])) :
                 /\ i + 1 \in 1 .. Len(toAgent[s])
                 /\ Tail(toAgent[s])[i] = toAgent[s][i + 1]
  <1> DEFINE S == [v : Nat, message : ControlMessage]
             t == toAgent[s]
  <1>1. t \in Seq(S)
    BY DEF ChannelInv, ChannelTypes
  <1> HIDE DEF S, t
  <1>2. /\ Head(t) \in S /\ Tail(t) \in Seq(S) /\ Len(Tail(t)) = Len(t) - 1
        /\ \A i \in 1 .. Len(Tail(t)) : Tail(t)[i] = t[i + 1]
    BY <1>1, HeadTailProperties DEF t
  <1>3. Head(t) = t[1] /\ Len(t) \in Nat /\ Len(t) >= 1
    BY <1>1 DEF t
  <1>4. Len(t) = 1 => Tail(t) = <<>>
    <2>1. Len(t) = 1 => Len(Tail(t)) = 0
      BY <1>2
    <2> QED
      BY <1>2, <2>1, EmptySeq
  <1>5. Env1 = Head(t) /\ Head(t).message \in ControlMessage
    BY <1>2 DEF Env1, S, t
  <1>6. \A i \in 1 .. Len(Tail(t)) : i + 1 \in 1 .. Len(t)
    BY <1>2, <1>3
  <1>7. 1 \in 1 .. Len(t)
    BY <1>3
  <1> QED
    BY <1>2, <1>3, <1>4, <1>5, <1>6, <1>7 DEF S, t

\* A request is read and its answer begun: the client asked this and nothing
\* else, and what start_session counts on is done before it is acknowledged.
LEMMA TakeStep ==
    ASSUME ChannelInv, Receiving, NEW s \in Client, serving = s, toAgent[s] # <<>>,
           NEW m \in ControlMessage, m = Env1.message,
           NEW kind \in Kinds, NEW answer, AnswerTo(answer, m, kind), Take(answer),
           agent' \in Agent,
           m.method \in {"set_policy", "start_media"} =>
              agent'.sid = agent.sid /\ agent'.killed = agent.killed,
           kind = "ack" /\ m.method \in {"attach_session", "set_policy", "start_media"} =>
              agent'.sid = m.sid /\ ~agent'.killed,
           kind = "ack" /\ m.method = "start_media" => agent'.media,
           agent'.sid # NoSid => agent'.by = s,
           cfg.expected /\ cfg.secret[s] # "right" => agent' = FreshAgent
    PROVE  ChannelInv'
  <1>1. ChannelTypes
    BY DEF ChannelInv
  <1> DEFINE rest == Tail(toAgent[s])
  <1>2. /\ m = toAgent[s][1].message
        /\ Len(toAgent[s]) \in Nat /\ 1 \in 1 .. Len(toAgent[s])
        /\ rest \in Seq([v : Nat, message : ControlMessage])
        /\ Len(toAgent[s]) = 1 => rest = <<>>
        /\ \A i \in 1 .. Len(rest) : i + 1 \in 1 .. Len(toAgent[s]) /\ rest[i] = toAgent[s][i + 1]
    BY EnvFacts
  <1>3. /\ sending = <<>> /\ sending' = answer
        /\ toAgent' = [toAgent EXCEPT ![s] = rest]
        /\ UNCHANGED <<cfg, listener, queue, pending, link, toClient, call, todo, result, count,
                       retries, late, torn, serving>>
    BY DEF Take, Receiving, listen, client
  <1> HIDE DEF rest
  <1>4. ChannelTypes'
    BY <1>1, <1>2, <1>3 DEF ChannelTypes, AnswerTo
  <1>5. /\ \A d \in Client \ {s} : Same(d)
        /\ toAgent'[s] = rest /\ serving' = s
        /\ InQueue(s)' <=> InQueue(s)
        /\ InStep(s)' <=> InStep(s)
    BY <1>1, <1>3 DEF ChannelTypes, Same, InQueue, InStep
  <1>6. ~InQueue(s) /\ link[s] \in {"up", "closed"}
    BY DEF ChannelInv, ClientInv, LinkOf
  <1>7. ASSUME InStep(s)
        PROVE  /\ Talking(s) /\ call[s].st = "reply" /\ call[s].m = m
               /\ toClient[s] = <<>> /\ rest = <<>>
    <2>1. call[s].st # "idle" /\ Talking(s)
      BY <1>7 DEF ChannelInv, ClientInv, StreamOf, Quiet
    <2>2. /\ call[s].st = "reply" /\ Len(toAgent[s]) = 1 /\ toClient[s] = <<>>
          /\ toAgent[s][1].message = call[s].m
      BY <2>1 DEF Talking, Asked
    <2> QED
      BY <1>2, <2>1, <2>2
  <1>8. LinkOf(s)'
    BY <1>3, <1>5, <1>6 DEF ChannelInv, ClientInv, LinkOf
  <1>9. StreamOf(s)'
    <2>1. ASSUME InStep(s) PROVE Talking(s)'
      <3>1. Asked(s)' /\ Read(s)'
        BY <1>3, <1>5, <1>7, <2>1 DEF Talking, Asked, Read
      <3>2. Received(s)'
        <4>1. Len(toClient'[s]) = 0
          BY <1>3, <1>7, <2>1
        <4> QED
          BY <4>1 DEF Received
      <3>3. Coming(s)'
        BY <1>3, <1>5, <1>7, <2>1 DEF Coming, AnswerTo
      <3> QED
        BY <3>1, <3>2, <3>3 DEF Talking
    <2>2. InStep(s) => call[s].st # "idle"
      BY <1>7
    <2> QED
      BY <1>3, <1>5, <2>1, <2>2 DEF ChannelInv, ClientInv, StreamOf
  <1>10. StartOf(s)'
    <2> SUFFICES ASSUME InStep(s) PROVE StartOf(s)'
      BY <1>5 DEF StartOf
    <2>1. /\ call[s].st = "reply" /\ call[s].m = m /\ toClient[s] = <<>> /\ rest = <<>>
      BY <1>7
    <2>2. /\ result[s] # "ok"
          /\ todo[s] # <<>> => m.method = todo[s][1]
          /\ todo[s] \in {Last1, Last2} => HasSession(s)
      BY <2>1 DEF ChannelInv, ClientInv, StartOf
    <2>3. todo[s] \in {<<>>, Last1, Last2, BuildSessionStartSequence}
      BY <1>1 DEF ChannelTypes, Steps
    <2>4. /\ todo[s] = Last1 => m.method = "start_media"
          /\ todo[s] = Last2 => m.method = "set_policy"
          /\ todo[s] = BuildSessionStartSequence => m.method = "attach_session"
      BY <2>2, StepsTypes
    <2>5. todo[s] \in {Last1, Last2} => HasSession(s)'
      BY <1>3, <2>2, <2>4 DEF HasSession
    <2>6. Acked(s)' => kind = "ack"
      BY <1>3, <2>1 DEF Acked, AnswerTo
    <2>7. todo[s] # <<>> /\ Acked(s)' => HasSession(s)'
      BY <1>3, <2>1, <2>3, <2>4, <2>6 DEF HasSession
    <2>8. todo[s] = Last1 /\ Acked(s)' => agent'.media
      BY <2>4, <2>6
    <2> QED
      BY <1>3, <1>5, <1>6, <2>1, <2>2, <2>5, <2>7, <2>8 DEF ChannelInv, ClientInv, StartOf
  <1>11. SecretOf(s)'
    <2>1. ASSUME NEW i \in 1 .. Len(rest), rest[i].message.method = "attach_session"
          PROVE  rest[i].message.secret = cfg.secret[s]
      BY <1>2, <2>1 DEF ChannelInv, ClientInv, SecretOf
    <2> QED
      BY <1>3, <1>5, <2>1 DEF SecretOf
  <1>12. ClientInv(s)'
    BY <1>8, <1>9, <1>10, <1>11 DEF ClientInv
  <1>13. AgentInv'
    <2>1. \A i \in 1 .. Len(answer) : answer[i].kind = "drain_complete" => i = Len(answer)
      BY DEF AnswerTo
    <2>2. s # NoClient
      BY ControlAssumption
    <2> QED
      BY <1>3, <2>1, <2>2 DEF ChannelInv, AgentInv, SessionDiesWithConnection, UnprovenNeverActs
  <1> QED
    BY <1>3, <1>4, <1>5, <1>12, <1>13, ServedStep

\* A connection that has not presented the secret is refused everything.
LEMMA UnprovenIsRefused ==
    ASSUME ChannelInv, NEW s \in Client, serving = s, toAgent[s] # <<>>,
           cfg.expected, cfg.secret[s] # "right"
    PROVE  agent = FreshAgent /\ ~Admitted(Env1.message)
  <1>1. agent = FreshAgent
    BY ControlAssumption DEF ChannelInv, AgentInv, UnprovenNeverActs
  <1>2. agent.sid = NoSid
    BY <1>1 DEF FreshAgent
  <1>3. Env1.message.method = "attach_session" => Env1.message.secret = cfg.secret[s]
    BY EnvFacts DEF ChannelInv, ClientInv, SecretOf
  <1> QED
    BY <1>1, <1>2, <1>3 DEF Admitted, BootSecretOk

\* The agent session after a request that is applied.
LEMMA AppliedFacts ==
    ASSUME ChannelInv, NEW s \in Client, serving = s, NEW m \in ControlMessage,
           Accepts(m)
    PROVE  /\ Applied(m) \in Agent
           /\ m.method \in {"set_policy", "start_media"} =>
                 Applied(m).sid = agent.sid /\ Applied(m).killed = agent.killed
           /\ m.method \in {"attach_session", "set_policy", "start_media"} =>
                 Applied(m).sid = m.sid /\ ~Applied(m).killed
           /\ m.method = "start_media" => Applied(m).media
           /\ Applied(m).sid # NoSid => Applied(m).by = s
  <1>1. agent \in Agent /\ m.method \in Methods /\ m.sid \in Sid \cup {NoSid}
    BY DEF ChannelInv, ChannelTypes, ControlMessage
  <1>2. agent.sid # NoSid => agent.by = s
    BY DEF ChannelInv, AgentInv, SessionDiesWithConnection
  <1>3. CASE m.method = "attach_session"
    BY <1>1, <1>3 DEF Applied, Agent
  <1>4. CASE m.method \in {"detach_session", "shutdown_session"}
    BY <1>1, <1>4 DEF Applied, Agent, NewAgentSession, FreshAgent
  <1>5. CASE m.method \in {"set_policy", "signal_forward", "query_stats"}
    BY <1>1, <1>2, <1>5 DEF Applied, Accepts, Matches
  <1>6. CASE m.method = "start_media"
    <2>1. Applied(m) = [agent EXCEPT !.media = TRUE]
      BY <1>6 DEF Applied
    <2> QED
      BY <1>1, <1>2, <1>6, <2>1 DEF Accepts, Matches, Agent
  <1>7. CASE m.method = "kill_switch"
    <2>1. Applied(m) = [agent EXCEPT !.killed = TRUE, !.media = FALSE]
      BY <1>7 DEF Applied
    <2> QED
      BY <1>1, <1>2, <1>7, <2>1 DEF Agent
  <1> QED
    BY <1>1, <1>3, <1>4, <1>5, <1>6, <1>7 DEF Methods

\* A request is refused, applied, or answered by an error.
LEMMA HandleStep ==
    ASSUME ChannelInv, Refuse \/ HandleApplied \/ HandleError
    PROVE  ChannelInv'
  <1>1. serving # NoClient /\ Receiving /\ toAgent[serving] # <<>>
    BY DEF Refuse, HandleApplied, HandleError, Receiving
  <1>2. PICK s \in Client : serving = s
    BY <1>1 DEF ChannelInv, ChannelTypes
  <1>3. PICK m \in ControlMessage : m = Env1.message
    BY <1>1, <1>2, EnvFacts
  <1>4. agent \in Agent /\ (agent.sid # NoSid => agent.by = s)
    BY <1>2 DEF ChannelInv, ChannelTypes, AgentInv, SessionDiesWithConnection
  <1>5. <<>> \in Signals(m, FALSE)
    BY DEF Signals
  <1>6. /\ cfg.expected /\ cfg.secret[s] # "right" => agent = FreshAgent /\ ~Admitted(m)
    BY <1>1, <1>2, <1>3, UnprovenIsRefused
  <1>7. CASE Refuse
    <2>1. Take(Answer("auth_failed", m.id, <<>>)) /\ agent' = agent
      BY <1>3, <1>7 DEF Refuse
    <2>2. AnswerTo(Answer("auth_failed", m.id, <<>>), m, "auth_failed")
      BY <1>5, AnswerShape DEF Kinds
    <2> QED
      BY <1>1, <1>2, <1>3, <1>4, <1>6, <2>1, <2>2, TakeStep DEF Kinds
  <1>8. CASE HandleApplied
    <2>1. /\ Admitted(m) /\ Accepts(m) /\ agent' = Applied(m)
          /\ \E signals \in Signals(m, agent'.sid # NoSid /\ ~agent'.killed) :
                Take(Answer(Success(m), m.id, signals))
      BY <1>3, <1>8 DEF HandleApplied
    <2>2. PICK signals \in Signals(m, agent'.sid # NoSid /\ ~agent'.killed) :
                Take(Answer(Success(m), m.id, signals))
      BY <2>1
    <2>3. Success(m) \in Kinds
      BY DEF Success, Kinds
    <2>4. AnswerTo(Answer(Success(m), m.id, signals), m, Success(m))
      BY <2>2, <2>3, AnswerShape
    <2>5. /\ agent' \in Agent
          /\ m.method \in {"set_policy", "start_media"} =>
                agent'.sid = agent.sid /\ agent'.killed = agent.killed
          /\ m.method \in {"attach_session", "set_policy", "start_media"} =>
                agent'.sid = m.sid /\ ~agent'.killed
          /\ m.method = "start_media" => agent'.media
          /\ agent'.sid # NoSid => agent'.by = s
      BY <1>2, <2>1, AppliedFacts
    <2> QED
      BY <1>1, <1>2, <1>3, <1>6, <2>1, <2>2, <2>3, <2>4, <2>5, TakeStep
  <1>9. CASE HandleError
    <2>1. /\ Admitted(m) /\ Take(Answer("error", m.id, <<>>))
          /\ agent' = agent \/ agent' = [agent EXCEPT !.media = FALSE]
      BY <1>3, <1>9 DEF HandleError
    <2>2. AnswerTo(Answer("error", m.id, <<>>), m, "error")
      BY <1>5, AnswerShape DEF Kinds
    <2>3. /\ agent' \in Agent /\ agent'.sid = agent.sid /\ agent'.killed = agent.killed
          /\ agent'.by = agent.by
      BY <1>4, <2>1 DEF Agent
    <2> QED
      BY <1>1, <1>2, <1>3, <1>4, <1>6, <2>1, <2>2, <2>3, TakeStep DEF Kinds
  <1> QED
    BY <1>7, <1>8, <1>9

-----------------------------------------------------------------------------
\* The whole specification.

\* Nothing is connected at first.
LEMMA ChannelInit ==
    ASSUME ControlInit PROVE ChannelInv
  <1>1. cfg \in Config
    BY ControlAssumption DEF ControlInit
  <1>2. /\ listener = "up" /\ queue = <<>> /\ pending = TRUE /\ serving = NoClient
        /\ agent = FreshAgent /\ sending = <<>> /\ cfg \in Configs
    BY DEF ControlInit, Bound
  <1>3. FreshAgent \in Agent /\ FreshAgent.sid = NoSid
    BY DEF FreshAgent, Agent
  <1>4. Idle \in Call /\ Idle.st = "idle"
    <2>1. <<>> \in Seq(Nat)
      BY EmptySeq
    <2> QED
      BY <2>1 DEF Idle, Call
  <1>5. /\ queue \in Seq(Client) /\ Len(queue) = 0 /\ sending \in Seq(Replies)
        /\ Len(sending) = 0
    BY <1>2, EmptySeq
  <1>6. toAgent \in [Client -> Seq([v : Nat, message : ControlMessage])]
    <2>1. <<>> \in Seq([v : Nat, message : ControlMessage])
      BY EmptySeq
    <2> QED
      BY <2>1 DEF ControlInit
  <1>7. toClient \in [Client -> Seq(Replies)]
    <2>1. <<>> \in Seq(Replies)
      BY EmptySeq
    <2> QED
      BY <2>1 DEF ControlInit
  <1>8. ChannelTypes
    <2>1. call \in [Client -> Call] /\ todo \in [Client -> Steps]
      BY <1>4, StepsTypes DEF ControlInit
    <2> QED
      BY <1>2, <1>3, <1>5, <1>6, <1>7, <2>1 DEF ControlInit, ChannelTypes
  <1>9. ASSUME NEW c \in Client PROVE ClientInv(c)
    <2>1. /\ link[c] = "down" /\ toAgent[c] = <<>> /\ toClient[c] = <<>> /\ call[c] = Idle
          /\ todo[c] = <<>> /\ result[c] = "none" /\ count[c] = 0 /\ torn[c] = FALSE
          /\ Len(toAgent[c]) = 0 /\ serving # c /\ ~InQueue(c)
      BY <1>2, <1>5, ControlAssumption DEF ControlInit, InQueue
    <2>2. count[c] + Left(todo[c]) <= cfg.max_requests[c]
      <3>1. cfg.max_requests[c] \in Nat
        BY <1>2, ConfigTypes
      <3>2. count[c] = 0 /\ Left(todo[c]) = 0
        BY <2>1, StepsTypes
      <3> QED
        BY <3>1, <3>2
    <2>3. LinkOf(c)
      BY <1>4, <2>1, <2>2 DEF LinkOf
    <2>4. StreamOf(c) /\ StartOf(c) /\ SecretOf(c)
      BY <1>4, <2>1 DEF StreamOf, Quiet, StartOf, SecretOf
    <2> QED
      BY <2>3, <2>4 DEF ClientInv
  <1>10. AgentInv
    BY <1>2, <1>3, <1>5 DEF AgentInv, SessionDiesWithConnection, UnprovenNeverActs
  <1> QED
    BY <1>8, <1>9, <1>10 DEF ChannelInv

\* A step that changes nothing.
LEMMA ChannelStutter ==
    ASSUME ChannelInv, UNCHANGED cvars PROVE ChannelInv'
  <1>1. \A d \in Client : Same(d) /\ (InQueue(d)' <=> InQueue(d))
    BY DEF cvars, Same, InQueue
  <1>2. UNCHANGED <<cfg, listener, queue, pending, link, toAgent, toClient, call, todo, result,
                    count, retries, late, torn, serving, agent, sending>>
    BY DEF cvars
  <1>3. ASSUME NEW d \in Client PROVE ClientInv(d)'
    BY <1>1, <1>2, SameKeeps DEF ChannelInv
  <1>4. ChannelTypes'
    BY <1>2 DEF ChannelInv, ChannelTypes
  <1>5. AgentInv'
    BY <1>2 DEF ChannelInv, AgentInv, SessionDiesWithConnection, UnprovenNeverActs
  <1> QED
    BY <1>3, <1>4, <1>5 DEF ChannelInv

\* Every step keeps the invariant.
LEMMA ChannelStep ==
    ASSUME ChannelInv, [ControlNext]_cvars PROVE ChannelInv'
  <1>1. CASE UNCHANGED cvars
    BY <1>1, ChannelStutter
  <1>2. ASSUME NEW c \in Client, Connecting(c) PROVE ChannelInv'
    BY <1>2, ConnectingStep
  <1>3. ASSUME NEW c \in Client, Calling(c) PROVE ChannelInv'
    <2>1. ASSUME NEW r \in Requests[c], Request(c, r.method, r.sid, r.big) PROVE ChannelInv'
      <3>1. r \in Wish
        BY ControlAssumption
      <3>2. r.method \in Methods /\ r.sid \in Sid \cup {NoSid} /\ r.big \in BOOLEAN
        BY <3>1 DEF Wish
      <3> QED
        BY <2>1, <3>2, RequestStep
    <2>2. ASSUME NEW sid \in Sid, StartSession(c, sid) PROVE ChannelInv'
      BY <2>2, StartSessionStep
    <2> QED
      BY <1>3, <2>1, <2>2 DEF Calling
  <1>4. ASSUME NEW c \in Client, Reading(c) PROVE ChannelInv'
    BY <1>4, RecvReplyStep, RecvOutboundStep, RecvDrainedStep, RecvProtocolErrorStep,
       ReadTimeoutStep, RecvEofStep DEF Reading
  <1>5. ASSUME NEW c \in Client, Close(c) PROVE ChannelInv'
    BY <1>5, CloseStep
  <1>6. CASE Serving
    <2>1. AgentSendFails \/ AgentRecvFails => Drop /\ serving # NoClient
      BY DEF AgentSendFails, AgentRecvFails, Receiving
    <2> QED
      BY <1>6, <2>1, AcceptStep, NobodyStep, HandleStep, AgentSendStep, DropStep DEF Serving
  <1>7. CASE AgentReadTimeout
    <2>1. Drop /\ serving # NoClient
      BY <1>7 DEF AgentReadTimeout, Receiving
    <2> QED
      BY <2>1, DropStep
  <1> QED
    BY <1>1, <1>2, <1>3, <1>4, <1>5, <1>6, <1>7 DEF ControlNext

\* Every endpoint is found again from its printed form (parse_control_endpoint,
\* format_endpoint).
LEMMA EndpointsFoundAgain == EndpointRoundTrip
  <1> SUFFICES ASSUME NEW windows \in {Pipe, TRUE}, NEW t \in Texts
               PROVE  LET e == ParseControlEndpoint(windows, t) IN
                      e # <<"error">> /\ (t.form = "path" => t.arg # "") =>
                          /\ ParseControlEndpoint(windows, FormatEndpoint(e)) = e
                          /\ e[1] = "pipe" => e[2] # ""
    BY DEF EndpointRoundTrip
  <1> DEFINE e == ParseControlEndpoint(windows, t)
  <1>1. CASE t.form \in {"tcp:", "bare"}
    BY <1>1 DEF ParseControlEndpoint, FormatEndpoint, TcpLocalhost
  <1>2. CASE t.form \notin {"tcp:", "bare"} /\ ~windows
    BY <1>2 DEF ParseControlEndpoint
  <1>3. CASE t.form \notin {"tcp:", "bare"} /\ windows
    <2>1. /\ t.form \in {"pipe", "pipe:", "path"}
          /\ t.form = "pipe" \/ t.arg \in Leaves
      <3>1. t \notin PortTexts
        BY <1>3 DEF PortTexts
      <3>2. t \in PipeTexts
        BY <3>1 DEF Texts
      <3> QED
        BY <3>2 DEF PipeTexts
    <2>2. (t.form = "path" => t.arg # "") =>
             \E leaf \in {"default", "a"} : e = NamedPipe(leaf)
      BY <1>3, <2>1 DEF ParseControlEndpoint, Leaves, DefaultPipeName
    <2>3. ASSUME NEW leaf \in {"default", "a"}
          PROVE  /\ ParseControlEndpoint(windows, FormatEndpoint(NamedPipe(leaf))) = NamedPipe(leaf)
                 /\ NamedPipe(leaf)[2] # ""
      BY <1>3 DEF ParseControlEndpoint, FormatEndpoint, NamedPipe
    <2> QED
      BY <2>2, <2>3
  <1> QED
    BY <1>1, <1>2, <1>3

\* The control connection's state has its types, the streams are in step and
\* start_session's steps are done when they are acknowledged
\* (control_loop.rs request, run_agent_control_server).
THEOREM ChannelInvCorrect == ControlSpec => []ChannelInv
  <1>1. ControlInit => ChannelInv
    BY ChannelInit
  <1>2. ChannelInv /\ [ControlNext]_cvars => ChannelInv'
    BY ChannelStep
  <1> QED
    BY <1>1, <1>2, PTL DEF ControlSpec

\* The service is told the truth: replies, signals and start_session's
\* outcome are those of the requests it sent (control_loop.rs request,
\* start_session).
THEOREM NotMisledCorrect == ControlSpec => []ClientNotMisled
  <1>1. ChannelInv => ClientNotMisled
    <2> SUFFICES ASSUME ChannelInv PROVE ClientNotMisled
      OBVIOUS
    <2>1. ASSUME NEW c \in Client, ~late[c], call[c].st = "drain"
          PROVE  /\ call[c].reply.id = call[c].m.id /\ call[c].reply.kind # "drain_complete"
                 /\ \A i \in DOMAIN call[c].out : call[c].out[i] = call[c].m.id
      <3>1. link[c] # "closed" /\ Read(c)
        BY <2>1 DEF ChannelInv, ClientInv, LinkOf, StreamOf, InStep, Talking
      <3>2. call[c].out \in Seq(Nat)
        BY CallTypes DEF ChannelInv
      <3>3. DOMAIN call[c].out = 1 .. Len(call[c].out)
        BY <3>2, LenProperties
      <3> QED
        BY <2>1, <3>1, <3>3 DEF Read
    <2>2. ASSUME NEW c \in Client, result[c] = "ok", serving = c, ~late[c]
          PROVE  agent.sid = call[c].m.sid /\ agent.media /\ ~agent.killed
      <3>1. link[c] # "closed"
        BY <2>2 DEF ChannelInv, ClientInv, LinkOf
      <3> QED
        BY <2>2, <3>1 DEF ChannelInv, ClientInv, StartOf, InStep, HasSession
    <2> QED
      BY <2>1, <2>2 DEF ClientNotMisled, ReplyIsOwn, StartedIsAttached
  <1> QED
    BY <1>1, ChannelInvCorrect, PTL

\* The agent acts for the connection it serves and for one that may
\* (serve_agent_connection, run_agent_control_server).
THEOREM AgentServesCorrect == ControlSpec => []AgentServesConnection
  <1>1. ChannelInv => AgentServesConnection
    <2> SUFFICES ASSUME ChannelInv PROVE AgentServesConnection
      OBVIOUS
    <2>1. ChannelTypes /\ SessionDiesWithConnection /\ UnprovenNeverActs
      BY DEF ChannelInv, AgentInv
    <2>2. ASSUME NEW c \in Client
          PROVE  /\ \A i \in DOMAIN toAgent[c] : toAgent[c][i].message \in ControlMessage
                 /\ \A i \in DOMAIN toClient[c] : toClient[c][i] \in Replies
                 /\ call[c].st \in {"idle", "reply", "drain"}
                 /\ result[c] \in {"none", "ok", "err"} /\ count[c] \in 0 .. cfg.max_requests[c]
      <3> DEFINE S == [v : Nat, message : ControlMessage]
      <3>1. toAgent[c] \in Seq(S) /\ toClient[c] \in Seq(Replies)
        BY <2>1 DEF ChannelTypes
      <3>2. \A x \in S : x.message \in ControlMessage
        OBVIOUS
      <3> HIDE DEF S
      <3>3. \A i \in DOMAIN toAgent[c] : toAgent[c][i] \in S
        BY <3>1, LenProperties
      <3>4. \A i \in DOMAIN toClient[c] : toClient[c][i] \in Replies
        BY <3>1, LenProperties
      <3>5. count[c] \in 0 .. cfg.max_requests[c]
        <4>1. count[c] \in Nat /\ Left(todo[c]) \in Nat /\ cfg.max_requests[c] \in Nat
          BY <2>1, ConfigTypes, StepsTypes DEF ChannelTypes
        <4>2. count[c] + Left(todo[c]) <= cfg.max_requests[c]
          BY DEF ChannelInv, ClientInv, LinkOf
        <4> QED
          BY <4>1, <4>2
      <3>6. call[c].st \in {"idle", "reply", "drain"}
        BY <2>1, CallTypes
      <3>7. result[c] \in {"none", "ok", "err"}
        BY <2>1 DEF ChannelTypes
      <3> QED
        BY <3>2, <3>3, <3>4, <3>5, <3>6, <3>7
    <2>3. /\ listener \in {"up", "exited"} /\ pending \in BOOLEAN
          /\ queue \in Seq(Client)
          /\ link \in [Client -> {"down", "up", "lost", "closed"}]
          /\ serving \in Client \cup {NoClient}
          /\ agent.sid \in Sid \cup {NoSid} /\ agent.by \in Client \cup {NoClient}
      BY <2>1 DEF ChannelTypes, Agent
    <2>4. ControlTypeOK
      BY <2>2, <2>3 DEF ControlTypeOK
    <2> QED
      BY <2>1, <2>4, EndpointsFoundAgain DEF AgentServesConnection
  <1> QED
    BY <1>1, ChannelInvCorrect, PTL

-----------------------------------------------------------------------------
\* Where positions land.

\* Division by a positive number, rounded down.
LEMMA DivBounds ==
    ASSUME NEW a \in Nat, NEW d \in Nat \ {0}
    PROVE  /\ a \div d \in Nat /\ d * (a \div d) <= a /\ a < d * (a \div d) + d
  OBVIOUS

LEMMA DivMonotonic ==
    ASSUME NEW a \in Nat, NEW b \in Nat, NEW d \in Nat \ {0}, a <= b
    PROVE  a \div d <= b \div d
  OBVIOUS

\* Scale keeps to the axis, takes its ends to its ends, and keeps the order.
LEMMA ScaleFacts ==
    ASSUME NEW top \in Nat
    PROVE  /\ \A n \in Int : Scale(n, top) \in 0 .. top
           /\ Scale(0, top) = 0 /\ Scale(Grid, top) = top
           /\ \A m, n \in Int : m <= n => Scale(m, top) <= Scale(n, top)
  <1> DEFINE G == Grid
             D == 2 * G
             N(n) == 2 * Clamp(n) * top + G
  <1>1. G \in Nat \ {0} /\ D \in Nat \ {0}
    BY InputAssumption
  <1>2. \A n \in Int : Clamp(n) \in 0 .. G
    BY <1>1 DEF Clamp
  <1>3. Clamp(0) = 0 /\ Clamp(G) = G
    BY <1>1 DEF Clamp
  <1>4. \A m, n \in Int : m <= n => Clamp(m) <= Clamp(n)
    BY <1>1 DEF Clamp
  <1>5. ASSUME NEW c \in 0 .. G PROVE c * top \in Nat /\ c * top <= G * top
    BY <1>1, <1>5
  <1>6. \A n \in Int : N(n) \in Nat /\ N(n) <= D * top + G
    <2> TAKE n \in Int
    <2> DEFINE c == Clamp(n)
    <2>1. c \in 0 .. G
      BY <1>2
    <2>2. c * top \in Nat /\ c * top <= G * top /\ G * top \in Nat
      BY <1>1, <1>5, <2>1
    <2>3. 2 * c * top = 2 * (c * top) /\ D * top = 2 * (G * top)
      BY <1>1, <2>1
    <2> QED
      BY <1>1, <2>2, <2>3
  <1>7. \A n \in Int : Scale(n, top) = N(n) \div D
    BY DEF Scale
  <1>8. ASSUME NEW n \in Int PROVE Scale(n, top) \in 0 .. top
    <2> DEFINE q == N(n) \div D
    <2>1. q \in Nat /\ D * q <= N(n)
      BY <1>1, <1>6, DivBounds
    <2>2. D * q <= D * top + G
      BY <1>1, <1>6, <2>1
    <2>3. q <= top
      <3> SUFFICES ASSUME q >= top + 1 PROVE FALSE
        BY <2>1
      <3> HIDE DEF q
      <3>1. D * q >= D * (top + 1)
        BY <1>1, <2>1
      <3>2. D * (top + 1) = D * top + D
        BY <1>1
      <3> QED
        BY <1>1, <2>1, <2>2, <3>1, <3>2
    <2> QED
      BY <1>7, <2>1, <2>3
  <1>9. Scale(0, top) = 0
    <2>1. N(0) = G
      BY <1>1, <1>3
    <2>2. G \div D = 0
      BY <1>1
    <2> QED
      BY <1>7, <2>1, <2>2
  <1>10. Scale(G, top) = top
    <2> DEFINE q == N(G) \div D
    <2>1. N(G) = D * top + G
      BY <1>1, <1>3
    <2>2. q \in Nat /\ N(G) < D * q + D
      <3>1. G \in Int
        BY <1>1
      <3>2. N(G) \in Nat
        BY <1>6, <3>1
      <3> HIDE DEF N, D
      <3> QED
        BY <1>1, <3>2, DivBounds
    <2>3. q >= top
      <3> SUFFICES ASSUME q + 1 <= top PROVE FALSE
        BY <2>2
      <3> HIDE DEF q
      <3>1. D * (q + 1) <= D * top
        BY <1>1, <2>2
      <3>2. D * (q + 1) = D * q + D
        BY <1>1, <2>2
      <3> QED
        BY <1>1, <2>1, <2>2, <3>1, <3>2
    <2>4. q = Scale(G, top) /\ q <= top
      BY <1>1, <1>7, <1>8
    <2> QED
      BY <2>2, <2>3, <2>4
  <1>11. ASSUME NEW m \in Int, NEW n \in Int, m <= n
         PROVE  Scale(m, top) <= Scale(n, top)
    <2> DEFINE c == Clamp(m)
               d == Clamp(n)
    <2>1. c \in Nat /\ d \in Nat /\ c <= d
      BY <1>1, <1>2, <1>4, <1>11
    <2>2. 2 * c * top <= 2 * d * top
      <3> HIDE DEF c, d
      <3> QED
        BY <2>1
    <2>3. N(m) \in Nat /\ N(n) \in Nat /\ N(m) <= N(n)
      BY <1>1, <1>6, <2>1, <2>2
    <2> HIDE DEF N, D
    <2> QED
      BY <1>1, <1>7, <2>3, DivMonotonic
  <1> QED
    BY <1>8, <1>9, <1>10, <1>11

\* Every position of a viewer's picture lands on the screen it was taken of.
LEMMA PositionsLand ==
    /\ AbsMax \in Nat
    /\ \A n \in Int : MapAbs(n) \in 0 .. AbsMax
    /\ MapAbs(0) = 0 /\ MapAbs(Grid) = AbsMax
    /\ \A w \in Widths : LET top == IF w = 0 THEN 0 ELSE w - 1 IN
        /\ \A m, n \in Positions : m <= n => MapToPixels(w, m) <= MapToPixels(w, n)
        /\ MapToPixels(w, 0) = 0 /\ MapToPixels(w, Grid) = top
        /\ \A n \in Positions : MapToPixels(w, n) \in 0 .. top
  <1>0. AbsMax \in Nat
    BY DEF AbsMax
  <1>1. \A n \in Int : MapAbs(n) \in 0 .. AbsMax
    BY <1>0, ScaleFacts DEF MapAbs
  <1>2. MapAbs(0) = 0 /\ MapAbs(Grid) = AbsMax
    BY <1>0, ScaleFacts DEF MapAbs
  <1>3. ASSUME NEW w \in Widths
        PROVE  LET top == IF w = 0 THEN 0 ELSE w - 1 IN
            /\ \A m, n \in Positions : m <= n => MapToPixels(w, m) <= MapToPixels(w, n)
            /\ MapToPixels(w, 0) = 0 /\ MapToPixels(w, Grid) = top
            /\ \A n \in Positions : MapToPixels(w, n) \in 0 .. top
    <2> DEFINE top == IF w = 0 THEN 0 ELSE w - 1
    <2>1. w \in Nat /\ Positions \subseteq Int
      BY InputAssumption
    <2>2. top \in Nat /\ (IF w = 0 THEN 1 ELSE w) - 1 = top
      BY <2>1
    <2>3. \A n : MapToPixels(w, n) = Scale(n, top)
      BY <2>2 DEF MapToPixels
    <2> HIDE DEF top
    <2>4. /\ \A n \in Int : Scale(n, top) \in 0 .. top
          /\ Scale(0, top) = 0 /\ Scale(Grid, top) = top
          /\ \A m, n \in Int : m <= n => Scale(m, top) <= Scale(n, top)
      BY <2>2, ScaleFacts
    <2>5. /\ \A m, n \in Positions : m <= n => MapToPixels(w, m) <= MapToPixels(w, n)
          /\ MapToPixels(w, 0) = 0 /\ MapToPixels(w, Grid) = top
          /\ \A n \in Positions : MapToPixels(w, n) \in 0 .. top
      BY <2>1, <2>3, <2>4
    <2> QED
      BY <2>5 DEF top
  <1>4. \A w \in Widths : LET top == IF w = 0 THEN 0 ELSE w - 1 IN
            /\ \A m, n \in Positions : m <= n => MapToPixels(w, m) <= MapToPixels(w, n)
            /\ MapToPixels(w, 0) = 0 /\ MapToPixels(w, Grid) = top
            /\ \A n \in Positions : MapToPixels(w, n) \in 0 .. top
    BY <1>3
  <1> QED
    BY <1>0, <1>1, <1>2, <1>4

-----------------------------------------------------------------------------
\* When events were accepted.

\* The entries of a sequence of times from lo to hi.
In(s, lo, hi) == {i \in DOMAIN s : s[i] \in lo .. hi}

LEMMA InFinite ==
    ASSUME NEW s \in Seq(Nat), NEW lo \in Int, NEW hi \in Int
    PROVE  IsFiniteSet(In(s, lo, hi)) /\ Cardinality(In(s, lo, hi)) \in Nat
  <1>1. DOMAIN s = 1 .. Len(s) /\ Len(s) \in Int
    OBVIOUS
  <1>2. IsFiniteSet(1 .. Len(s))
    BY <1>1, FS_Interval
  <1>3. In(s, lo, hi) \in SUBSET (1 .. Len(s))
    BY <1>1 DEF In
  <1> QED
    BY <1>2, <1>3, FS_Subset, FS_CardinalityType

LEMMA InMonotone ==
    ASSUME NEW s \in Seq(Nat), NEW lo \in Int, NEW hi \in Int, NEW l \in Int, NEW h \in Int,
           \A i \in DOMAIN s : s[i] \in l .. h => s[i] \in lo .. hi
    PROVE  Cardinality(In(s, l, h)) <= Cardinality(In(s, lo, hi))
  <1>1. In(s, l, h) \in SUBSET In(s, lo, hi)
    BY DEF In
  <1> QED
    BY <1>1, InFinite, FS_Subset

\* An interval holds no more than two that cover it.
LEMMA InCovered ==
    ASSUME NEW s \in Seq(Nat), NEW l \in Int, NEW h \in Int,
           NEW l1 \in Int, NEW h1 \in Int, NEW l2 \in Int, NEW h2 \in Int,
           \A i \in DOMAIN s : s[i] \in l .. h => s[i] \in l1 .. h1 \/ s[i] \in l2 .. h2
    PROVE  Cardinality(In(s, l, h)) <= Cardinality(In(s, l1, h1)) + Cardinality(In(s, l2, h2))
  <1> DEFINE A == In(s, l1, h1)
             B == In(s, l2, h2)
  <1>1. In(s, l, h) \in SUBSET (A \cup B)
    BY DEF In
  <1>2. IsFiniteSet(A) /\ IsFiniteSet(B) /\ Cardinality(A) \in Nat /\ Cardinality(B) \in Nat
    BY InFinite
  <1>3. Cardinality(In(s, l, h)) \in Nat
    BY InFinite
  <1> HIDE DEF A, B
  <1>4. /\ IsFiniteSet(A \cup B)
        /\ Cardinality(A \cup B) = Cardinality(A) + Cardinality(B) - Cardinality(A \cap B)
    BY <1>2, FS_Union
  <1>5. Cardinality(A \cap B) \in Nat
    BY <1>2, A \cap B \in SUBSET A, FS_Subset, FS_CardinalityType
  <1>6. Cardinality(In(s, l, h)) <= Cardinality(A \cup B)
    BY <1>1, <1>4, FS_Subset
  <1>7. Cardinality(A \cup B) \in Nat
    BY <1>4, FS_CardinalityType
  <1>8. Cardinality(In(s, l, h)) <= Cardinality(A) + Cardinality(B)
    BY <1>2, <1>3, <1>4, <1>5, <1>6, <1>7
  <1> QED
    BY <1>8 DEF A, B

\* One more entry counts where it falls.
LEMMA InAppend ==
    ASSUME NEW s \in Seq(Nat), NEW n \in Nat, NEW lo \in Int, NEW hi \in Int
    PROVE  Cardinality(In(Append(s, n), lo, hi))
             = Cardinality(In(s, lo, hi)) + (IF n \in lo .. hi THEN 1 ELSE 0)
  <1> DEFINE k == Len(s) + 1
             S == In(s, lo, hi)
  <1>1. /\ Append(s, n) \in Seq(Nat) /\ DOMAIN Append(s, n) = (DOMAIN s) \cup {k}
        /\ Append(s, n)[k] = n /\ k \notin DOMAIN s
        /\ \A i \in DOMAIN s : Append(s, n)[i] = s[i]
    BY AppendProperties
  <1>2. IsFiniteSet(S) /\ Cardinality(S) \in Nat /\ k \notin S
    BY <1>1, InFinite DEF In
  <1>3. CASE n \in lo .. hi
    <2>1. In(Append(s, n), lo, hi) = S \cup {k}
      BY <1>1, <1>3 DEF In
    <2> QED
      BY <1>2, <1>3, <2>1, FS_AddElement
  <1>4. CASE n \notin lo .. hi
    <2>1. In(Append(s, n), lo, hi) = S
      BY <1>1, <1>4 DEF In
    <2> QED
      BY <1>2, <1>4, <2>1
  <1> QED
    BY <1>3, <1>4

-----------------------------------------------------------------------------
\* The inductive invariant.

InputTypes ==
    /\ InputTypeOK
    /\ metrics \in [accepted : Nat, dropped : Nat] /\ admitted \in Seq(Nat)
    /\ os \in [pointer : 0 .. AbsMax, keys : SUBSET Keys, buttons : SUBSET {"left"},
               clicked : {<<>>} \cup ((0 .. AbsMax) \X (0 .. AbsMax))]
    /\ registrar \in [of : Handles \cup {0}, armed : [Handles \cup {0} -> BOOLEAN]]

\* Everything accepted so far was accepted in the window or before it; the
\* window has counted what it holds; the second that ends where the window
\* starts overlaps one earlier window at most.
WindowInv ==
    /\ \A i \in DOMAIN admitted : admitted[i] <= now /\ admitted[i] < window_start + Second
    /\ Cardinality(In(admitted, window_start, window_start + Second - 1)) <= window_count
    /\ Cardinality(In(admitted, window_start - Second + 1, window_start - 1)) <= MaxEvents
    /\ \A t \in Nat : Cardinality(In(admitted, t, t + Second - 1)) <= 2 * MaxEvents

InputInv == InputTypes /\ WindowInv /\ KeysInStep /\ ClickAtPointer /\ LiveHandleTriggers

-----------------------------------------------------------------------------
\* The rate limiter.

LEMMA MaxEventsFact == MaxEvents \in Nat \ {0}
  BY InputAssumption DEF MaxEvents

LEMMA MaxEventsConstant == MaxEvents' = MaxEvents
  BY DEF MaxEvents

\* Rolling the window keeps its invariant: a new window starts after all
\* that the old one has accepted.
LEMMA RollKeeps ==
    ASSUME InputTypes, WindowInv
    PROVE  LET w == RollWindowIfNeeded IN
           /\ w.start \in 0 .. now /\ w.count \in 0 .. MaxEvents /\ now < w.start + Second
           /\ \A i \in DOMAIN admitted : admitted[i] < w.start + Second
           /\ Cardinality(In(admitted, w.start, w.start + Second - 1)) <= w.count
           /\ Cardinality(In(admitted, w.start - Second + 1, w.start - 1)) <= MaxEvents
  <1> DEFINE w == RollWindowIfNeeded
             Kept == /\ w.start \in 0 .. now /\ w.count \in 0 .. MaxEvents /\ now < w.start + Second
                     /\ \A i \in DOMAIN admitted : admitted[i] < w.start + Second
                     /\ Cardinality(In(admitted, w.start, w.start + Second - 1)) <= w.count
                     /\ Cardinality(In(admitted, w.start - Second + 1, w.start - 1)) <= MaxEvents
  <1>1. /\ now \in Nat /\ window_start \in 0 .. now /\ window_count \in 0 .. MaxEvents
        /\ admitted \in Seq(Nat) /\ Second \in Nat \ {0} /\ MaxEvents \in Nat
        /\ \A i \in DOMAIN admitted : admitted[i] \in Nat
    BY InputAssumption, MaxEventsFact, ElementOfSeq DEF InputTypes, InputTypeOK
  <1>2. CASE now - window_start >= Second
    <2>1. w.start = now /\ w.count = 0
      BY <1>2 DEF RollWindowIfNeeded
    <2>a. \A i \in DOMAIN admitted : admitted[i] < window_start + Second
      BY DEF WindowInv
    <2>2. \A i \in DOMAIN admitted : admitted[i] \in Nat /\ admitted[i] < now
      BY <1>1, <1>2, <2>a
    <2>3. In(admitted, now, now + Second - 1) = {}
      BY <1>1, <2>2 DEF In
    <2>4. Cardinality(In(admitted, now, now + Second - 1)) = 0
      BY <2>3, FS_EmptySet
    <2>5. \A i \in DOMAIN admitted : admitted[i] \in now - Second + 1 .. now - 1
                => admitted[i] \in window_start .. window_start + Second - 1
      BY <1>1, <1>2, <2>a
    <2>6. Cardinality(In(admitted, now - Second + 1, now - 1))
            <= Cardinality(In(admitted, window_start, window_start + Second - 1))
      BY <1>1, <2>5, InMonotone
    <2>7. Cardinality(In(admitted, now - Second + 1, now - 1)) <= MaxEvents
      <3> DEFINE a == Cardinality(In(admitted, now - Second + 1, now - 1))
                 b == Cardinality(In(admitted, window_start, window_start + Second - 1))
      <3>1. a \in Nat /\ b \in Nat
        BY <1>1, InFinite
      <3>2. a <= b /\ b <= window_count
        BY <2>6 DEF WindowInv
      <3> HIDE DEF a, b
      <3>3. a <= MaxEvents
        BY <1>1, <3>1, <3>2
      <3> QED
        BY <3>3 DEF a
    <2>8. Kept
      <3> HIDE DEF w
      <3> QED
        BY <1>1, <2>1, <2>2, <2>4, <2>7
    <2> QED
      BY <2>8
  <1>3. CASE ~(now - window_start >= Second)
    <2>1. w.start = window_start /\ w.count = window_count
      BY <1>3 DEF RollWindowIfNeeded
    <2>2. Kept
      <3> HIDE DEF w
      <3> QED
        BY <1>1, <1>3, <2>1 DEF WindowInv
    <2> QED
      BY <2>2
  <1> QED
    BY <1>2, <1>3

\* A time before the end of a window, in a second that holds a time of it, is
\* in the window or in the second that ends where it starts.
LEMMA SecondSpansTwo ==
    ASSUME NEW x \in Nat, NEW s \in Nat, NEW t \in Nat, NEW n \in Nat, NEW d \in Nat,
           s <= n, n <= t + d - 1, x < s + d, x \in t .. t + d - 1
    PROVE  x \in s .. s + d - 1 \/ x \in s - d + 1 .. s - 1
  OBVIOUS

\* A second that holds now holds no more than what the window has counted
\* and what came before it in less than a second.
LEMMA SecondOfNow ==
    ASSUME InputTypes, WindowInv, NEW t \in Nat, now \in t .. t + Second - 1
    PROVE  Cardinality(In(admitted, t, t + Second - 1)) <= RollWindowIfNeeded.count + MaxEvents
  <1> DEFINE w == RollWindowIfNeeded
             a == Cardinality(In(admitted, t, t + Second - 1))
             b == Cardinality(In(admitted, w.start, w.start + Second - 1))
             c == Cardinality(In(admitted, w.start - Second + 1, w.start - 1))
  <1>1. /\ now \in Nat /\ admitted \in Seq(Nat) /\ Second \in Nat \ {0} /\ MaxEvents \in Nat
        /\ \A i \in DOMAIN admitted : admitted[i] \in Nat
    BY InputAssumption, MaxEventsFact, ElementOfSeq DEF InputTypes, InputTypeOK
  <1>2. /\ w.start \in 0 .. now /\ w.count \in 0 .. MaxEvents /\ now < w.start + Second
        /\ \A i \in DOMAIN admitted : admitted[i] < w.start + Second
        /\ b <= w.count /\ c <= MaxEvents
    BY RollKeeps
  <1> HIDE DEF w
  <1>3. \A i \in DOMAIN admitted : admitted[i] \in t .. t + Second - 1
            => \/ admitted[i] \in w.start .. w.start + Second - 1
               \/ admitted[i] \in w.start - Second + 1 .. w.start - 1
    <2> DEFINE s == w.start
    <2>1. s \in Nat /\ s <= now /\ now \in Nat /\ now <= t + Second - 1 /\ Second \in Nat
      BY <1>1, <1>2
    <2>2. \A i \in DOMAIN admitted : admitted[i] \in Nat /\ admitted[i] < s + Second
      BY <1>1, <1>2
    <2> HIDE DEF s
    <2>3. \A i \in DOMAIN admitted : admitted[i] \in t .. t + Second - 1
            => admitted[i] \in s .. s + Second - 1 \/ admitted[i] \in s - Second + 1 .. s - 1
      BY <2>1, <2>2, SecondSpansTwo
    <2> QED
      BY <2>3 DEF s
  <1>4. a <= b + c
    <2>1. /\ t \in Int /\ t + Second - 1 \in Int /\ w.start \in Int
          /\ w.start + Second - 1 \in Int /\ w.start - Second + 1 \in Int /\ w.start - 1 \in Int
      <3>1. Second \in Nat /\ w.start \in Nat
        BY <1>1, <1>2
      <3> QED
        BY <3>1
    <2> QED
      BY <1>1, <1>3, <2>1, InCovered
  <1>5. a \in Nat /\ b \in Nat /\ c \in Nat
    BY <1>1, <1>2, InFinite
  <1> HIDE DEF a, b, c
  <1>6. a <= w.count + MaxEvents
    BY <1>1, <1>2, <1>4, <1>5
  <1> QED
    BY <1>6 DEF a, w

\* The three ways try_inject ends leave the window rolled.  Accepting an event
\* takes the room the window had left.
LEMMA AcceptKeepsWindow ==
    ASSUME InputTypes, WindowInv, NEW e, Accept1(e), UNCHANGED now
    PROVE  WindowInv' /\ admitted' \in Seq(Nat)
  <1> DEFINE w == RollWindowIfNeeded
  <1>1. /\ now \in Nat /\ admitted \in Seq(Nat) /\ Second \in Nat \ {0} /\ MaxEvents \in Nat
        /\ \A i \in DOMAIN admitted : admitted[i] \in Nat
    BY InputAssumption, MaxEventsFact, ElementOfSeq DEF InputTypes, InputTypeOK
  <1>p. \A i \in DOMAIN admitted : admitted[i] <= now
    BY DEF WindowInv
  <1>2. /\ w.start \in 0 .. now /\ w.count \in 0 .. MaxEvents /\ now < w.start + Second
        /\ \A i \in DOMAIN admitted : admitted[i] < w.start + Second
        /\ Cardinality(In(admitted, w.start, w.start + Second - 1)) <= w.count
        /\ Cardinality(In(admitted, w.start - Second + 1, w.start - 1)) <= MaxEvents
    BY RollKeeps
  <1>3. /\ w.count < MaxEvents /\ window_start' = w.start /\ window_count' = w.count + 1
        /\ admitted' = Append(admitted, now) /\ now' = now
    BY DEF Accept1
  <1>s. \A t \in Nat : now \in t .. t + Second - 1
            => Cardinality(In(admitted, t, t + Second - 1)) <= w.count + MaxEvents
    BY SecondOfNow
  <1> HIDE DEF w
  <1>4. \A lo, hi \in Int : Cardinality(In(admitted', lo, hi))
            = Cardinality(In(admitted, lo, hi)) + (IF now \in lo .. hi THEN 1 ELSE 0)
    BY <1>1, <1>3, InAppend
  <1>5. \A lo, hi \in Int : Cardinality(In(admitted, lo, hi)) \in Nat
    BY <1>1, InFinite
  <1>6. /\ admitted' \in Seq(Nat)
        /\ \A i \in DOMAIN admitted' : admitted'[i] <= now' /\ admitted'[i] < window_start' + Second
    <2>1. /\ Append(admitted, now) \in Seq(Nat)
          /\ DOMAIN Append(admitted, now) = (DOMAIN admitted) \cup {Len(admitted) + 1}
          /\ Append(admitted, now)[Len(admitted) + 1] = now
          /\ \A i \in DOMAIN admitted : Append(admitted, now)[i] = admitted[i]
      BY <1>1, AppendProperties
    <2>2. now <= now /\ now < w.start + Second
      BY <1>1, <1>2
    <2> QED
      BY <1>2, <1>3, <1>p, <2>1, <2>2
  <1>7. Cardinality(In(admitted', window_start', window_start' + Second - 1)) <= window_count'
    <2> DEFINE s == w.start
    <2>s. s \in Nat /\ s <= now /\ now < s + Second
      BY <1>1, <1>2
    <2> HIDE DEF s
    <2>t. s \in Int /\ s + Second - 1 \in Int /\ now \in s .. s + Second - 1
      BY <1>1, <2>s
    <2>1. w.start \in Int /\ w.start + Second - 1 \in Int /\ now \in w.start .. w.start + Second - 1
      BY <2>t DEF s
    <2>2. Cardinality(In(admitted', w.start, w.start + Second - 1))
            = Cardinality(In(admitted, w.start, w.start + Second - 1)) + 1
      BY <1>4, <2>1
    <2>3. Cardinality(In(admitted, w.start, w.start + Second - 1)) \in Nat
      BY <1>5, <2>1
    <2> QED
      BY <1>2, <1>3, <2>2, <2>3
  <1>8. Cardinality(In(admitted', window_start' - Second + 1, window_start' - 1)) <= MaxEvents
    <2>1. /\ w.start - Second + 1 \in Int /\ w.start - 1 \in Int
          /\ now \notin w.start - Second + 1 .. w.start - 1
      <3>1. Second \in Nat /\ w.start \in Nat /\ now \in Nat /\ w.start <= now
        BY <1>1, <1>2
      <3> QED
        BY <3>1
    <2>2. Cardinality(In(admitted', w.start - Second + 1, w.start - 1))
            = Cardinality(In(admitted, w.start - Second + 1, w.start - 1)) + 0
      BY <1>4, <2>1
    <2>3. Cardinality(In(admitted, w.start - Second + 1, w.start - 1)) \in Nat
      BY <1>5, <2>1
    <2> QED
      BY <1>2, <1>3, <2>2, <2>3
  <1>9. ASSUME NEW t \in Nat
        PROVE  Cardinality(In(admitted', t, t + Second - 1)) <= 2 * MaxEvents
    <2> DEFINE a == Cardinality(In(admitted, t, t + Second - 1))
               b == Cardinality(In(admitted', t, t + Second - 1))
    <2>1. t \in Int /\ t + Second - 1 \in Int
      BY <1>1
    <2>2. a \in Nat /\ b = a + (IF now \in t .. t + Second - 1 THEN 1 ELSE 0)
      BY <1>4, <1>5, <2>1
    <2>3. a <= 2 * MaxEvents
      BY DEF WindowInv
    <2>4. now \in t .. t + Second - 1 => a <= w.count + MaxEvents
      BY <1>s
    <2> HIDE DEF a, b
    <2>5. b <= 2 * MaxEvents
      BY <1>1, <1>2, <1>3, <2>2, <2>3, <2>4
    <2> QED
      BY <2>5 DEF b
  <1> QED
    BY <1>6, <1>7, <1>8, <1>9, MaxEventsConstant DEF WindowInv

\* An event that is not accepted leaves the window rolled, no more.
LEMMA RollKeepsWindow ==
    ASSUME InputTypes, WindowInv, UNCHANGED <<now, admitted>>,
           window_start' = RollWindowIfNeeded.start, window_count' = RollWindowIfNeeded.count
    PROVE  WindowInv'
  <1>1. /\ \A i \in DOMAIN admitted : admitted[i] <= now
        /\ \A t \in Nat : Cardinality(In(admitted, t, t + Second - 1)) <= 2 * MaxEvents
    BY DEF WindowInv
  <1> QED
    BY <1>1, RollKeeps, MaxEventsConstant DEF WindowInv, In

\* Time passes: what was accepted stays in the past.
LEMMA TickKeepsWindow ==
    ASSUME InputTypes, WindowInv, now' = now + 1, UNCHANGED limiter
    PROVE  WindowInv'
  <1>1. /\ now \in Nat /\ \A i \in DOMAIN admitted : admitted[i] \in Nat /\ admitted[i] <= now
    BY ElementOfSeq DEF InputTypes, InputTypeOK, WindowInv
  <1>2. \A i \in DOMAIN admitted : admitted[i] <= now'
    BY <1>1
  <1> QED
    BY <1>2, MaxEventsConstant DEF WindowInv, limiter, In

-----------------------------------------------------------------------------
\* What an event does to the screen.

OsType == [pointer : 0 .. AbsMax, keys : SUBSET Keys, buttons : SUBSET {"left"},
           clicked : {<<>>} \cup ((0 .. AbsMax) \X (0 .. AbsMax))]

\* The click that is recorded, if any, was where the pointer stood.
Placed(o) == o.clicked # <<>> => o.clicked[1] = o.clicked[2]

LEMMA EventKinds ==
    ASSUME NEW e \in Events
    PROVE  \/ e.kind = "key" /\ e.k \in Keys /\ e.pressed \in BOOLEAN
           \/ e.kind \in {"move", "wheel"} /\ e.n \in Int
           \/ e.kind = "button" /\ e.n \in Int /\ e.pressed \in BOOLEAN
  BY InputAssumption DEF Events

\* However many of its calls succeed, an event leaves the pointer on the
\* screen and a click where the pointer is, and no key touched but its own.
LEMMA InjectFacts ==
    ASSUME os \in OsType, Placed(os), NEW e \in Events, NEW done
    PROVE  /\ Inject(e, done) \in OsType /\ Placed(Inject(e, done))
           /\ Inject(e, done).keys =
                IF e.kind = "key" /\ done # 0
                THEN IF e.pressed THEN os.keys \cup {e.k} ELSE os.keys \ {e.k}
                ELSE os.keys
  <1>1. CASE e.kind = "key"
    <2>1. e.k \in Keys /\ e.pressed \in BOOLEAN
      BY <1>1, EventKinds
    <2>2. Inject(e, done) = IF done = 0 THEN os ELSE Key(os, e.k, e.pressed)
      BY <1>1 DEF Inject, InjectKey
    <2> QED
      BY <1>1, <2>1, <2>2 DEF Key, OsType, Placed
  <1>2. ASSUME NEW n \in Int
        PROVE  /\ Pointer(os, n) \in OsType /\ Placed(Pointer(os, n)) /\ Pointer(os, n).keys = os.keys
    BY PositionsLand DEF Pointer, OsType, Placed
  <1>3. CASE e.kind \in {"move", "wheel"}
    <2>1. e.n \in Int
      BY <1>3, EventKinds
    <2>2. Inject(e, done) = IF done = 0 THEN os ELSE Pointer(os, e.n)
      BY <1>3 DEF Inject, InjectMouseMove, InjectMouseWheel
    <2> QED
      BY <1>2, <1>3, <2>1, <2>2
  <1>4. CASE e.kind = "button"
    <2>1. e.n \in Int /\ e.pressed \in BOOLEAN
      BY <1>4, EventKinds
    <2> DEFINE p == Pointer(os, e.n)
               b == Button(p, e.n, e.pressed)
    <2>2. Inject(e, done) \in {os, p, b}
      BY <1>4 DEF Inject, InjectMouseButton
    <2>3. p \in OsType /\ Placed(p) /\ p.keys = os.keys
      BY <1>2, <2>1
    <2>4. p.pointer = MapAbs(e.n) /\ MapAbs(e.n) \in 0 .. AbsMax
      BY <2>1, PositionsLand DEF Pointer, OsType
    <2> HIDE DEF p
    <2>5. b \in OsType /\ Placed(b) /\ b.keys = p.keys
      BY <2>1, <2>3, <2>4 DEF Button, OsType, Placed
    <2> QED
      BY <1>4, <2>2, <2>3, <2>5
  <1> QED
    BY <1>1, <1>3, <1>4, EventKinds

\* The rest of the invariant, about an event: what it may do to the keys.
LEMMA HeldFacts ==
    ASSUME NEW e \in Events
    PROVE  /\ remote \subseteq Keys => Held(e) \subseteq Keys
           /\ KeysOf(e) \subseteq Keys
           /\ Held(e) \ KeysOf(e) = remote \ KeysOf(e)
           /\ e.kind # "key" => Held(e) = remote /\ KeysOf(e) = {}
           /\ e.kind = "key" => /\ KeysOf(e) = {e.k}
                                /\ Held(e) = IF e.pressed THEN remote \cup {e.k} ELSE remote \ {e.k}
  BY EventKinds DEF Held, KeysOf

LEMMA Accept1Keeps ==
    ASSUME InputInv, NEW e \in Events, Accept1(e), UNCHANGED <<part, now, backend, kill>>
    PROVE  InputInv'
  <1>1. os \in OsType /\ Placed(os)
    BY DEF InputInv, InputTypes, OsType, ClickAtPointer, Placed
  <1> DEFINE in == Inject(e, Calls(e))
  <1>2. /\ in \in OsType /\ Placed(in)
        /\ in.keys = IF e.kind = "key" /\ Calls(e) # 0
                     THEN IF e.pressed THEN os.keys \cup {e.k} ELSE os.keys \ {e.k}
                     ELSE os.keys
    BY <1>1, InjectFacts
  <1>3. /\ os' = (IF backend = "stub" THEN os ELSE in) /\ backend' = backend
        /\ remote' = Held(e) /\ lost' = lost \ KeysOf(e)
        /\ backend = "sendinput" => Valid(e)
    BY DEF Accept1
  <1>4. os' \in OsType /\ Placed(os')
    BY <1>1, <1>2, <1>3
  <1>5. WindowInv' /\ admitted' \in Seq(Nat)
    BY AcceptKeepsWindow DEF InputInv
  <1>6. InputTypes'
    <2>1. window_start' \in 0 .. now' /\ window_count' \in 0 .. MaxEvents
      <3> DEFINE w == RollWindowIfNeeded
      <3>1. w.start \in 0 .. now /\ w.count \in 0 .. MaxEvents
        BY RollKeeps DEF InputInv
      <3>2. /\ w.count < MaxEvents /\ window_start' = w.start /\ window_count' = w.count + 1
            /\ now' = now
        BY DEF Accept1
      <3> HIDE DEF w
      <3> QED
        BY <3>1, <3>2, MaxEventsFact
    <2>2. remote' \subseteq Keys /\ lost' \subseteq Keys
      BY <1>3, HeldFacts DEF InputInv, InputTypes, InputTypeOK
    <2>3. metrics' \in [accepted : Nat, dropped : Nat]
      BY DEF Accept1, InputInv, InputTypes
    <2>4. os'.keys \subseteq Keys
      BY <1>4 DEF OsType
    <2> QED
      BY <1>4, <1>5, <2>1, <2>2, <2>3, <2>4, MaxEventsConstant
      DEF InputInv, InputTypes, InputTypeOK, OsType, kill
  <1>7. KeysInStep'
    <2> SUFFICES ASSUME backend = "sendinput" PROVE os'.keys \ lost' = remote' \ lost'
      BY <1>3 DEF KeysInStep
    <2>1. Valid(e) /\ os' = in /\ os.keys \ lost = remote \ lost
      BY <1>3 DEF InputInv, KeysInStep
    <2>2. CASE e.kind = "key"
      <3>1. Calls(e) # 0
        BY <2>1, <2>2, EventKinds, InputAssumption DEF Calls, Valid
      <3>2. in.keys = IF e.pressed THEN os.keys \cup {e.k} ELSE os.keys \ {e.k}
        BY <1>2, <2>2, <3>1
      <3> HIDE DEF in
      <3> QED
        BY <1>3, <2>1, <2>2, <3>2, HeldFacts
    <2>3. CASE e.kind # "key"
      <3> HIDE DEF in
      <3> QED
        BY <1>2, <1>3, <2>1, <2>3, HeldFacts
    <2> QED
      BY <2>2, <2>3
  <1>8. ClickAtPointer' /\ LiveHandleTriggers'
    BY <1>4 DEF ClickAtPointer, Placed, InputInv, LiveHandleTriggers, kill
  <1> QED
    BY <1>5, <1>6, <1>7, <1>8 DEF InputInv

\* A dropped or failing event: the window has rolled, nothing is accepted,
\* and the key it was about is no longer in step.
LEMMA RefusedKeeps ==
    ASSUME InputInv, NEW e \in Events, UNCHANGED <<part, now, backend, kill, admitted>>,
           window_start' = RollWindowIfNeeded.start, window_count' = RollWindowIfNeeded.count,
           metrics' \in [accepted : Nat, dropped : Nat],
           remote' = Held(e), lost' = lost \cup KeysOf(e),
           os' \in OsType, Placed(os'), os'.keys \ KeysOf(e) = os.keys \ KeysOf(e)
    PROVE  InputInv'
  <1>1. WindowInv'
    BY RollKeepsWindow DEF InputInv
  <1>2. window_start' \in 0 .. now' /\ window_count' \in 0 .. MaxEvents
    BY RollKeeps DEF InputInv
  <1>3. remote' \subseteq Keys /\ lost' \subseteq Keys
    BY HeldFacts DEF InputInv, InputTypes, InputTypeOK
  <1>4. os'.keys \subseteq Keys
    BY DEF OsType
  <1>5. InputTypes'
    BY <1>2, <1>3, <1>4, MaxEventsConstant DEF InputInv, InputTypes, InputTypeOK, OsType, kill
  <1>6. KeysInStep'
    BY HeldFacts DEF InputInv, KeysInStep
  <1>7. ClickAtPointer' /\ LiveHandleTriggers'
    BY DEF ClickAtPointer, Placed, InputInv, LiveHandleTriggers, kill
  <1> QED
    BY <1>1, <1>5, <1>6, <1>7 DEF InputInv

LEMMA DropKeeps ==
    ASSUME InputInv, NEW e \in Events, DropByRate(e), UNCHANGED <<part, now, backend, kill>>
    PROVE  InputInv'
  <1>1. os' = os /\ os \in OsType /\ Placed(os)
    BY DEF DropByRate, InputInv, InputTypes, OsType, ClickAtPointer, Placed
  <1>2. metrics' \in [accepted : Nat, dropped : Nat]
    BY DEF DropByRate, InputInv, InputTypes
  <1>3. /\ window_start' = RollWindowIfNeeded.start /\ window_count' = RollWindowIfNeeded.count
        /\ admitted' = admitted /\ remote' = Held(e) /\ lost' = lost \cup KeysOf(e)
    BY DEF DropByRate
  <1> QED
    BY <1>1, <1>2, <1>3, RefusedKeeps

LEMMA FailsKeeps ==
    ASSUME InputInv, NEW e \in Events, InjectFails(e), UNCHANGED <<part, now, backend, kill>>
    PROVE  InputInv'
  <1>1. os \in OsType /\ Placed(os)
    BY DEF InputInv, InputTypes, OsType, ClickAtPointer, Placed
  <1>2. PICK done \in 0 .. Calls(e) : os' = Inject(e, done)
    BY DEF InjectFails
  <1>3. os' \in OsType /\ Placed(os') /\ os'.keys \ KeysOf(e) = os.keys \ KeysOf(e)
    BY <1>1, <1>2, InjectFacts DEF KeysOf
  <1>4. /\ window_start' = RollWindowIfNeeded.start /\ window_count' = RollWindowIfNeeded.count
        /\ admitted' = admitted /\ metrics' = metrics
        /\ remote' = Held(e) /\ lost' = lost \cup KeysOf(e)
    BY DEF InjectFails
  <1>5. metrics' \in [accepted : Nat, dropped : Nat]
    BY <1>4 DEF InputInv, InputTypes
  <1> QED
    BY <1>3, <1>4, <1>5, RefusedKeeps

LEMMA TickKeeps ==
    ASSUME InputInv, Tick
    PROVE  InputInv'
  <1>1. WindowInv'
    BY TickKeepsWindow DEF InputInv, Tick
  <1>2. now' \in 0 .. MaxTime /\ window_start' \in 0 .. now'
    BY InputAssumption DEF InputInv, InputTypes, InputTypeOK, Tick, limiter
  <1>3. InputTypes'
    BY <1>2, MaxEventsConstant DEF InputInv, InputTypes, InputTypeOK, Tick, limiter, kill
  <1> QED
    BY <1>1, <1>3 DEF InputInv, KeysInStep, ClickAtPointer, LiveHandleTriggers, Tick, kill

-----------------------------------------------------------------------------
\* The kill-switch.

LEMMA SwitchKeeps ==
    ASSUME InputInv, KillSwitchStep
    PROVE  InputInv'
  <1>1. /\ registrar \in [of : Handles \cup {0}, armed : [Handles \cup {0} -> BOOLEAN]]
        /\ handles \subseteq Handles /\ trigger \in Handles \cup {0}
        /\ \A h \in handles : registrar.of = h /\ registrar.armed[h]
    BY DEF InputInv, InputTypes, InputTypeOK, LiveHandleTriggers
  <1> DEFINE Kept ==
        /\ registrar' \in [of : Handles \cup {0}, armed : [Handles \cup {0} -> BOOLEAN]]
        /\ handles' \subseteq Handles /\ trigger' \in Handles \cup {0}
        /\ \A h \in handles' : registrar'.of = h /\ registrar'.armed[h]
  <1>2. Kept
    <2>1. ASSUME NEW h \in Handles, Register(h) PROVE Kept
      BY <1>1, <2>1 DEF Register
    <2>2. ASSUME NEW h \in Handles, DropHandle(h) PROVE Kept
      BY <1>1, <2>2 DEF DropHandle
    <2>3. ASSUME TriggerTakes \/ TriggerCalls PROVE Kept
      BY <1>1, <2>3 DEF TriggerTakes, TriggerCalls
    <2> QED
      BY <2>1, <2>2, <2>3 DEF KillSwitchStep
  <1>3. UNCHANGED <<part, now, backend, window_start, window_count, metrics, admitted, os, remote, lost>>
    BY DEF KillSwitchStep, limiter
  <1>4. InputTypes'
    BY <1>2, <1>3, MaxEventsConstant DEF InputInv, InputTypes, InputTypeOK
  <1>5. WindowInv'
    BY <1>3, MaxEventsConstant DEF InputInv, WindowInv, In
  <1> QED
    BY <1>2, <1>3, <1>4, <1>5 DEF InputInv, KeysInStep, ClickAtPointer, LiveHandleTriggers

-----------------------------------------------------------------------------

LEMMA InputStarts == InputInit => InputInv
  <1> SUFFICES ASSUME InputInit PROVE InputInv
    OBVIOUS
  <1>1. AbsMax \in Nat /\ MaxEvents \in Nat /\ Second \in Nat \ {0} /\ MaxTime \in Nat
    BY PositionsLand, MaxEventsFact, InputAssumption
  <1>2. backend \in {"stub", "sendinput"}
    BY DEF InputInit, OpenInjector, Modes
  <1>3. admitted = <<>> /\ admitted \in Seq(Nat) /\ DOMAIN admitted = {}
    BY DEF InputInit
  <1>4. InputTypes
    BY <1>1, <1>2, <1>3 DEF InputInit, InputTypes, InputTypeOK, NewRegistrar
  <1>5. \A lo, hi : Cardinality(In(admitted, lo, hi)) = 0
    BY <1>3, FS_EmptySet DEF In
  <1>6. WindowInv
    BY <1>1, <1>3, <1>5 DEF WindowInv, InputInit
  <1> QED
    BY <1>4, <1>6 DEF InputInv, InputInit, KeysInStep, ClickAtPointer, LiveHandleTriggers

LEMMA InputStep == InputInv /\ [InputNext]_ivars => InputInv'
  <1> SUFFICES ASSUME InputInv, [InputNext]_ivars PROVE InputInv'
    OBVIOUS
  <1>1. CASE TryInject
    <2>1. PICK e \in Events : Accept1(e) \/ DropByRate(e) \/ InjectFails(e)
      BY <1>1 DEF TryInject
    <2>2. UNCHANGED <<part, now, backend, kill>>
      BY <1>1 DEF TryInject
    <2> QED
      BY <2>1, <2>2, Accept1Keeps, DropKeeps, FailsKeeps
  <1>2. CASE Tick
    BY <1>2, TickKeeps
  <1>3. CASE KillSwitchStep
    BY <1>3, SwitchKeeps
  <1>4. CASE UNCHANGED ivars
    BY <1>4, MaxEventsConstant DEF ivars, InputInv, InputTypes, InputTypeOK, WindowInv, In,
       KeysInStep, ClickAtPointer, LiveHandleTriggers
  <1> QED
    BY <1>1, <1>2, <1>3, <1>4 DEF InputNext

LEMMA InputInvSound == InputInv => InputSound
  <1> SUFFICES ASSUME InputInv PROVE InputSound
    OBVIOUS
  <1>1. BurstBounded
    <2>1. \A t \in Nat : Cardinality(In(admitted, t, t + Second - 1)) <= 2 * MaxEvents
      BY DEF InputInv, WindowInv
    <2> QED
      BY <2>1 DEF BurstBounded, In, InputInv, InputTypes, InputTypeOK
  <1>2. os.pointer \in 0 .. AbsMax
    BY DEF InputInv, InputTypes
  <1>3. PointerCoversScreen
    BY <1>2, PositionsLand DEF PointerCoversScreen
  <1> QED
    BY <1>1, <1>3 DEF InputInv, InputTypes, InputSound

\* Whatever the cap, the screen, the keys and the registrations: no second
\* sees more than twice the cap, the host holds the keys the viewer holds
\* but for those with an event dropped or refused, a click falls where the
\* viewer clicked, every position lands on the screen, and a kill-switch
\* whose handle is kept is the one a hotkey triggers (RateLimitedInjector,
\* map_to_pixels, map_abs, KillSwitchRegistrar).
THEOREM InputSoundCorrect == InputSpec => []InputSound
  <1>1. InputSpec => []InputInv
    BY InputStarts, InputStep, PTL DEF InputSpec
  <1> QED
    BY <1>1, InputInvSound, PTL
=============================================================================
