------------------------- MODULE HostServiceProofs -------------------------
(***************************************************************************)
(* Proofs about HostService, for any session ids, any configurations and   *)
(* any bounds: the service serves one session at a time and only on that   *)
(* session's own messages, the tray tells the truth, and the code window   *)
(* is open until a session is live.                                        *)
(*                                                                         *)
(* The handler never compares session ids.  That what it reads is its own  *)
(* session's follows from the order of the socket: see Orderly.            *)
(*                                                                         *)
(* The second half is about DesktopShell, the application that runs the    *)
(* service as a child process.                                             *)
(***************************************************************************)
EXTENDS HostService, DesktopShell, SequenceTheorems, WellFoundedInduction, TLAPS

\* Where a session handler is running.
Connecting == {"start", "offer", "answer", "ice", "trickle"}
Handling == Connecting \cup {"live", "done"}

HandlerInv == session # None <=> pc \in Handling

Signal == {"answer", "ice"}

\* Of the messages in box, when the server's lock is lock and it has used the
\* ids in used: a session announced there is not accepted yet, so no signal of
\* any session follows the announcement, and of several announcements only the
\* last can be the session that holds the lock.
Orderly(box, lock, used) ==
    /\ \A i \in 1 .. Len(box) : box[i].kind # "error" => box[i].session \in Session
    /\ \A i \in 1 .. Len(box) : box[i].kind = "incoming" =>
           /\ box[i].session.id \in used
           /\ lock = None \/ lock.state = "pending"
    /\ \A i, j \in 1 .. Len(box) : i < j /\ box[i].kind = "incoming" =>
           /\ box[j].kind \notin Signal
           /\ box[j].kind = "incoming" => lock = None \/ lock.session # box[i].session

\* The signals in box are those of session s.
Own(box, s) == \A i \in 1 .. Len(box) : box[i].kind \in Signal => box[i].session = s

\* While a session is handled, no other holds the lock as an accepted one.
LockIsOwn == session # None => \/ busy = None \/ busy.state = "pending"
                               \/ busy.session = session

InboxInv ==
    /\ Orderly(inbox, busy, known)
    /\ session # None => Own(inbox, session)
    /\ LockIsOwn

\* The tray shows every session that is being handled, and not as active
\* before it is.
ChromeInv ==
    /\ pc \in Handling => indicator.connected
    /\ ChromeTruthful

\* Only sessions served live and in process touch the window.
WindowInv ==
    /\ WindowUnspentUntilLive
    /\ cfg.agent \/ ~cfg.live => active_otp = minted

\* Everything together.
HostInv ==
    /\ TypeOK /\ HandlerInv /\ InboxInv
    /\ AgentServesSession /\ SessionsBounded /\ ChromeInv /\ WindowInv

-----------------------------------------------------------------------------
\* What the socket's queue does to the order of its messages.

\* An empty queue is in order.
LEMMA EmptyInOrder ==
    ASSUME NEW lock, NEW used, NEW s
    PROVE  <<>> \in Seq(Message) /\ Orderly(<<>>, lock, used) /\ Own(<<>>, s)
  <1>1. Len(<<>>) = 0 /\ <<>> \in Seq(Message)
    OBVIOUS
  <1> QED
    BY <1>1 DEF Orderly, Own

\* Receiving a message leaves the rest in order.
LEMMA TailInOrder ==
    ASSUME NEW box \in Seq(Message), box # <<>>, NEW lock, NEW used,
           Orderly(box, lock, used)
    PROVE  /\ Head(box) \in Message /\ Head(box) = box[1] /\ 1 \in 1 .. Len(box)
           /\ Tail(box) \in Seq(Message)
           /\ Orderly(Tail(box), lock, used)
           /\ \A s : Own(box, s) => Own(Tail(box), s)
           /\ Head(box).kind = "incoming" => \A s : Own(Tail(box), s)
  <1>1. /\ Tail(box) \in Seq(Message) /\ Len(Tail(box)) = Len(box) - 1
        /\ \A i \in 1 .. Len(Tail(box)) : Tail(box)[i] = box[i + 1]
    BY HeadTailProperties
  <1>2. /\ Head(box) \in Message /\ Head(box) = box[1] /\ Len(box) \in Nat
        /\ 1 \in 1 .. Len(box)
    OBVIOUS
  <1>3. \A i \in 1 .. Len(Tail(box)) : i + 1 \in 1 .. Len(box) /\ 1 < i + 1
    BY <1>1, <1>2
  <1>4. \A i, j \in 1 .. Len(Tail(box)) : i < j => i + 1 < j + 1
    BY <1>1, <1>2
  <1>5. Orderly(Tail(box), lock, used)
    BY <1>1, <1>3, <1>4 DEF Orderly
  <1>6. \A s : Own(box, s) => Own(Tail(box), s)
    BY <1>1, <1>3 DEF Own
  <1>7. Head(box).kind = "incoming" => \A s : Own(Tail(box), s)
    BY <1>1, <1>2, <1>3 DEF Own, Orderly
  <1> QED
    BY <1>1, <1>2, <1>5, <1>6, <1>7

\* A message takes its place at the end: a signal only when no announcement
\* waits before it, an announcement only of the session that now has the lock.
LEMMA AppendInOrder ==
    ASSUME NEW box \in Seq(Message), NEW m \in Message, NEW lock, NEW used,
           Orderly(box, lock, used),
           m.kind # "error" => m.session \in Session,
           m.kind \in Signal =>
               \A i \in 1 .. Len(box) : box[i].kind # "incoming",
           m.kind = "incoming" =>
               /\ m.session.id \in used
               /\ lock = None \/ lock.state = "pending"
               /\ \A i \in 1 .. Len(box) : box[i].kind = "incoming" =>
                      lock = None \/ lock.session # box[i].session
    PROVE  /\ Append(box, m) \in Seq(Message)
           /\ Orderly(Append(box, m), lock, used)
           /\ \A s : Own(box, s) /\ (m.kind \in Signal => m.session = s)
                     => Own(Append(box, m), s)
  <1> DEFINE all == Append(box, m)
  <1>1. /\ all \in Seq(Message) /\ Len(all) = Len(box) + 1
        /\ \A i \in 1 .. Len(box) : all[i] = box[i]
        /\ all[Len(box) + 1] = m
    BY AppendProperties
  <1>2. Len(box) \in Nat
    OBVIOUS
  <1> HIDE DEF all
  <1>3. \A i \in 1 .. Len(all) :
            \/ i \in 1 .. Len(box) /\ all[i] = box[i]
            \/ i = Len(box) + 1 /\ all[i] = m
    <2>1. \A i \in 1 .. Len(all) : i \in 1 .. Len(box) \/ i = Len(box) + 1
      BY <1>1, <1>2
    <2> QED
      BY <1>1, <2>1
  <1>4. \A i, j \in 1 .. Len(all) : i < j => i \in 1 .. Len(box) /\ all[i] = box[i]
    BY <1>1, <1>2
  <1>5. \A i \in 1 .. Len(all) : all[i].kind # "error" => all[i].session \in Session
    BY <1>3 DEF Orderly
  <1>6. \A i \in 1 .. Len(all) : all[i].kind = "incoming" =>
            all[i].session.id \in used /\ (lock = None \/ lock.state = "pending")
    BY <1>3 DEF Orderly
  <1>7. ASSUME NEW i \in 1 .. Len(all), NEW j \in 1 .. Len(all), i < j,
               all[i].kind = "incoming"
        PROVE  /\ all[j].kind \notin Signal
               /\ all[j].kind = "incoming" => lock = None \/ lock.session # all[i].session
    <2>1. i \in 1 .. Len(box) /\ all[i] = box[i]
      BY <1>4, <1>7
    <2>2. CASE j \in 1 .. Len(box) /\ all[j] = box[j]
      BY <1>7, <2>1, <2>2 DEF Orderly
    <2>3. CASE all[j] = m
      BY <1>7, <2>1, <2>3
    <2> QED
      BY <1>3, <2>2, <2>3
  <1>8. Orderly(all, lock, used)
    BY <1>5, <1>6, <1>7 DEF Orderly
  <1>9. \A s : Own(box, s) /\ (m.kind \in Signal => m.session = s) => Own(all, s)
    BY <1>3 DEF Own
  <1> QED
    BY <1>1, <1>8, <1>9 DEF all

\* The lock is given up, or its holder goes on, or a session with a new id
\* takes it when it is free: what waits stays in order.
LEMMA LockInOrder ==
    ASSUME NEW box, NEW lock, NEW used, Orderly(box, lock, used)
    PROVE  /\ Orderly(box, None, used)
           /\ lock # None /\ lock.state # "pending"
                  => /\ \A new : new.session = lock.session => Orderly(box, new, used)
                     /\ \A i \in 1 .. Len(box) : box[i].kind # "incoming"
           /\ \A new, id : /\ new.state = "pending" /\ new.session.id = id
                           /\ id \notin used /\ None \notin Busy
                  => /\ Orderly(box, new, used \cup {id})
                     /\ \A i \in 1 .. Len(box) : box[i].kind = "incoming" =>
                            new.session # box[i].session
  BY DEF Orderly

-----------------------------------------------------------------------------
\* A session that failed: the loop goes on waiting, connects anew or returns.
LEMMA ErrorEffect ==
    ASSUME NEW class \in {"tray", "timeout", "error"}, NEW rest,
           SessionErr(class, rest)
    PROVE  /\ pc' \in {"idle", "offline", "exited"} /\ session' = None
           /\ cfg' = cfg /\ completed' = completed
           /\ active_otp' = active_otp /\ expired' = expired /\ minted' = minted
           /\ identity' = "none"
           /\ inbox' \in {rest, <<>>}
           /\ socket' \in {socket, "none"} /\ registered' \in {registered, "stale"}
  <1>1. AfterError(class) \in {"idle", "offline", "exited"}
    BY DEF AfterError
  <1> QED
    BY <1>1 DEF SessionErr, Continue

\* The same for the errors that may leave the tray.
LEMMA AbandonEffect ==
    ASSUME NEW rest, Abandon(rest)
    PROVE  /\ SessionErr("error", rest)
           /\ indicator' \in {indicator, EndSession}
           /\ ~cfg.agent => indicator' = EndSession
           /\ UNCHANGED <<commands, menu, control, agent>>
  BY DEF Abandon, ipc

-----------------------------------------------------------------------------
\* Types, and what each step leaves in the queue.

\* What the types say of the lock, for the steps that change it.
LEMMA LockTypes ==
    ASSUME TypeOK, busy # None
    PROVE  /\ busy \in Busy /\ busy.session \in Session /\ busy.session.id \in Sid
           /\ \A st \in {"pending", "active", "offered", "answered"} :
                  /\ [busy EXCEPT !.state = st] \in Busy
                  /\ [busy EXCEPT !.state = st].state = st
                  /\ [busy EXCEPT !.state = st].session = busy.session
           /\ \A kind \in Kind : [kind |-> kind, session |-> busy.session] \in Message
  <1>1. busy \in Busy
    BY DEF TypeOK
  <1> QED
    BY <1>1 DEF Busy, Session, Message

\* The server's complaint is a message, and none of its own about a session.
LEMMA ErrorMsgTypes ==
    ErrorMsg \in Message /\ ErrorMsg.kind = "error"
  BY DEF ErrorMsg, Message, Kind

\* A queue that is in order, with the session and the lock it is for.
InboxOK == inbox \in Seq(Message) /\ InboxInv

\* No session is handled after an error, and what is kept of the queue stays
\* in order.
LEMMA ErrorInbox ==
    ASSUME InboxOK, NEW class \in {"tray", "timeout", "error"}, NEW rest,
           rest \in {inbox, <<>>} \/ (inbox # <<>> /\ rest = Tail(inbox)),
           SessionErr(class, rest), UNCHANGED <<busy, known>>
    PROVE  InboxOK'
  <1>1. inbox' \in {rest, <<>>} /\ session' = None
    BY ErrorEffect
  <1>2. rest \in Seq(Message) /\ Orderly(rest, busy, known)
    <2>1. CASE rest = inbox
      BY <2>1 DEF InboxOK, InboxInv
    <2>2. CASE rest = <<>>
      BY <2>2, EmptyInOrder
    <2>3. CASE inbox # <<>> /\ rest = Tail(inbox)
      BY <2>3, TailInOrder DEF InboxOK, InboxInv
    <2> QED
      BY <2>1, <2>2, <2>3
  <1>3. inbox' \in Seq(Message) /\ Orderly(inbox', busy, known)
    BY <1>1, <1>2, EmptyInOrder
  <1> QED
    BY <1>1, <1>3 DEF InboxOK, InboxInv, LockIsOwn

\* A message is taken from the queue, by a handler or while waiting.
LEMMA TailInbox ==
    ASSUME InboxOK, inbox # <<>>, inbox' = Tail(inbox),
           UNCHANGED <<session, busy, known>>
    PROVE  InboxOK'
  <1>1. /\ inbox' \in Seq(Message) /\ Orderly(inbox', busy, known)
        /\ session # None => Own(inbox', session)
    BY TailInOrder DEF InboxOK, InboxInv
  <1> QED
    BY <1>1 DEF InboxOK, InboxInv, LockIsOwn

\* The server complains about a message, and the session goes on.
LEMMA ComplainInbox ==
    ASSUME InboxOK, inbox' \in {inbox, Append(inbox, ErrorMsg)},
           UNCHANGED <<session, busy, known>>
    PROVE  InboxOK'
  <1>1. /\ Append(inbox, ErrorMsg) \in Seq(Message)
        /\ Orderly(Append(inbox, ErrorMsg), busy, known)
        /\ session # None => Own(Append(inbox, ErrorMsg), session)
    BY AppendInOrder, ErrorMsgTypes DEF InboxOK, InboxInv, Signal
  <1> QED
    BY <1>1 DEF InboxOK, InboxInv, LockIsOwn

\* A session is accepted: nothing of an earlier one waits behind its
\* announcement, and no other session is accepted on the server.
LEMMA AcceptInbox ==
    ASSUME TypeOK, InboxOK, inbox # <<>>, AcceptIncoming(Head(inbox))
    PROVE  InboxOK' /\ session' \in Session
  <1> DEFINE m == Head(inbox)
             rest == Tail(inbox)
             taken == busy # None /\ busy.session = m.session /\ busy.state = "pending"
  <1>1. /\ m.kind = "incoming" /\ session' = m.session /\ known' = known
        /\ inbox' \in {rest, Append(rest, ErrorMsg)}
        /\ busy' = IF socket = "up" /\ taken THEN [busy EXCEPT !.state = "active"]
                   ELSE busy
    BY DEF AcceptIncoming
  <1>2. /\ m \in Message /\ m = inbox[1] /\ 1 \in 1 .. Len(inbox)
        /\ rest \in Seq(Message) /\ Orderly(rest, busy, known)
        /\ \A s : Own(rest, s)
    BY <1>1, TailInOrder DEF InboxOK, InboxInv
  <1>3. /\ m.session \in Session
        /\ busy = None \/ busy.state = "pending"
        /\ \A i \in 1 .. Len(rest) : rest[i].kind = "incoming" =>
               busy = None \/ busy.session # m.session
    <2>1. m.session \in Session /\ (busy = None \/ busy.state = "pending")
      BY <1>1, <1>2 DEF InboxOK, InboxInv, Orderly
    <2>2. \A i \in 1 .. Len(rest) : /\ rest[i] = inbox[i + 1]
                                    /\ i + 1 \in 1 .. Len(inbox) /\ 1 < i + 1
      BY HeadTailProperties DEF InboxOK
    <2>3. \A j \in 1 .. Len(inbox) : 1 < j /\ inbox[j].kind = "incoming" =>
              busy = None \/ busy.session # m.session
      BY <1>1, <1>2 DEF InboxOK, InboxInv, Orderly
    <2> QED
      BY <2>1, <2>2, <2>3
  <1>4. Orderly(rest, busy', known)
    <2>1. CASE busy' = busy
      BY <1>2, <2>1
    <2>2. CASE taken /\ busy' = [busy EXCEPT !.state = "active"]
      <3>1. busy'.session = m.session /\ busy'.state = "active"
        BY <2>2, LockTypes
      <3>2. \A i \in 1 .. Len(rest) : rest[i].kind # "incoming"
        BY <1>3, <2>2
      <3> QED
        BY <1>2, <3>1, <3>2 DEF Orderly
    <2> QED
      BY <1>1, <2>1, <2>2
  <1>5. /\ inbox' \in Seq(Message) /\ Orderly(inbox', busy', known)
        /\ Own(inbox', m.session)
    <2>1. /\ Append(rest, ErrorMsg) \in Seq(Message)
          /\ Orderly(Append(rest, ErrorMsg), busy', known)
          /\ Own(Append(rest, ErrorMsg), m.session)
      BY <1>2, <1>4, AppendInOrder, ErrorMsgTypes DEF Signal
    <2> QED
      BY <1>1, <1>2, <1>4, <2>1
  <1>6. busy' = None \/ busy'.state = "pending" \/ busy'.session = session'
    <2>1. CASE busy' = busy
      BY <1>3, <2>1
    <2>2. CASE taken /\ busy' = [busy EXCEPT !.state = "active"]
      BY <1>1, <2>2, LockTypes
    <2> QED
      BY <1>1, <2>1, <2>2
  <1> HIDE DEF m, rest, taken
  <1> QED
    BY <1>1, <1>3, <1>5, <1>6 DEF InboxOK, InboxInv, LockIsOwn

\* A session of the server's moves on: it was accepted, so no announcement
\* waits, and what it sends is the handled session's.
LEMMA AcceptedInbox ==
    ASSUME TypeOK, InboxOK, busy # None, busy.state # "pending",
           NEW st \in {"active", "offered", "answered"},
           busy' \in {busy, [busy EXCEPT !.state = st]},
           NEW kind \in Signal,
           inbox' \in {inbox, Append(inbox, [kind |-> kind, session |-> busy.session])},
           UNCHANGED <<session, known>>
    PROVE  InboxOK'
  <1> DEFINE m == [kind |-> kind, session |-> busy.session]
  <1>1. /\ m \in Message /\ m.kind \in Signal /\ m.kind = kind
        /\ m.session = busy.session /\ m.session \in Session
        /\ m.kind # "incoming"
    BY LockTypes DEF Signal, Kind
  <1>2. busy' # None /\ busy'.session = busy.session /\ busy'.state # "pending"
    <2>1. [busy EXCEPT !.state = st] # None
      BY LockTypes, HostAssumption
    <2> QED
      BY <2>1, LockTypes
  <1>3. Orderly(inbox, busy', known) /\ \A i \in 1 .. Len(inbox) : inbox[i].kind # "incoming"
    BY <1>2, LockInOrder DEF InboxOK, InboxInv
  <1>4. session # None => busy.session = session
    BY DEF InboxOK, InboxInv, LockIsOwn
  <1> HIDE DEF m
  <1>5. /\ Append(inbox, m) \in Seq(Message)
        /\ Orderly(Append(inbox, m), busy', known)
        /\ \A s : Own(inbox, s) /\ (m.kind \in Signal => m.session = s)
                      => Own(Append(inbox, m), s)
    BY <1>1, <1>3, AppendInOrder DEF InboxOK
  <1>6. inbox' \in {inbox, Append(inbox, m)}
    BY DEF m
  <1>7. /\ inbox' \in Seq(Message) /\ Orderly(inbox', busy', known)
        /\ session # None => Own(inbox', session)
    BY <1>1, <1>3, <1>4, <1>5, <1>6 DEF InboxOK, InboxInv
  <1> QED
    BY <1>2, <1>4, <1>7 DEF InboxOK, InboxInv, LockIsOwn

\* The steps that leave the queue, the session and the lock alone.
LEMMA SameInbox ==
    ASSUME InboxOK, UNCHANGED <<inbox, session, busy, known>>
    PROVE  InboxOK'
  BY DEF InboxOK, InboxInv, LockIsOwn

\* Every step keeps the queue in order.
LEMMA InboxStep ==
    ASSUME TypeOK, HandlerInv, InboxOK, [Next]_vars
    PROVE  InboxOK'
  <1>1. CASE UNCHANGED vars
    BY <1>1, SameInbox DEF vars, loop, wire, server
  <1>2. CASE Connect
    <2>1. inbox' = <<>> /\ UNCHANGED <<session, busy, known>>
      BY <1>2 DEF Connect, Go
    <2> QED
      BY <2>1, EmptyInOrder DEF InboxOK, InboxInv, LockIsOwn
  <1>3. CASE ConnectFails
    BY <1>3, SameInbox DEF ConnectFails, Go, wire, server
  <1>4. CASE Reading({"idle"}) /\ AcceptIncoming(Next1)
    BY <1>4, AcceptInbox DEF Reading, Next1
  <1>5. CASE SkipWhileIdle
    <2>1. inbox # <<>> /\ UNCHANGED <<busy, known>>
      BY <1>5 DEF SkipWhileIdle, Reading
    <2>2. CASE SessionErr("timeout", Tail(inbox))
      BY <2>1, <2>2, ErrorInbox
    <2>3. CASE inbox' = Tail(inbox) /\ UNCHANGED loop
      BY <2>1, <2>3, TailInbox DEF loop
    <2> QED
      BY <1>5, <2>2, <2>3 DEF SkipWhileIdle
  <1>6. CASE IdleTimeout \/ IdleClosed
    BY <1>6, ErrorInbox DEF IdleTimeout, IdleClosed
  <1>7. CASE StartSession
    BY <1>7, SameInbox DEF StartSession, Go, wire, server
  <1>8. CASE StartFails
    BY <1>8, ErrorInbox DEF StartFails
  <1>9. CASE SendOffer
    <2>1. UNCHANGED <<session, known>>
      BY <1>9 DEF SendOffer, Go
    <2>2. CASE socket = "up" /\ Holds({"active"})
      <3>1. /\ busy # None /\ busy.state # "pending"
            /\ busy' = [busy EXCEPT !.state = "offered"] /\ inbox' = inbox
        BY <1>9, <2>2 DEF SendOffer, Holds
      <3> QED
        BY <2>1, <3>1, AcceptedInbox DEF Signal
    <2>3. CASE ~(socket = "up" /\ Holds({"active"}))
      BY <1>9, <2>1, <2>3, ComplainInbox DEF SendOffer
    <2> QED
      BY <2>2, <2>3
  <1>10. CASE SendFails
    <2>1. SessionErr("error", <<>>) /\ UNCHANGED <<busy, known>>
      BY <1>10, AbandonEffect DEF SendFails
    <2> QED
      BY <2>1, ErrorInbox
  <1>11. CASE WaitAnswer \/ ApplyAnswer \/ Trickle \/ LiveReceive
    <2>1. /\ inbox # <<>> /\ inbox' = Tail(inbox)
          /\ UNCHANGED <<session, busy, known>>
      BY <1>11 DEF WaitAnswer, ApplyAnswer, Trickle, LiveReceive, Reading, Go, loop, server
    <2> QED
      BY <2>1, TailInbox
  <1>12. CASE AnswerFails \/ TrickleFails
    <2>1. SessionErr("error", <<>>) /\ UNCHANGED <<busy, known>>
      BY <1>12, AbandonEffect DEF AnswerFails, TrickleFails
    <2> QED
      BY <2>1, ErrorInbox
  <1>13. CASE AnswerTimeout \/ TrickleEndedByTray
    BY <1>13, ErrorInbox DEF AnswerTimeout, TrickleEndedByTray
  <1>14. CASE SendHostIce
    BY <1>14, ComplainInbox DEF SendHostIce, Go, server
  <1>15. CASE TrickleTimeout
    <2>1. PICK class \in {"tray", "timeout", "error"} : SessionErr(class, inbox)
      BY <1>15 DEF TrickleTimeout
    <2> QED
      BY <1>15, <2>1, ErrorInbox DEF TrickleTimeout
  <1>16. CASE GoLive
    BY <1>16, SameInbox DEF GoLive, Go, wire, server
  <1>17. CASE LiveEndedByTray \/ LiveClosed \/ PeerDrops \/ PumpDone
    BY <1>17, SameInbox DEF LiveEndedByTray, LiveClosed, PeerDrops, PumpDone, Go, wire, server
  <1>18. CASE LiveAgentGone
    <2>1. /\ inbox # <<>> /\ SessionErr("error", Tail(inbox))
          /\ UNCHANGED <<busy, known>>
      BY <1>18, AbandonEffect DEF LiveAgentGone, Reading
    <2> QED
      BY <2>1, ErrorInbox
  <1>19. CASE PumpFails
    BY <1>19, ErrorInbox DEF PumpFails
  <1>20. CASE Finish
    <2>1. /\ session' = None /\ known' = known
          /\ inbox' \in {inbox, Append(inbox, ErrorMsg), <<>>}
          /\ busy' \in {busy, None}
      BY <1>20 DEF Finish, Continue, EndWssSession
    <2>2. Orderly(inbox, busy', known)
      BY <2>1, LockInOrder DEF InboxOK, InboxInv
    <2>3. /\ Append(inbox, ErrorMsg) \in Seq(Message)
          /\ Orderly(Append(inbox, ErrorMsg), busy', known)
      BY <2>2, AppendInOrder, ErrorMsgTypes DEF InboxOK, Signal
    <2> QED
      BY <2>1, <2>2, <2>3, EmptyInOrder DEF InboxOK, InboxInv, LockIsOwn
  <1>21. CASE User
    BY <1>21, SameInbox DEF User, OpenMenu, Choose, loop, wire, server
  <1>22. CASE LoseSocket \/ AgentDies \/ ViewerBinds
    BY <1>22, SameInbox DEF LoseSocket, AgentDies, ViewerBinds, loop, wire, server
  <1>23. CASE ServerUnregisters
    <2>1. busy' = None /\ UNCHANGED <<inbox, session, known>>
      BY <1>23 DEF ServerUnregisters, loop, wire
    <2> QED
      BY <2>1, LockInOrder DEF InboxOK, InboxInv, LockIsOwn
  <1>24. ASSUME NEW s \in Sid, NEW mode \in Mode, ViewerIntent(s, mode)
         PROVE  InboxOK'
    <2> DEFINE new == [id |-> s, mode |-> mode]
               lock == [session |-> new, state |-> "pending"]
               m == [kind |-> "incoming", session |-> new]
    <2>1. /\ known' = known \cup {s} /\ s \notin known /\ busy' = lock
          /\ inbox' \in {inbox, Append(inbox, m)} /\ session' = session
      BY <1>24 DEF ViewerIntent, loop
    <2>2. /\ new \in Session /\ new.id = s /\ m \in Message /\ m.session = new
          /\ m.kind = "incoming"
          /\ lock.session = new /\ lock.state = "pending"
      BY DEF Session, Message, Kind
    <2> HIDE DEF new, lock, m
    <2>3. /\ Orderly(inbox, lock, known \cup {s})
          /\ \A i \in 1 .. Len(inbox) : inbox[i].kind = "incoming" => new # inbox[i].session
      BY <2>1, <2>2, LockInOrder, HostAssumption, Zenon DEF InboxOK, InboxInv
    <2>4. /\ Append(inbox, m) \in Seq(Message)
          /\ Orderly(Append(inbox, m), lock, known \cup {s})
          /\ \A t : Own(inbox, t) => Own(Append(inbox, m), t)
      BY <2>2, <2>3, AppendInOrder DEF InboxOK, Signal
    <2> QED
      BY <2>1, <2>2, <2>3, <2>4 DEF InboxOK, InboxInv, LockIsOwn
  <1>25. CASE ViewerAnswers
    <2>1. /\ busy # None /\ busy.state # "pending"
          /\ busy' = [busy EXCEPT !.state = "answered"]
          /\ inbox' \in {inbox, Append(inbox, [kind |-> "answer", session |-> busy.session])}
          /\ UNCHANGED <<session, known>>
      BY <1>25 DEF ViewerAnswers, Deliver, loop
    <2> QED
      BY <2>1, AcceptedInbox DEF Signal
  <1>26. CASE ViewerTrickles
    <2>1. /\ busy # None /\ busy.state # "pending" /\ busy' = busy
          /\ inbox' \in {inbox, Append(inbox, [kind |-> "ice", session |-> busy.session])}
          /\ UNCHANGED <<session, known>>
      BY <1>26 DEF ViewerTrickles, Deliver, loop, server
    <2> QED
      BY <2>1, AcceptedInbox DEF Signal
  <1>27. CASE SessionOver
    <2> DEFINE m == [kind |-> "end", session |-> busy.session]
    <2>1. /\ busy # None /\ busy' = None /\ inbox' \in {inbox, Append(inbox, m)}
          /\ UNCHANGED <<session, known>>
      BY <1>27 DEF SessionOver, Deliver, loop
    <2>2. m \in Message /\ m.kind = "end" /\ m.session \in Session
      BY <2>1, LockTypes DEF Kind
    <2> HIDE DEF m
    <2>3. Orderly(inbox, None, known)
      BY LockInOrder DEF InboxOK, InboxInv
    <2>4. /\ Append(inbox, m) \in Seq(Message) /\ Orderly(Append(inbox, m), None, known)
          /\ \A t : Own(inbox, t) => Own(Append(inbox, m), t)
      BY <2>2, <2>3, AppendInOrder DEF InboxOK, Signal
    <2> QED
      BY <2>1, <2>3, <2>4 DEF InboxOK, InboxInv, LockIsOwn
  <1>28. CASE WindowExpires
    BY <1>28, SameInbox DEF WindowExpires, loop, wire, server
  <1> QED
    BY <1>1, <1>2, <1>3, <1>4, <1>5, <1>6, <1>7, <1>8, <1>9, <1>10, <1>11, <1>12,
       <1>13, <1>14, <1>15, <1>16, <1>17, <1>18, <1>19, <1>20, <1>21, <1>22, <1>23,
       <1>24, <1>25, <1>26, <1>27, <1>28
    DEF Next, HostStep, User, World

-----------------------------------------------------------------------------
\* What the tray's operations make of what it shows.
LEMMA TrayEffect ==
    ASSUME TypeOK
    PROVE  /\ EndSession \in Indicator /\ ~EndSession.active
           /\ MarkActive \in Indicator /\ MarkActive.connected = indicator.connected
           /\ MarkActive.active = indicator.connected
           /\ \A s \in Sid : /\ BeginSession(s) \in Indicator
                             /\ BeginSession(s).connected
                             /\ indicator.connected => BeginSession(s) = indicator
                             /\ ~indicator.connected => ~BeginSession(s).active
  <1>1. indicator \in Indicator
    BY DEF TypeOK
  <1>2. EndSession \in Indicator /\ ~EndSession.active
    BY DEF EndSession, NoSession, Indicator
  <1>3. /\ MarkActive \in Indicator /\ MarkActive.connected = indicator.connected
        /\ MarkActive.active = indicator.connected
    BY <1>1 DEF MarkActive, Indicator
  <1>4. ASSUME NEW s \in Sid
        PROVE  /\ BeginSession(s) \in Indicator
               /\ BeginSession(s).connected
               /\ indicator.connected => BeginSession(s) = indicator
               /\ ~indicator.connected => ~BeginSession(s).active
    BY <1>1, <1>4 DEF BeginSession, Indicator
  <1> QED
    BY <1>2, <1>3, <1>4

\* A failed session leaves typed state and no handler running.
LEMMA ErrorTypes ==
    ASSUME TypeOK, InboxOK', NEW class \in {"tray", "timeout", "error"}, NEW rest,
           SessionErr(class, rest),
           UNCHANGED <<menu, control, busy, code, known>>,
           agent' \in Sid \cup {None}, indicator' \in Indicator,
           commands' \in [end_session : BOOLEAN, exit : BOOLEAN]
    PROVE  TypeOK' /\ HandlerInv'
  <1>1. /\ pc' \in {"idle", "offline", "exited"} /\ session' = None
        /\ cfg' = cfg /\ completed' = completed
        /\ active_otp' = active_otp /\ expired' = expired /\ minted' = minted
        /\ identity' = "none"
        /\ socket' \in {socket, "none"} /\ registered' \in {registered, "stale"}
    BY ErrorEffect
  <1> QED
    BY <1>1 DEF TypeOK, HandlerInv, InboxOK, Handling, Connecting

\* A step along the handler, which goes on with its session.
LEMMA GoTypes ==
    ASSUME TypeOK, HandlerInv, InboxOK', NEW next, Go(next),
           \/ next \in Handling /\ pc \in Handling
           \/ next \in {"idle", "exited"} /\ pc \notin Handling,
           UNCHANGED <<commands, menu, control, expired, minted, code, known>>,
           socket' \in {"none", "up", "lost"}, indicator' \in Indicator,
           agent' \in Sid \cup {None}, active_otp' \in {0, active_otp},
           identity' \in {"none", "challenged", "bound", "forced"},
           busy' \in Busy \cup {None}, registered' \in {"none", "current", "stale"}
    PROVE  TypeOK' /\ HandlerInv'
  <1>1. pc' = next /\ UNCHANGED <<cfg, session, completed>>
    BY DEF Go
  <1>2. pc' \in {"offline", "idle", "start", "offer", "answer", "ice", "trickle",
                 "live", "done", "exited"}
    BY <1>1 DEF Handling, Connecting
  <1>3. active_otp' \in 0 .. MaxMint
    BY HostAssumption DEF TypeOK
  <1>4. HandlerInv'
    BY <1>1 DEF HandlerInv, Handling, Connecting
  <1> QED
    BY <1>1, <1>2, <1>3, <1>4 DEF TypeOK, InboxOK

\* The loop stands still.
LEMMA LoopTypes ==
    ASSUME TypeOK, HandlerInv, InboxOK',
           UNCHANGED <<loop, indicator, active_otp, minted>>, expired' \in BOOLEAN,
           socket' \in {"none", "up", "lost"},
           commands' \in [end_session : BOOLEAN, exit : BOOLEAN],
           menu' \in {"closed", "idle", "in_session"},
           control' \in {"up", "down"}, agent' \in Sid \cup {None},
           identity' \in {"none", "challenged", "bound", "forced"},
           busy' \in Busy \cup {None}, registered' \in {"none", "current", "stale"},
           code' \in {"fresh", "spent"}, known' \subseteq Sid
    PROVE  TypeOK' /\ HandlerInv'
  BY DEF TypeOK, HandlerInv, InboxOK, loop, Handling, Connecting

\* Every step keeps the types, and a session is set exactly while a handler
\* runs.
LEMMA TypeStep ==
    ASSUME TypeOK, HandlerInv, InboxOK, [Next]_vars
    PROVE  TypeOK' /\ HandlerInv'
  <1> USE DEF Handling, Connecting
  <1>1. InboxOK'
    BY InboxStep
  <1>2. /\ EndSession \in Indicator /\ MarkActive \in Indicator
        /\ indicator \in Indicator /\ commands \in [end_session : BOOLEAN, exit : BOOLEAN]
        /\ agent \in Sid \cup {None} /\ None \in Sid \cup {None}
        /\ busy \in Busy \cup {None} /\ active_otp \in 0 .. MaxMint
        /\ minted \in 0 .. MaxMint /\ known \subseteq Sid
        /\ socket \in {"none", "up", "lost"} /\ registered \in {"none", "current", "stale"}
        /\ identity \in {"none", "challenged", "bound", "forced"}
        /\ menu \in {"closed", "idle", "in_session"} /\ control \in {"up", "down"}
        /\ code \in {"fresh", "spent"} /\ expired \in BOOLEAN
    BY TrayEffect DEF TypeOK
  <1>3. \A b \in BOOLEAN : /\ [commands EXCEPT !.end_session = b] \in [end_session : BOOLEAN, exit : BOOLEAN]
                           /\ [commands EXCEPT !.exit = b] \in [end_session : BOOLEAN, exit : BOOLEAN]
                           /\ [end_session |-> b, exit |-> b] \in [end_session : BOOLEAN, exit : BOOLEAN]
    BY <1>2
  <1>4. pc \in Handling => session \in Session /\ session.id \in Sid
    BY DEF TypeOK, HandlerInv, Session
  <1>5. ASSUME NEW st \in {"active", "offered", "answered"}, busy # None
        PROVE  [busy EXCEPT !.state = st] \in Busy \cup {None}
    BY <1>5, LockTypes
  <1>6. CASE UNCHANGED vars
    BY <1>1, <1>2, <1>6, LoopTypes DEF vars, loop, wire, tray, ipc, hub, server
  <1>7. CASE Connect
    BY <1>1, <1>2, <1>7, GoTypes DEF Connect, tray, ipc, hub
  <1>8. CASE ConnectFails
    BY <1>1, <1>2, <1>8, GoTypes DEF ConnectFails, wire, tray, ipc, hub, server, TypeOK
  <1>9. CASE Reading({"idle"}) /\ AcceptIncoming(Next1)
    <2>1. session' \in Session /\ session'.id \in Sid
      BY <1>9, AcceptInbox DEF Reading, Next1, Session
    <2>2. /\ pc' = "start" /\ session' = Next1.session
          /\ indicator' = BeginSession(session'.id)
          /\ busy' = busy \/ (busy # None /\ busy' = [busy EXCEPT !.state = "active"])
          /\ code' \in {code, "spent"}
          /\ UNCHANGED <<cfg, completed, socket, commands, menu, ipc, hub, registered, known>>
      BY <1>9 DEF AcceptIncoming
    <2>3. indicator' \in Indicator /\ session' # None /\ busy' \in Busy \cup {None}
      BY <1>2, <1>5, <2>1, <2>2, TrayEffect, HostAssumption
    <2> QED
      BY <1>1, <1>2, <2>1, <2>2, <2>3 DEF TypeOK, HandlerInv, InboxOK, ipc, hub
  <1>10. CASE SkipWhileIdle
    <2>1. CASE SessionErr("timeout", Tail(inbox))
      BY <1>1, <1>2, <1>10, <2>1, ErrorTypes DEF SkipWhileIdle, tray, ipc
    <2>2. CASE UNCHANGED <<loop, socket, registered, hub>>
      BY <1>1, <1>2, <1>10, <2>2, LoopTypes DEF SkipWhileIdle, tray, ipc, hub
    <2> QED
      BY <1>10, <2>1, <2>2 DEF SkipWhileIdle
  <1>11. CASE IdleTimeout
    BY <1>1, <1>2, <1>11, ErrorTypes DEF IdleTimeout, tray, ipc
  <1>12. CASE IdleClosed
    BY <1>1, <1>2, <1>12, ErrorTypes DEF IdleClosed, tray, ipc
  <1>13. CASE StartSession
    BY <1>1, <1>2, <1>4, <1>13, GoTypes DEF StartSession, wire, tray, hub, server
  <1>14. CASE StartFails
    <2>1. agent' \in Sid \cup {None}
      BY <1>2, <1>4, <1>14 DEF StartFails
    <2> QED
      BY <1>1, <1>2, <1>14, <2>1, ErrorTypes DEF StartFails, tray
  <1>15. CASE SendOffer
    <2>1. busy' \in Busy \cup {None}
      BY <1>2, <1>5, <1>15 DEF SendOffer, Holds
    <2> QED
      BY <1>1, <1>2, <1>15, <2>1, GoTypes DEF SendOffer, tray, ipc, hub
  <1>16. CASE SendFails \/ AnswerFails \/ TrickleFails \/ LiveAgentGone
    <2>1. PICK rest : Abandon(rest) /\ UNCHANGED <<busy, code, known>>
      BY <1>16 DEF SendFails, AnswerFails, TrickleFails, LiveAgentGone
    <2>2. /\ SessionErr("error", rest) /\ indicator' \in {indicator, EndSession}
          /\ UNCHANGED <<commands, menu, control, agent>>
      BY <2>1, AbandonEffect
    <2> QED
      BY <1>1, <1>2, <2>1, <2>2, ErrorTypes
  <1>17. CASE WaitAnswer \/ Trickle
    BY <1>1, <1>2, <1>17, LoopTypes DEF WaitAnswer, Trickle, tray, ipc, hub, server
  <1>18. CASE ApplyAnswer
    BY <1>1, <1>2, <1>18, GoTypes DEF ApplyAnswer, Reading, tray, ipc, hub, server
  <1>19. CASE AnswerTimeout
    BY <1>1, <1>2, <1>19, ErrorTypes DEF AnswerTimeout, Detach
  <1>20. CASE SendHostIce
    BY <1>1, <1>2, <1>20, GoTypes DEF SendHostIce, tray, ipc, hub, server
  <1>21. CASE TrickleEndedByTray
    BY <1>1, <1>2, <1>3, <1>21, ErrorTypes DEF TrickleEndedByTray, Detach
  <1>22. CASE TrickleTimeout
    <2>1. PICK class \in {"tray", "timeout", "error"} : SessionErr(class, inbox)
      BY <1>22 DEF TrickleTimeout
    <2> QED
      BY <1>1, <1>2, <1>22, <2>1, ErrorTypes DEF TrickleTimeout, Detach
  <1>23. CASE GoLive
    <2>1. /\ active_otp' \in {0, active_otp} /\ minted' = minted /\ expired' = expired
          /\ identity' \in {"none", "challenged", "bound", "forced"}
      BY <1>2, <1>23 DEF GoLive, Authorize, hub
    <2> QED
      BY <1>1, <1>2, <1>23, <2>1, GoTypes DEF GoLive, wire, ipc, server
  <1>24. CASE ViewerBinds
    BY <1>1, <1>2, <1>24, LoopTypes DEF ViewerBinds, wire, tray, ipc, server
  <1>25. CASE LiveEndedByTray
    <2>1. /\ Go("done") /\ pc = "live" /\ commands' = [commands EXCEPT !.end_session = FALSE]
          /\ UNCHANGED <<wire, indicator, menu, ipc, hub, server>>
      BY <1>25 DEF LiveEndedByTray
    <2> QED
      <3>1. HandlerInv'
        BY <2>1 DEF Go, HandlerInv
      <3>2. commands' \in [end_session : BOOLEAN, exit : BOOLEAN]
        BY <1>3, <2>1
      <3>3. /\ pc' = "done" /\ UNCHANGED <<cfg, session, completed>>
            /\ UNCHANGED <<socket, inbox, indicator, menu, control, agent>>
            /\ UNCHANGED <<active_otp, expired, minted, identity>>
            /\ UNCHANGED <<busy, registered, code, known>>
        BY <2>1 DEF Go, wire, ipc, hub, server
      <3>4. TypeOK'
        BY <3>2, <3>3 DEF TypeOK
      <3> QED
        BY <3>1, <3>4
  <1>26. CASE LiveReceive
    <2>1. /\ Go("done") \/ Go("live")
          /\ pc = "live"
          /\ UNCHANGED <<socket, tray, ipc, hub, server>>
      BY <1>26 DEF LiveReceive, Reading
    <2>2. PICK next \in {"done", "live"} : Go(next)
      BY <2>1
    <2> QED
      BY <1>1, <1>2, <1>26, <2>1, <2>2, GoTypes DEF LiveReceive, Reading, tray, ipc, hub, server
  <1>27. CASE LiveClosed \/ PeerDrops \/ PumpDone
    <2>1. Go("done") /\ pc = "live" /\ UNCHANGED <<wire, tray, ipc, hub, server>>
      BY <1>27 DEF LiveClosed, PeerDrops, PumpDone, Closed
    <2> QED
      BY <1>1, <1>2, <2>1, GoTypes DEF wire, tray, ipc, hub, server
  <1>28. CASE PumpFails
    BY <1>1, <1>2, <1>28, ErrorTypes DEF PumpFails, ipc
  <1>29. CASE Finish
    <2>1. /\ pc' \in {"exited", "idle"} /\ session' = None /\ identity' = "none"
          /\ cfg' = cfg /\ completed' = completed + 1
          /\ socket' \in {socket, "none"} /\ registered' \in {registered, "stale"}
      BY <1>29 DEF Finish, Continue, AfterOk
    <2>2. /\ busy' \in {busy, None} /\ agent' \in {None, agent}
          /\ indicator' = EndSession /\ commands' = [commands EXCEPT !.exit = FALSE]
          /\ UNCHANGED <<control, menu, known>>
      BY <1>29 DEF Finish, EndWssSession, Detach
    <2>3. /\ active_otp' \in 0 .. MaxMint /\ minted' \in 0 .. MaxMint
          /\ code' \in {code, "fresh"}
      BY <1>2, <1>29, HostAssumption DEF Finish, Remint
    <2>6. expired' \in BOOLEAN
      BY <1>2, <1>29 DEF Finish, Remint
    <2>4. /\ commands' \in [end_session : BOOLEAN, exit : BOOLEAN]
          /\ completed' \in Nat /\ indicator' \in Indicator
          /\ agent' \in Sid \cup {None} /\ busy' \in Busy \cup {None}
      <3>1. commands' \in [end_session : BOOLEAN, exit : BOOLEAN]
        BY <1>3, <2>2
      <3>2. completed' \in Nat
        BY <2>1 DEF TypeOK
      <3>3. /\ indicator' \in Indicator /\ agent' \in Sid \cup {None}
            /\ busy' \in Busy \cup {None}
        BY <1>2, <2>2
      <3> QED
        BY <3>1, <3>2, <3>3
    <2>5. HandlerInv'
      BY <2>1 DEF HandlerInv
    <2> QED
      BY <1>1, <1>2, <2>1, <2>2, <2>3, <2>4, <2>5, <2>6 DEF TypeOK, InboxOK
  <1>30. CASE OpenMenu
    BY <1>1, <1>2, <1>30, LoopTypes DEF OpenMenu, wire, ipc, hub, server
  <1>31. ASSUME NEW cmd \in {"end_session", "exit", "none"}, Choose(cmd)
         PROVE  TypeOK' /\ HandlerInv'
    <2>1. commands' \in [end_session : BOOLEAN, exit : BOOLEAN] /\ menu' = "closed"
      BY <1>2, <1>3, <1>31 DEF Choose
    <2> QED
      BY <1>1, <1>2, <1>31, <2>1, LoopTypes DEF Choose, wire, ipc, hub, server
  <1>32. CASE LoseSocket \/ AgentDies \/ ServerUnregisters
    BY <1>1, <1>2, <1>32, LoopTypes
    DEF LoseSocket, AgentDies, ServerUnregisters, wire, tray, ipc, hub, server
  <1>33. ASSUME NEW s \in Sid, NEW mode \in Mode, ViewerIntent(s, mode)
         PROVE  TypeOK' /\ HandlerInv'
    <2>1. busy' \in Busy \cup {None} /\ known' \subseteq Sid
      BY <1>2, <1>33 DEF ViewerIntent, Busy, Session
    <2> QED
      BY <1>1, <1>2, <1>33, <2>1, LoopTypes DEF ViewerIntent, tray, ipc, hub
  <1>34. CASE ViewerAnswers
    <2>1. busy' \in Busy \cup {None}
      BY <1>5, <1>34 DEF ViewerAnswers
    <2> QED
      BY <1>1, <1>2, <1>34, <2>1, LoopTypes DEF ViewerAnswers, tray, ipc, hub
  <1>35. CASE ViewerTrickles \/ SessionOver
    BY <1>1, <1>2, <1>35, LoopTypes DEF ViewerTrickles, SessionOver, tray, ipc, hub, server
  <1>36. CASE WindowExpires
    BY <1>1, <1>2, <1>36, LoopTypes DEF WindowExpires, wire, tray, ipc, server
  <1> QED
    BY <1>6, <1>7, <1>8, <1>9, <1>10, <1>11, <1>12, <1>13, <1>14, <1>15, <1>16, <1>17,
       <1>18, <1>19, <1>20, <1>21, <1>22, <1>23, <1>24, <1>25, <1>26, <1>27, <1>28,
       <1>29, <1>30, <1>31, <1>32, <1>33, <1>34, <1>35, <1>36
    DEF Next, HostStep, User, World

-----------------------------------------------------------------------------
\* The agent, the tray and the code window.

RestInv == AgentServesSession /\ ChromeInv /\ WindowInv

\* The stages in which the agent has the session.
LEMMA AgentStages ==
    AgentServesSession <=>
        (cfg.agent /\ control = "up" /\ pc \in Handling \ {"start"} => agent = session.id)
  BY DEF AgentServesSession, Handling, Connecting

\* A failed session: nothing is left to be shown, unless an agent may still
\* be at it, and its window was not touched.
LEMMA ErrorRest ==
    ASSUME TypeOK, RestInv, NEW class \in {"tray", "timeout", "error"}, NEW rest,
           SessionErr(class, rest),
           \/ pc \notin {"live", "done", "exited"}
           \/ pc = "live" /\ (cfg.agent \/ ~cfg.live),
           \/ indicator' = EndSession
           \/ indicator' = indicator /\ (pc # "live" \/ cfg.agent \/ ~cfg.live)
    PROVE  RestInv'
  <1>1. /\ pc' \in {"idle", "offline", "exited"} /\ cfg' = cfg
        /\ active_otp' = active_otp /\ minted' = minted
    BY ErrorEffect
  <1>2. AgentServesSession'
    BY <1>1 DEF AgentServesSession
  <1>3. ChromeInv'
    BY <1>1, TrayEffect
    DEF RestInv, ChromeInv, ChromeTruthful, ChromeWhileLive, ChromeOnlyWhileLive,
        Handling, Connecting
  <1>4. WindowInv'
    BY <1>1 DEF RestInv, WindowInv, WindowUnspentUntilLive
  <1> QED
    BY <1>2, <1>3, <1>4 DEF RestInv

\* A step along the handler, from one stage to the next.
LEMMA GoRest ==
    ASSUME TypeOK, RestInv, NEW next, Go(next),
           UNCHANGED <<indicator, active_otp, minted, control, agent>>,
           \/ pc = "offline" /\ next \in {"idle", "exited"}
           \/ pc \in Connecting \ {"start"} /\ next \in Connecting \ {"start"}
           \/ pc = "live" /\ next \in {"live", "done"}
    PROVE  RestInv'
  <1>1. pc' = next /\ UNCHANGED <<cfg, session>>
    BY DEF Go
  <1>2. AgentServesSession'
    BY <1>1 DEF RestInv, AgentServesSession, Connecting
  <1>3. ChromeInv'
    BY <1>1 DEF RestInv, ChromeInv, ChromeTruthful, ChromeWhileLive, ChromeOnlyWhileLive,
                Handling, Connecting
  <1>4. WindowInv'
    BY <1>1 DEF RestInv, WindowInv, WindowUnspentUntilLive, Connecting
  <1> QED
    BY <1>2, <1>3, <1>4 DEF RestInv

\* The loop stands still.
LEMMA LoopRest ==
    ASSUME RestInv, UNCHANGED <<loop, indicator, active_otp, minted>>,
           UNCHANGED <<control, agent>> \/ control' = "down"
    PROVE  RestInv'
  <1>1. UNCHANGED <<cfg, pc, session>>
    BY DEF loop
  <1>2. AgentServesSession'
    BY <1>1 DEF RestInv, AgentServesSession
  <1>3. ChromeInv'
    BY <1>1 DEF RestInv, ChromeInv, ChromeTruthful, ChromeWhileLive, ChromeOnlyWhileLive
  <1>4. WindowInv'
    BY <1>1 DEF RestInv, WindowInv, WindowUnspentUntilLive
  <1> QED
    BY <1>2, <1>3, <1>4 DEF RestInv

\* Every step keeps what is said of the agent, the tray and the window.
LEMMA RestStep ==
    ASSUME TypeOK, HandlerInv, InboxOK, RestInv, [Next]_vars
    PROVE  RestInv'
  <1>1. CASE UNCHANGED vars
    BY <1>1, LoopRest DEF vars, tray, ipc, hub
  <1>2. CASE Connect
    BY <1>2, GoRest DEF Connect, tray, ipc, hub
  <1>3. CASE ConnectFails
    BY <1>3, GoRest DEF ConnectFails, tray, ipc, hub
  <1>4. CASE Reading({"idle"}) /\ AcceptIncoming(Next1)
    <2>1. session' \in Session /\ session'.id \in Sid
      BY <1>4, AcceptInbox DEF Reading, Next1, Session
    <2>2. /\ pc = "idle" /\ pc' = "start" /\ indicator' = BeginSession(session'.id)
          /\ cfg' = cfg /\ active_otp' = active_otp /\ minted' = minted
      BY <1>4 DEF AcceptIncoming, hub
    <2>3. indicator'.connected /\ (indicator'.active => indicator.active)
      BY <2>1, <2>2, TrayEffect
    <2>4. AgentServesSession'
      BY <2>2 DEF AgentServesSession
    <2>5. ChromeInv'
      BY <2>2, <2>3 DEF RestInv, ChromeInv, ChromeTruthful, ChromeWhileLive, ChromeOnlyWhileLive
    <2>6. WindowInv'
      BY <2>2 DEF RestInv, WindowInv, WindowUnspentUntilLive
    <2> QED
      BY <2>4, <2>5, <2>6 DEF RestInv
  <1>5. CASE SkipWhileIdle
    <2>1. CASE SessionErr("timeout", Tail(inbox))
      BY <1>5, <2>1, ErrorRest DEF SkipWhileIdle, Reading, tray
    <2>2. CASE UNCHANGED <<loop, socket, registered, hub>>
      BY <1>5, <2>2, LoopRest DEF SkipWhileIdle, tray, ipc, hub
    <2> QED
      BY <1>5, <2>1, <2>2 DEF SkipWhileIdle
  <1>6. CASE IdleTimeout \/ IdleClosed
    <2>1. /\ pc = "idle" /\ indicator' = indicator
          /\ \E class \in {"timeout", "error"} : \E rest : SessionErr(class, rest)
      BY <1>6 DEF IdleTimeout, IdleClosed, Closed, Reading, tray
    <2> QED
      BY <2>1, ErrorRest
  <1>7. CASE StartSession
    <2>1. /\ pc = "start" /\ pc' = "offer" /\ session' = session /\ cfg' = cfg
          /\ agent' = IF cfg.agent THEN session.id ELSE agent
          /\ indicator' = indicator /\ active_otp' = active_otp /\ minted' = minted
      BY <1>7 DEF StartSession, Go, tray, hub
    <2>2. AgentServesSession'
      BY <2>1 DEF AgentServesSession
    <2>3. ChromeInv'
      BY <2>1 DEF RestInv, ChromeInv, ChromeTruthful, ChromeWhileLive, ChromeOnlyWhileLive,
                  Handling, Connecting
    <2>4. WindowInv'
      BY <2>1 DEF RestInv, WindowInv, WindowUnspentUntilLive
    <2> QED
      BY <2>2, <2>3, <2>4 DEF RestInv
  <1>8. CASE StartFails
    BY <1>8, ErrorRest DEF StartFails, tray
  <1>9. CASE SendOffer \/ ApplyAnswer \/ SendHostIce
    <2>1. PICK next \in Connecting \ {"start"} : Go(next)
      BY <1>9 DEF SendOffer, ApplyAnswer, SendHostIce, Connecting
    <2>2. /\ pc \in Connecting \ {"start"}
          /\ UNCHANGED <<indicator, active_otp, minted, control, agent>>
      BY <1>9 DEF SendOffer, ApplyAnswer, SendHostIce, Reading, tray, ipc, hub, Connecting
    <2> QED
      BY <2>1, <2>2, GoRest
  <1>10. CASE SendFails \/ AnswerFails \/ TrickleFails
    <2>1. PICK rest : Abandon(rest)
      BY <1>10 DEF SendFails, AnswerFails, TrickleFails
    <2>2. pc \in {"offer", "answer", "ice", "trickle"}
      BY <1>10 DEF SendFails, AnswerFails, TrickleFails, Reading, Closed
    <2> QED
      BY <2>1, <2>2, AbandonEffect, ErrorRest
  <1>11. CASE WaitAnswer \/ Trickle
    BY <1>11, LoopRest DEF WaitAnswer, Trickle, tray, ipc, hub
  <1>12. CASE AnswerTimeout \/ TrickleEndedByTray
    <2>1. PICK class \in {"timeout", "tray"} :
              /\ SessionErr(class, inbox) /\ indicator' = EndSession
              /\ pc \in {"answer", "trickle"}
      BY <1>12 DEF AnswerTimeout, TrickleEndedByTray
    <2> QED
      BY <2>1, ErrorRest
  <1>13. CASE TrickleTimeout
    <2>1. PICK class \in {"error", "timeout"} :
              /\ SessionErr(class, inbox) /\ indicator' = EndSession
              /\ pc = "trickle"
      BY <1>13 DEF TrickleTimeout
    <2> QED
      BY <2>1, ErrorRest
  <1>14. CASE GoLive
    <2>1. /\ pc = "trickle" /\ pc' = "live" /\ UNCHANGED <<cfg, session, control, agent>>
          /\ indicator' = MarkActive
          /\ cfg.agent \/ ~cfg.live => active_otp' = active_otp /\ minted' = minted
      BY <1>14 DEF GoLive, Go, ipc, hub
    <2>2. AgentServesSession'
      BY <2>1 DEF RestInv, AgentServesSession
    <2>3. ChromeInv'
      BY <2>1, TrayEffect
      DEF RestInv, ChromeInv, ChromeTruthful, ChromeWhileLive, ChromeOnlyWhileLive,
          Handling, Connecting
    <2>4. WindowInv'
      BY <2>1 DEF RestInv, WindowInv, WindowUnspentUntilLive
    <2> QED
      BY <2>2, <2>3, <2>4 DEF RestInv
  <1>15. CASE ViewerBinds
    BY <1>15, LoopRest DEF ViewerBinds, tray, ipc
  <1>16. CASE LiveEndedByTray \/ LiveReceive \/ LiveClosed \/ PeerDrops \/ PumpDone
    <2>1. PICK next \in {"live", "done"} : Go(next)
      BY <1>16 DEF LiveEndedByTray, LiveReceive, LiveClosed, PeerDrops, PumpDone
    <2>2. /\ pc = "live"
          /\ UNCHANGED <<indicator, active_otp, minted, control, agent>>
      BY <1>16 DEF LiveEndedByTray, LiveReceive, LiveClosed, PeerDrops, PumpDone,
                   Reading, Closed, tray, ipc, hub
    <2> QED
      BY <2>1, <2>2, GoRest
  <1>17. CASE LiveAgentGone
    <2>1. Abandon(Tail(inbox)) /\ pc = "live" /\ cfg.agent
      BY <1>17 DEF LiveAgentGone, Reading
    <2> QED
      BY <2>1, AbandonEffect, ErrorRest
  <1>18. CASE PumpFails
    BY <1>18, ErrorRest DEF PumpFails
  <1>19. CASE Finish
    <2>1. /\ pc' \in {"exited", "idle"} /\ cfg' = cfg /\ indicator' = EndSession
      BY <1>19 DEF Finish, Continue, AfterOk
    <2>2. /\ cfg.live => active_otp' = minted'
          /\ ~cfg.live => active_otp' = active_otp /\ minted' = minted
      BY <1>19 DEF Finish, Remint
    <2>3. AgentServesSession'
      BY <2>1 DEF AgentServesSession
    <2>4. ChromeInv'
      BY <2>1, TrayEffect
      DEF ChromeInv, ChromeTruthful, ChromeWhileLive, ChromeOnlyWhileLive, Handling, Connecting
    <2>5. WindowInv'
      BY <2>1, <2>2 DEF RestInv, WindowInv, WindowUnspentUntilLive
    <2> QED
      BY <2>3, <2>4, <2>5 DEF RestInv
  <1>20. CASE User
    BY <1>20, LoopRest DEF User, OpenMenu, Choose, ipc, hub
  <1>21. CASE LoseSocket \/ ServerUnregisters \/ ViewerAnswers \/ ViewerTrickles \/ SessionOver
    BY <1>21, LoopRest
    DEF LoseSocket, ServerUnregisters, ViewerAnswers, ViewerTrickles, SessionOver, tray, ipc, hub
  <1>22. CASE AgentDies
    BY <1>22, LoopRest DEF AgentDies, tray, hub
  <1>23. ASSUME NEW s \in Sid, NEW mode \in Mode, ViewerIntent(s, mode)
         PROVE  RestInv'
    BY <1>23, LoopRest DEF ViewerIntent, tray, ipc, hub
  <1>24. CASE WindowExpires
    BY <1>24, LoopRest DEF WindowExpires, tray, ipc
  <1> QED
    BY <1>1, <1>2, <1>3, <1>4, <1>5, <1>6, <1>7, <1>8, <1>9, <1>10, <1>11, <1>12,
       <1>13, <1>14, <1>15, <1>16, <1>17, <1>18, <1>19, <1>20, <1>21, <1>22, <1>23, <1>24
    DEF Next, HostStep, User, World

\* The loop counts a session only where one was served, and never comes back
\* once it returned.
LEMMA LoopEffect ==
    ASSUME [Next]_vars
    PROVE  /\ cfg' = cfg
           /\ Finish \/ completed' = completed
           /\ pc = "exited" => pc' = "exited"
  <1>1. CASE UNCHANGED vars \/ User
    BY <1>1 DEF vars, loop, User, OpenMenu, Choose
  <1>2. CASE World
    BY <1>2 DEF World, loop, Go, LoseSocket, AgentDies, ServerUnregisters, ViewerIntent,
                ViewerAnswers, ViewerTrickles, SessionOver, PeerDrops, ViewerBinds,
                WindowExpires
  <1>3. CASE Finish
    BY <1>3 DEF Finish, Continue
  <1>4. CASE \E class \in {"tray", "timeout", "error"} : \E rest :
                 SessionErr(class, rest) /\ pc # "exited"
    BY <1>4, ErrorEffect
  <1>5. CASE Connect \/ ConnectFails \/ StartSession \/ SendOffer \/ WaitAnswer
             \/ ApplyAnswer \/ SendHostIce \/ Trickle \/ GoLive \/ LiveEndedByTray
             \/ LiveReceive \/ LiveClosed \/ PumpDone
    BY <1>5 DEF Connect, ConnectFails, StartSession, SendOffer, WaitAnswer, ApplyAnswer,
                SendHostIce, Trickle, GoLive, LiveEndedByTray, LiveReceive, LiveClosed,
                PumpDone, Go, Reading, Closed, loop
  <1>6. CASE Reading({"idle"}) /\ AcceptIncoming(Next1)
    BY <1>6 DEF AcceptIncoming
  <1>7. CASE SkipWhileIdle
    BY <1>4, <1>7 DEF SkipWhileIdle, Reading, loop
  <1>8. CASE IdleTimeout \/ IdleClosed \/ StartFails \/ AnswerTimeout
             \/ TrickleEndedByTray \/ TrickleTimeout \/ PumpFails
    <2>1. \E class \in {"tray", "timeout", "error"} : \E rest : SessionErr(class, rest)
      BY <1>8 DEF IdleTimeout, IdleClosed, StartFails, AnswerTimeout, TrickleEndedByTray,
                  TrickleTimeout, PumpFails
    <2>2. pc # "exited"
      BY <1>8 DEF IdleTimeout, IdleClosed, StartFails, AnswerTimeout, TrickleEndedByTray,
                  TrickleTimeout, PumpFails, Reading, Closed
    <2> QED
      BY <1>4, <2>1, <2>2
  <1>9. CASE SendFails \/ AnswerFails \/ TrickleFails \/ LiveAgentGone
    <2>1. PICK rest : Abandon(rest)
      BY <1>9 DEF SendFails, AnswerFails, TrickleFails, LiveAgentGone
    <2>2. pc # "exited"
      BY <1>9 DEF SendFails, AnswerFails, TrickleFails, LiveAgentGone, Reading, Closed
    <2> QED
      BY <1>4, <2>1, <2>2, AbandonEffect
  <1> QED
    BY <1>1, <1>2, <1>3, <1>5, <1>6, <1>7, <1>8, <1>9 DEF Next, HostStep

\* Every step keeps the bound on sessions.
LEMMA BoundStep ==
    ASSUME TypeOK, SessionsBounded, [Next]_vars
    PROVE  SessionsBounded'
  <1>1. cfg \in Config /\ completed \in Nat
    BY HostAssumption DEF TypeOK
  <1>2. cfg' = cfg /\ cfg.max_sessions \in Nat
    BY <1>1, LoopEffect DEF Config
  <1>3. CASE completed' = completed
    BY <1>2, <1>3, LoopEffect DEF SessionsBounded
  <1>4. CASE Finish
    <2>1. /\ pc = "done" /\ completed' = completed + 1 /\ pc' = AfterOk
      BY <1>4 DEF Finish, Continue
    <2> QED
      BY <1>1, <1>2, <2>1 DEF SessionsBounded, AfterOk
  <1> QED
    BY <1>3, <1>4, LoopEffect

-----------------------------------------------------------------------------
\* The theorems.

\* The inductive invariant holds: the queue of the socket is in the server's
\* order and holds nothing of another session for the handler that reads it
\* (ws_session.rs accept_incoming_session, drive_local_media).
THEOREM HostInvCorrect == Spec => []HostInv
  <1>1. Init => HostInv
    <2> SUFFICES ASSUME Init PROVE HostInv
      OBVIOUS
    <2>1. /\ pc = "offline" /\ session = None /\ completed = 0 /\ inbox = <<>>
          /\ indicator = NoSession /\ active_otp = 1 /\ minted = 1 /\ expired = FALSE /\ cfg \in Configs
      BY DEF Init
    <2>2. inbox \in Seq(Message) /\ InboxInv
      BY <2>1, EmptyInOrder DEF InboxInv, LockIsOwn
    <2>3. TypeOK
      <3>1. expired \in BOOLEAN
        BY <2>1
      <3> QED
        BY <2>2, <3>1, HostAssumption DEF Init, TypeOK, NoSession, Indicator
    <2>4. HandlerInv /\ AgentServesSession /\ WindowInv
      BY <2>1 DEF HandlerInv, Handling, Connecting, AgentServesSession, WindowInv,
                  WindowUnspentUntilLive
    <2>5. ChromeInv
      BY <2>1 DEF ChromeInv, ChromeTruthful, ChromeWhileLive, ChromeOnlyWhileLive,
                  NoSession, Handling, Connecting
    <2>6. SessionsBounded
      <3>1. cfg.max_sessions \in Nat
        BY <2>1, HostAssumption DEF Config
      <3> QED
        BY <2>1, <3>1 DEF SessionsBounded
    <2> QED
      BY <2>2, <2>3, <2>4, <2>5, <2>6 DEF HostInv
  <1>2. HostInv /\ [Next]_vars => HostInv'
    <2> SUFFICES ASSUME HostInv, [Next]_vars PROVE HostInv'
      OBVIOUS
    <2>1. TypeOK /\ HandlerInv /\ InboxOK /\ RestInv /\ SessionsBounded
      BY DEF HostInv, InboxOK, RestInv, TypeOK
    <2>2. TypeOK' /\ HandlerInv' /\ InboxOK' /\ RestInv' /\ SessionsBounded'
      BY <2>1, TypeStep, InboxStep, RestStep, BoundStep
    <2> QED
      BY <2>2 DEF HostInv, InboxOK, RestInv
  <1> QED
    BY <1>1, <1>2, PTL DEF Spec

\* The answers and candidates a handler passes on are its own session's, the
\* agent it drives is at that session, and no more sessions are served than
\* asked for.
THEOREM ServesCorrect == Spec => []ServesOneSession
  <1>1. HostInv => ServesOneSession
    <2> SUFFICES ASSUME HostInv PROVE ServesOneSession
      OBVIOUS
    <2>1. ASSUME Reading({"answer", "trickle", "live"}), Next1.kind \in {"answer", "ice"}
          PROVE  Next1.session = session
      <3>1. inbox \in Seq(Message) /\ inbox # <<>> /\ session # None
        BY <2>1 DEF HostInv, TypeOK, HandlerInv, Reading, Handling, Connecting
      <3>2. Next1 = inbox[1] /\ 1 \in 1 .. Len(inbox)
        BY <3>1 DEF Next1
      <3>3. Own(inbox, session)
        BY <3>1 DEF HostInv, InboxInv
      <3> QED
        BY <2>1, <3>2, <3>3 DEF Own, Signal
    <2> QED
      BY <2>1 DEF HostInv, ServesOneSession, SignalsAreOwn
  <1> QED
    BY <1>1, HostInvCorrect, PTL

\* The tray shows a live session, and in process only a live one (chrome.rs).
THEOREM ChromeCorrect == Spec => []ChromeTruthful
  <1>1. HostInv => ChromeTruthful
    BY DEF HostInv, ChromeInv
  <1> QED
    BY <1>1, HostInvCorrect, PTL

\* Until a session is live the newest code's window is open (LiveOtpHub).
THEOREM WindowCorrect == Spec => []WindowUnspentUntilLive
  <1>1. HostInv => WindowUnspentUntilLive
    BY DEF HostInv, WindowInv
  <1> QED
    BY <1>1, HostInvCorrect, PTL

-----------------------------------------------------------------------------
(***************************************************************************)
(* The application around the service: DesktopShell.                       *)
(***************************************************************************)

\* A set of positions has a least element.
LEMMA LeastOf ==
    ASSUME NEW T, T \subseteq Nat, T # {}
    PROVE  \E x \in T : \A y \in T : x <= y
  <1>1. PICK x \in T : \A y \in T : ~ (<<y, x>> \in OpToRel(<, Nat))
    BY NatLessThanWellFounded, WFMin
  <1>2. \A y \in T : y < x => <<y, x>> \in OpToRel(<, Nat)
    BY DEF OpToRel
  <1>3. \A y \in T : x <= y
    <2> TAKE y \in T
    <2>1. x \in Nat /\ y \in Nat
      OBVIOUS
    <2>2. ~(y < x)
      BY <1>1, <1>2
    <2> QED BY <2>1, <2>2
  <1> QED BY <1>3

\* What holds of 0, and of every position if of the one before, holds of all.
LEMMA Climb ==
    ASSUME NEW n \in Nat, NEW T, 0 \in T, \A i \in 1 .. n : i - 1 \in T => i \in T
    PROVE  \A i \in 0 .. n : i \in T
  <1> DEFINE U == {i \in 0 .. n : i \notin T}
  <1> SUFFICES U = {}
    OBVIOUS
  <1> SUFFICES ASSUME U # {} PROVE FALSE
    OBVIOUS
  <1>1. PICK x \in U : \A y \in U : x <= y
    <2>1. U \subseteq Nat
      OBVIOUS
    <2> QED
      BY <2>1, LeastOf
  <1>2. x \in 1 .. n /\ x - 1 \in 0 .. n /\ ~(x <= x - 1)
    OBVIOUS
  <1>3. x - 1 \in T
    BY <1>1, <1>2
  <1> QED
    BY <1>2, <1>3

\* u is the list's prefixes without id.
UpTo(list, id, u) ==
    u = [i \in 0 .. Len(list) |->
            IF i = 0 THEN <<>>
            ELSE IF list[i] # id THEN Append(u[i - 1], list[i]) ELSE u[i - 1]]

\* The prefixes exist.
LEMMA UpToExists ==
    ASSUME NEW list, Len(list) \in Nat, NEW id
    PROVE  \E u : UpTo(list, id, u)
  <1> DEFINE n == Len(list)
             Part(m, u) == u = [i \in 0 .. m |->
                IF i = 0 THEN <<>>
                ELSE IF list[i] # id THEN Append(u[i - 1], list[i]) ELSE u[i - 1]]
             P == {m \in Nat : \E u : Part(m, u)}
  <1>1. 0 \in P
    <2>1. Part(0, [i \in 0 .. 0 |-> <<>>])
      OBVIOUS
    <2> QED
      BY <2>1
  <1>2. ASSUME NEW m \in 1 .. n, m - 1 \in P PROVE m \in P
    <2>1. PICK u : Part(m - 1, u)
      BY <1>2
    <2> DEFINE last == IF list[m] # id THEN Append(u[m - 1], list[m]) ELSE u[m - 1]
               v == [i \in 0 .. m |-> IF i = m THEN last ELSE u[i]]
    <2>2. v = [i \in 0 .. m |->
                IF i = 0 THEN <<>>
                ELSE IF list[i] # id THEN Append(v[i - 1], list[i]) ELSE v[i - 1]]
      <3>1. ASSUME NEW i \in 0 .. m
            PROVE  v[i] = IF i = 0 THEN <<>>
                          ELSE IF list[i] # id THEN Append(v[i - 1], list[i]) ELSE v[i - 1]
        <4>1. CASE i = m
          <5>1. v[m] = last /\ v[m - 1] = u[m - 1]
            OBVIOUS
          <5> QED
            BY <4>1, <5>1
        <4>2. CASE i # m
          <5>1. i \in 0 .. m - 1 /\ v[i] = u[i] /\ (i # 0 => i - 1 \in 0 .. m /\ i - 1 # m)
            BY <4>2
          <5>2. i # 0 => v[i - 1] = u[i - 1]
            BY <5>1
          <5>3. u[i] = IF i = 0 THEN <<>>
                       ELSE IF list[i] # id THEN Append(u[i - 1], list[i]) ELSE u[i - 1]
            BY <2>1, <5>1
          <5> QED
            BY <5>1, <5>2, <5>3
        <4> QED
          BY <4>1, <4>2
      <3> QED
        BY <3>1
    <2> HIDE DEF v
    <2>3. \E w : Part(m, w)
      BY <2>2
    <2> HIDE DEF Part
    <2> QED
      BY <2>3
  <1> HIDE DEF P
  <1>3. n \in P
    <2>1. \A m \in 0 .. n : m \in P
      BY <1>1, <1>2, Climb
    <2> QED
      BY <2>1
  <1>4. \E u : Part(n, u)
    BY <1>3 DEF P
  <1> QED
    BY <1>4 DEF UpTo

\* What a list without id holds: entries of the list other than id, once each if
\* the list has them once, and no more than the list.
LEMMA OthersAre ==
    ASSUME NEW S, NEW list \in Seq(S), NEW id, IsInjective(list)
    PROVE  /\ Others(list, id) \in Seq(S) /\ Len(Others(list, id)) <= Len(list)
           /\ IsInjective(Others(list, id))
           /\ \A k \in 1 .. Len(Others(list, id)) :
                 /\ Others(list, id)[k] # id
                 /\ \E j \in 1 .. Len(list) : Others(list, id)[k] = list[j]
  <1> DEFINE n == Len(list)
             Taken(s, i) ==
                /\ s \in Seq(S) /\ Len(s) <= i
                /\ \A k \in 1 .. Len(s) : s[k] # id /\ \E j \in 1 .. i : s[k] = list[j]
                /\ \A k, l \in 1 .. Len(s) : s[k] = s[l] => k = l
  <1>0. n \in Nat /\ DOMAIN list = 1 .. n
    OBVIOUS
  <1>1. PICK u : UpTo(list, id, u)
    BY <1>0, UpToExists
  <1>2. Others(list, id) = (CHOOSE v : UpTo(list, id, v))[n]
    BY DEF Others, UpTo
  <1>3. ASSUME NEW v, UpTo(list, id, v) PROVE Taken(v[n], n)
    <2> DEFINE P == {i \in 0 .. n : Taken(v[i], i)}
    <2>0. \A i \in 0 .. n : v[i] = IF i = 0 THEN <<>>
                ELSE IF list[i] # id THEN Append(v[i - 1], list[i]) ELSE v[i - 1]
      BY <1>0, <1>3 DEF UpTo
    <2>1. 0 \in P
      <3>1. v[0] = <<>> /\ 0 \in 0 .. n
        BY <1>0, <2>0
      <3>2. Taken(<<>>, 0)
        OBVIOUS
      <3> HIDE DEF Taken
      <3> QED
        BY <3>1, <3>2
    <2>2. ASSUME NEW i \in 1 .. n, i - 1 \in P PROVE i \in P
      <3> DEFINE s == v[i - 1]
                 x == list[i]
      <3>1. Taken(s, i - 1) /\ i \in 0 .. n /\ i # 0 /\ x \in S
        BY <2>2
      <3>2. v[i] = IF x # id THEN Append(s, x) ELSE s
        BY <2>0, <3>1
      <3>3. Taken(s, i)
        BY <1>0, <3>1
      <3>4. \A k \in 1 .. Len(s) : s[k] # x
        <4> SUFFICES ASSUME NEW k \in 1 .. Len(s), s[k] = x PROVE FALSE
          OBVIOUS
        <4>1. PICK j \in 1 .. i - 1 : s[k] = list[j]
          BY <3>1
        <4>2. j \in DOMAIN list /\ i \in DOMAIN list /\ j # i
          BY <1>0, <4>1
        <4> QED
          BY <4>1, <4>2 DEF IsInjective
      <3> HIDE DEF s, x
      <3>5. CASE x # id
        <4>1. v[i] = Append(s, x)
          BY <3>2, <3>5
        <4>2. /\ Append(s, x) \in Seq(S) /\ Len(Append(s, x)) = Len(s) + 1 /\ Len(s) \in Nat
              /\ Append(s, x)[Len(s) + 1] = x /\ \A k \in 1 .. Len(s) : Append(s, x)[k] = s[k]
          BY <3>1, AppendProperties
        <4> DEFINE t == Append(s, x)
        <4> HIDE DEF t
        <4>3. /\ t \in Seq(S) /\ Len(t) = Len(s) + 1 /\ t[Len(s) + 1] = x
              /\ \A k \in 1 .. Len(s) : t[k] = s[k]
          BY <4>2 DEF t
        <4>4. Len(t) <= i
          BY <3>1, <4>2, <4>3
        <4>5. \A k \in 1 .. Len(t) : t[k] # id /\ \E j \in 1 .. i : t[k] = list[j]
          <5> TAKE k \in 1 .. Len(t)
          <5>1. CASE k \in 1 .. Len(s)
            BY <3>3, <4>3, <5>1
          <5>2. CASE k = Len(s) + 1
            <6>1. t[k] = list[i] /\ i \in 1 .. i
              BY <4>3, <5>2 DEF x
            <6> QED
              BY <3>5, <4>3, <5>2, <6>1
          <5> QED
            BY <4>2, <4>3, <5>1, <5>2
        <4>6. \A k, l \in 1 .. Len(t) : t[k] = t[l] => k = l
          <5> TAKE k, l \in 1 .. Len(t)
          <5>1. (k \in 1 .. Len(s) \/ k = Len(s) + 1) /\ (l \in 1 .. Len(s) \/ l = Len(s) + 1)
            BY <4>2, <4>3
          <5> QED
            BY <3>3, <3>4, <4>3, <5>1
        <4> QED
          <5>1. Taken(t, i)
            BY <4>3, <4>4, <4>5, <4>6
          <5>2. v[i] = t
            BY <4>1 DEF t
          <5> HIDE DEF Taken
          <5> QED
            BY <5>1, <5>2
      <3>6. CASE x = id
        BY <3>1, <3>2, <3>3, <3>6
      <3> QED
        BY <3>5, <3>6
    <2> HIDE DEF P
    <2>3. \A i \in 0 .. n : i \in P
      BY <1>0, <2>1, <2>2, Climb
    <2> QED
      BY <1>0, <2>3 DEF P
  <1>4. Taken(Others(list, id), n)
    <2> DEFINE v == CHOOSE w : UpTo(list, id, w)
    <2>1. UpTo(list, id, v)
      BY <1>1
    <2> HIDE DEF v, Taken
    <2>2. Taken(v[n], n)
      BY <1>3, <2>1
    <2> QED
      BY <1>2, <2>2 DEF v
  <1> HIDE DEF n
  <1>5. DOMAIN Others(list, id) = 1 .. Len(Others(list, id))
    BY <1>4
  <1> QED
    BY <1>4, <1>5 DEF IsInjective, n

\* push_recent keeps a list that holds every id once, within the cap.
LEMMA PushKeeps ==
    ASSUME NEW S, NEW list \in Seq(S), NEW id \in S, IsInjective(list)
    PROVE  LET new == PushRecent(list, id)
           IN  new \in Seq(S) /\ IsInjective(new) /\ Len(new) <= RecentCap
  <1> DEFINE o == Others(list, id)
             all == <<id>> \o o
             n == IF Len(all) < RecentCap THEN Len(all) ELSE RecentCap
             new == SubSeq(all, 1, n)
  <1>1. /\ o \in Seq(S) /\ IsInjective(o) /\ \A k \in 1 .. Len(o) : o[k] # id
        /\ Len(o) \in Nat /\ DOMAIN o = 1 .. Len(o)
    BY OthersAre
  <1> HIDE DEF o
  <1>2. /\ all \in Seq(S) /\ Len(all) = Len(o) + 1
        /\ all[1] = id /\ \A k \in 2 .. Len(o) + 1 : all[k] = o[k - 1]
    BY <1>1
  <1>3. \A k, l \in 1 .. Len(all) : all[k] = all[l] => k = l
    <2> TAKE k, l \in 1 .. Len(all)
    <2>1. (k = 1 \/ k \in 2 .. Len(o) + 1) /\ (l = 1 \/ l \in 2 .. Len(o) + 1)
      BY <1>1, <1>2
    <2>2. \A i \in 2 .. Len(o) + 1 : i - 1 \in DOMAIN o
      BY <1>1
    <2> HIDE DEF all
    <2>3. \A i \in 2 .. Len(o) + 1 : all[i] # id
      BY <1>1, <1>2, <2>2
    <2>4. \A i, j \in 2 .. Len(o) + 1 : all[i] = all[j] => i = j
      <3> SUFFICES ASSUME NEW i \in 2 .. Len(o) + 1, NEW j \in 2 .. Len(o) + 1, all[i] = all[j]
                   PROVE  i = j
        OBVIOUS
      <3>1. o[i - 1] = o[j - 1]
        BY <1>2
      <3>2. i - 1 = j - 1
        BY <1>1, <2>2, <3>1 DEF IsInjective
      <3> QED
        BY <1>1, <3>2
    <2> QED
      BY <1>2, <2>1, <2>3, <2>4
  <1> HIDE DEF all
  <1>4. n \in 0 .. Len(all) /\ n <= RecentCap
    BY <1>1, <1>2, ShellAssumption
  <1> HIDE DEF n
  <1>5. new \in Seq(S) /\ Len(new) = n /\ \A k \in 1 .. n : new[k] = all[k]
    BY <1>2, <1>4, SubSeqProperties
  <1>6. DOMAIN new = 1 .. n /\ 1 .. n \subseteq 1 .. Len(all)
    BY <1>1, <1>2, <1>4, <1>5
  <1> HIDE DEF new
  <1>7. IsInjective(new)
    BY <1>3, <1>5, <1>6 DEF IsInjective
  <1> QED
    BY <1>4, <1>5, <1>7 DEF PushRecent, new, all, o, n

-----------------------------------------------------------------------------
\* What the form of the remote id may hold.
Text == {NoText} \cup Pasted \cup {SplitPasted(t) : t \in Pasted}

Worker == [target : Text, state : {"running", "finished"}, error : BOOLEAN, stop : BOOLEAN]
AppConfig == [auto_start_host : BOOLEAN, recent_hosts : Seq(Text)]
App == [allow_access : BOOLEAN, host : Nat, host_error : BOOLEAN, host_status : Nat,
        viewer : Nat, remote_id : Text]

ShellTypeOK ==
    /\ up \in BOOLEAN /\ off \in BOOLEAN /\ started \in Nat /\ status_file \in Nat
    /\ running \subseteq 1 .. started /\ orphans \subseteq 1 .. started
    /\ workers \in Seq(Worker) /\ dialled \subseteq Text
    /\ shell \in App /\ shell.viewer <= Len(workers)

\* What is remembered was dialled, is remembered once and within the cap.
Remembered(list, ids) ==
    (\A i \in 1 .. Len(list) : list[i] \in ids) /\ IsInjective(list) /\ Len(list) <= RecentCap

ConfigSound(c, ids) == c \in AppConfig /\ Remembered(c.recent_hosts, ids)

\* The configuration in memory and the one on disk are sound.
ConfigsSound ==
    /\ ConfigSound(config, dialled)
    /\ disk = <<>> \/ \E c \in AppConfig : disk = <<c>> /\ ConfigSound(c, dialled)

\* Nothing runs in the application's name after access was turned off.
OffIsOff == off => running \subseteq orphans

\* The connection shown is to the id in the form, and none outlives the application.
ViewerShown ==
    /\ shell.viewer # 0 => workers[shell.viewer].target = shell.remote_id
    /\ ~up => shell.viewer = 0 /\ \A w \in 1 .. Len(workers) : workers[w].state = "finished"

\* The host's part and the connection's part.
HostPart == HostInReach /\ OffIsOff /\ OffShowsNothing
ViewerPart == WindowsOwnSessions /\ ViewerShown

\* The inductive invariant of the shell.
ShellInv == ShellTypeOK /\ ConfigsSound /\ HostPart /\ ViewerPart

\* The configuration is sound, also when more was dialled, or read from the disk.
LEMMA ConfigKept ==
    ASSUME NEW c, NEW ids, NEW more, ids \subseteq more, ConfigSound(c, ids)
    PROVE  ConfigSound(c, more)
  BY DEF ConfigSound, Remembered

\* The configuration of a first start is sound.
LEMMA DefaultSound ==
    ASSUME NEW ids
    PROVE  ConfigSound(DefaultConfig, ids)
  <1>1. <<>> \in Seq(Text) /\ Len(<<>>) = 0 /\ DOMAIN <<>> = 1 .. 0
    OBVIOUS
  <1>2. IsInjective(<<>>)
    BY <1>1 DEF IsInjective
  <1> QED
    BY <1>1, <1>2, ShellAssumption DEF ConfigSound, Remembered, DefaultConfig, AppConfig

\* What a step that leaves the dialled ids alone must do to the configuration.
LEMMA ConfigsKept ==
    ASSUME ConfigsSound, dialled' = dialled,
           \/ config' = config
           \/ \E b \in BOOLEAN : config' = [config EXCEPT !.auto_start_host = b]
           \/ \E b \in BOOLEAN : config' = [LoadConfig EXCEPT !.auto_start_host = b],
           disk' = disk \/ disk' = <<>> \/ disk' = <<config>>
    PROVE  ConfigsSound'
  <1>1. ASSUME NEW c, NEW b \in BOOLEAN, ConfigSound(c, dialled)
        PROVE  ConfigSound([c EXCEPT !.auto_start_host = b], dialled)
    BY <1>1 DEF ConfigSound, Remembered, AppConfig
  <1>2. ConfigSound(LoadConfig, dialled)
    BY DefaultSound DEF ConfigsSound, LoadConfig
  <1>3. ConfigSound(config', dialled)
    BY <1>1, <1>2 DEF ConfigsSound
  <1>4. disk' = <<>> \/ \E c \in AppConfig : disk' = <<c>> /\ ConfigSound(c, dialled)
    BY DEF ConfigsSound, ConfigSound
  <1> QED
    BY <1>3, <1>4 DEF ConfigsSound

\* start_host: the only host left running in the application's name is the one it
\* holds, and if access stays off nothing is shown.
LEMMA StartHostKeeps ==
    ASSUME ShellTypeOK, HostPart, NEW sh \in App, StartHost(sh), orphans' = orphans,
           sh.allow_access, \A p \in running \ orphans : p = sh.host,
           off /\ orphans = {} => sh.host_status = 0
    PROVE  /\ started' \in Nat /\ started <= started' /\ status_file' \in Nat
           /\ running' \subseteq 1 .. started' /\ off' \in BOOLEAN
           /\ shell' \in App /\ shell'.viewer = sh.viewer /\ shell'.remote_id = sh.remote_id
           /\ \A p \in running' \ orphans : p = shell'.host /\ shell'.allow_access
           /\ OffIsOff' /\ OffShowsNothing'
  <1> DEFINE left == Stopped(sh.host)
             cleared == [sh EXCEPT !.host = 0, !.host_error = TRUE]
  <1>0. left \subseteq running /\ left \subseteq orphans
    BY DEF Stopped
  <1>r. RemoveStatus => status_file' \in Nat /\ (status_file = 0 => status_file' = 0)
    BY DEF RemoveStatus, ShellTypeOK
  <1>c. /\ cleared \in App /\ cleared.allow_access = sh.allow_access /\ cleared.viewer = sh.viewer
        /\ cleared.remote_id = sh.remote_id /\ cleared.host_status = sh.host_status
    BY DEF App
  <1> HIDE DEF left, cleared
  <1>1. CASE sh.host \in running /\ shell' = sh /\ UNCHANGED <<running, started, status_file, off>>
    BY <1>1 DEF ShellTypeOK, HostPart, OffIsOff, OffShowsNothing
  <1>2. CASE shell' = cleared /\ running' = left /\ UNCHANGED <<started, status_file, off>>
    BY <1>0, <1>2, <1>c DEF ShellTypeOK, HostPart, OffIsOff, OffShowsNothing
  <1>3. CASE /\ SpawnFails(left) /\ shell' = [cleared EXCEPT !.allow_access = FALSE]
             /\ RemoveStatus /\ UNCHANGED off
    <2>1. /\ shell' \in App /\ shell'.viewer = sh.viewer /\ shell'.remote_id = sh.remote_id
          /\ shell'.host_status = sh.host_status
      BY <1>3, <1>c DEF App
    <2>2. running' = left /\ started' = started
      BY <1>3 DEF SpawnFails
    <2> QED
      BY <1>0, <1>r, <1>3, <2>1, <2>2 DEF ShellTypeOK, HostPart, OffIsOff, OffShowsNothing
  <1>4. CASE /\ Spawn(left) /\ RemoveStatus /\ off' = FALSE
             /\ shell' = [sh EXCEPT !.host = started', !.host_error = FALSE, !.allow_access = TRUE]
    <2>1. started' = started + 1 /\ running' = left \cup {started + 1}
      BY <1>4 DEF Spawn
    <2>2. started' \in Nat /\ running' \subseteq 1 .. started'
      BY <1>0, <2>1 DEF ShellTypeOK
    <2>3. /\ shell' \in App /\ shell'.viewer = sh.viewer /\ shell'.remote_id = sh.remote_id
          /\ shell'.host = started' /\ shell'.allow_access
      BY <1>4, <2>2 DEF App
    <2>4. started <= started' /\ status_file' \in Nat /\ off' = FALSE
      BY <1>r, <1>4, <2>1 DEF ShellTypeOK
    <2>5. \A p \in running' \ orphans : p = shell'.host /\ shell'.allow_access
      BY <1>0, <2>1, <2>3
    <2> QED
      BY <2>2, <2>3, <2>4, <2>5 DEF OffIsOff, OffShowsNothing
  <1> QED
    BY <1>1, <1>2, <1>3, <1>4 DEF StartHost, left, cleared

-----------------------------------------------------------------------------
\* The application comes and goes, and drops what it owns.

\* Launch: what still runs was left behind by a crash.
LEMMA LaunchKeeps ==
    ASSUME ShellInv, NEW login \in BOOLEAN, Launch(login)
    PROVE  ShellInv'
  <1> DEFINE loaded == [LoadConfig EXCEPT !.auto_start_host = @ \/ login]
             fresh == [DefaultShell EXCEPT !.allow_access = loaded.auto_start_host]
  <1>1. /\ ~up /\ up' = TRUE /\ config' = loaded
        /\ UNCHANGED <<orphans, workers, disk, dialled>>
        /\ IF fresh.allow_access THEN StartHost(fresh)
           ELSE shell' = fresh /\ UNCHANGED <<running, started, status_file, off>>
    BY DEF Launch
  <1>2. LoadConfig.auto_start_host \in BOOLEAN /\ LoadConfig \in AppConfig
    BY DefaultSound DEF ShellInv, ConfigsSound, LoadConfig, ConfigSound, AppConfig
  <1>3. loaded = [LoadConfig EXCEPT !.auto_start_host = LoadConfig.auto_start_host \/ login]
        /\ loaded.auto_start_host \in BOOLEAN
    BY <1>2 DEF AppConfig
  <1>4. ConfigsSound'
    <2>1. LoadConfig.auto_start_host \/ login \in BOOLEAN
      BY <1>2
    <2> DEFINE b == LoadConfig.auto_start_host \/ login
    <2>2. config' = [LoadConfig EXCEPT !.auto_start_host = b] /\ b \in BOOLEAN
      BY <1>1, <1>3, <2>1
    <2> HIDE DEF b
    <2> QED
      BY <1>1, <2>2, ConfigsKept DEF ShellInv
  <1>5. /\ fresh \in App /\ fresh.host = 0 /\ fresh.host_status = 0 /\ fresh.viewer = 0
        /\ fresh.remote_id = NoText
    BY <1>3 DEF DefaultShell, App, Text
  <1> HIDE DEF fresh, loaded
  <1>6. running \subseteq orphans
    BY <1>1 DEF ShellInv, HostPart, HostInReach
  <1>7. /\ started' \in Nat /\ started <= started' /\ status_file' \in Nat
        /\ running' \subseteq 1 .. started' /\ off' \in BOOLEAN
        /\ shell' \in App /\ shell'.viewer = 0
        /\ \A p \in running' \ orphans : p = shell'.host /\ shell'.allow_access
        /\ OffIsOff' /\ OffShowsNothing'
    <2>1. CASE fresh.allow_access
      BY <1>1, <1>5, <1>6, <2>1, StartHostKeeps DEF ShellInv
    <2>2. CASE ~fresh.allow_access
      <3>1. shell' = fresh /\ UNCHANGED <<running, started, status_file, off, orphans>>
        BY <1>1, <2>2
      <3>2. ShellTypeOK /\ OffIsOff /\ OffShowsNothing
        BY DEF ShellInv, HostPart
      <3>3. OffIsOff' /\ OffShowsNothing'
        BY <1>5, <3>1, <3>2 DEF OffIsOff, OffShowsNothing
      <3> QED
        BY <1>5, <1>6, <3>1, <3>2, <3>3 DEF ShellTypeOK
    <2> QED
      BY <2>1, <2>2
  <1>8. ShellTypeOK'
    BY <1>1, <1>7 DEF ShellInv, ShellTypeOK
  <1>9. ViewerPart'
    BY <1>1, <1>7 DEF ShellInv, ShellTypeOK, ViewerPart, ViewerShown, WindowsOwnSessions
  <1>10. HostPart'
    BY <1>1, <1>7 DEF HostPart, HostInReach
  <1> QED
    BY <1>4, <1>8, <1>9, <1>10 DEF ShellInv

\* What is left when the application has gone.
LEMMA GoneKeeps ==
    ASSUME ShellInv, up' = FALSE, shell' = DefaultShell, workers' = AllStopped, off' = FALSE,
           UNCHANGED <<started, status_file, config, dialled>>,
           disk' = disk \/ disk' = <<>> \/ disk' = <<config>>,
           running' \subseteq orphans', running' \subseteq running,
           orphans' \subseteq orphans \cup running
    PROVE  ShellInv'
  <1>1. ConfigsSound'
    BY ConfigsKept DEF ShellInv
  <1>2. shell' \in App /\ shell'.viewer = 0
    BY DEF DefaultShell, App, Text
  <1>3. /\ workers' \in Seq(Worker) /\ DOMAIN workers' = 1 .. Len(workers') /\ Len(workers') \in Nat
        /\ \A w \in 1 .. Len(workers') : workers'[w].state = "finished"
    <2>1. workers \in Seq(Worker)
      BY DEF ShellInv, ShellTypeOK
    <2>2. \A w \in 1 .. Len(workers) : [workers[w] EXCEPT !.state = "finished"] \in Worker
      <3> TAKE w \in 1 .. Len(workers)
      <3>1. workers[w] \in Worker
        BY <2>1
      <3> QED
        BY <3>1 DEF Worker
    <2>3. \A w \in 1 .. Len(workers) : [workers[w] EXCEPT !.state = "finished"].state = "finished"
      <3> TAKE w \in 1 .. Len(workers)
      <3>1. workers[w] \in Worker
        BY <2>1
      <3> QED
        BY <3>1 DEF Worker
    <2>4. AllStopped = [w \in 1 .. Len(workers) |-> [workers[w] EXCEPT !.state = "finished"]]
      BY <2>1 DEF AllStopped
    <2>5. AllStopped \in Seq(Worker) /\ Len(AllStopped) = Len(workers)
      BY <2>1, <2>2, <2>4
    <2> QED
      BY <2>1, <2>3, <2>4, <2>5
  <1>4. ShellTypeOK'
    <2>1. ShellTypeOK
      BY DEF ShellInv
    <2>2. running' \subseteq 1 .. started' /\ orphans' \subseteq 1 .. started'
      BY <2>1 DEF ShellTypeOK
    <2>3. shell'.viewer <= Len(workers')
      BY <1>2, <1>3
    <2> QED
      BY <1>2, <1>3, <2>1, <2>2, <2>3 DEF ShellTypeOK
  <1>5. ViewerPart'
    BY <1>2, <1>3 DEF ViewerPart, ViewerShown, WindowsOwnSessions
  <1>6. HostPart'
    BY DEF HostPart, HostInReach, OffIsOff, OffShowsNothing
  <1> QED
    BY <1>1, <1>4, <1>5, <1>6 DEF ShellInv

\* Exit takes the host process along ...
LEMMA ExitKeeps ==
    ASSUME ShellInv, Exit
    PROVE  ShellInv'
  <1>1. running' \subseteq running /\ running' \subseteq orphans
    BY DEF Exit, Stopped, ShellInv, HostPart, HostInReach
  <1> QED
    BY <1>1, GoneKeeps DEF Exit, Save

\* ... and a crash leaves it behind.
LEMMA CrashKeeps ==
    ASSUME ShellInv, Crash
    PROVE  ShellInv'
  BY GoneKeeps DEF Crash

-----------------------------------------------------------------------------
\* The user and the frames.

\* Steps of the host's part leave the connection's part alone.
LEMMA ViewerUntouched ==
    ASSUME ShellTypeOK, ViewerPart, UNCHANGED <<up, workers>>, shell'.viewer = shell.viewer,
           shell'.remote_id = shell.remote_id
    PROVE  ViewerPart'
  BY DEF ShellTypeOK, ViewerPart, ViewerShown, WindowsOwnSessions

\* ... and those of the connection's part the host's.
LEMMA HostUntouched ==
    ASSUME HostPart, UNCHANGED <<up, running, orphans, status_file, off>>,
           shell'.host = shell.host, shell'.allow_access = shell.allow_access,
           shell'.host_status = shell.host_status
    PROVE  HostPart'
  BY DEF HostPart, HostInReach, OffIsOff, OffShowsNothing

\* A host that was lost is let go of, and without a file there is no news.
LEMMA PollHostKeeps ==
    ASSUME ShellInv, NEW poll_fails \in BOOLEAN, PollHostStatus(poll_fails)
    PROVE  ShellInv'
  <1> DEFINE lost == shell.host # 0 /\ ~HostAlive(poll_fails)
  <1>1. /\ up /\ UNCHANGED <<up, started, orphans, status_file, workers, config, disk, dialled, off>>
        /\ shell' = [shell EXCEPT !.host_status = ReadStatus, !.host_error = @ \/ lost,
                        !.allow_access = @ /\ ~lost,
                        !.host = IF lost /\ shell.allow_access THEN 0 ELSE @]
        /\ running' = IF lost /\ shell.allow_access THEN Stopped(shell.host) ELSE running
    BY DEF PollHostStatus
  <1>2. lost \in BOOLEAN
    OBVIOUS
  <1> HIDE DEF lost
  <1>3. ShellTypeOK /\ HostPart /\ shell \in App /\ ReadStatus \in Nat
    BY DEF ShellInv, ShellTypeOK, ReadStatus, App
  <1>4. /\ shell' \in App /\ shell'.viewer = shell.viewer /\ shell'.remote_id = shell.remote_id
        /\ shell'.host_status = ReadStatus /\ shell'.allow_access = (shell.allow_access /\ ~lost)
        /\ shell'.host = IF lost /\ shell.allow_access THEN 0 ELSE shell.host
    BY <1>1, <1>2, <1>3 DEF App
  <1>5. running' \subseteq running /\ (lost /\ shell.allow_access => running' \subseteq orphans)
    BY <1>1, <1>3 DEF Stopped, HostPart, HostInReach
  <1>6. HostPart'
    <2>1. HostInReach'
      BY <1>1, <1>3, <1>4, <1>5 DEF HostPart, HostInReach
    <2>2. OffIsOff' /\ OffShowsNothing'
      BY <1>1, <1>3, <1>4, <1>5 DEF HostPart, OffIsOff, OffShowsNothing, ReadStatus
    <2> QED
      BY <2>1, <2>2 DEF HostPart
  <1>7. ShellTypeOK'
    BY <1>1, <1>3, <1>4, <1>5 DEF ShellTypeOK
  <1>8. ConfigsSound'
    BY <1>1, ConfigsKept DEF ShellInv
  <1>9. ViewerPart'
    BY <1>1, <1>4, ViewerUntouched DEF ShellInv
  <1> QED
    BY <1>6, <1>7, <1>8, <1>9 DEF ShellInv

\* Access is turned on or off: before it is on, nothing of its own runs.
LEMMA ToggleKeeps ==
    ASSUME ShellInv, NEW on \in BOOLEAN, ToggleAccess(on)
    PROVE  ShellInv'
  <1>1. /\ up /\ UNCHANGED <<up, orphans, workers, config, disk, dialled>>
        /\ on # shell.allow_access
        /\ IF on THEN StartHost([shell EXCEPT !.allow_access = TRUE]) ELSE StopHostUi
    BY DEF ToggleAccess, Form
  <1>2. ShellTypeOK /\ HostPart /\ shell \in App
    BY DEF ShellInv, ShellTypeOK
  <1>3. /\ started' \in Nat /\ started <= started' /\ status_file' \in Nat
        /\ running' \subseteq 1 .. started' /\ off' \in BOOLEAN
        /\ shell' \in App /\ shell'.viewer = shell.viewer /\ shell'.remote_id = shell.remote_id
        /\ \A p \in running' \ orphans : p = shell'.host /\ shell'.allow_access
        /\ OffIsOff' /\ OffShowsNothing'
    <2>1. CASE on
      <3> DEFINE sh == [shell EXCEPT !.allow_access = TRUE]
      <3>1. /\ sh \in App /\ sh.allow_access /\ sh.viewer = shell.viewer
            /\ sh.remote_id = shell.remote_id /\ sh.host_status = shell.host_status
        BY <1>2 DEF App
      <3>2. running \subseteq orphans
        BY <1>1, <1>2, <2>1 DEF HostPart, HostInReach, App
      <3>3. StartHost(sh)
        BY <1>1, <2>1
      <3> HIDE DEF sh
      <3> QED
        BY <1>1, <1>2, <3>1, <3>2, <3>3, StartHostKeeps DEF HostPart, OffShowsNothing
    <2>2. CASE ~on
      <3>1. /\ running' = Stopped(shell.host) /\ RemoveStatus
            /\ off' = (status_file' = 0) /\ started' = started
            /\ shell' = [shell EXCEPT !.host = 0, !.allow_access = FALSE, !.host_status = 0]
        BY <1>1, <2>2 DEF StopHostUi
      <3>2. /\ shell' \in App /\ shell'.viewer = shell.viewer /\ shell'.remote_id = shell.remote_id
            /\ shell'.host_status = 0
        BY <1>2, <3>1 DEF App
      <3>3. running' \subseteq orphans /\ running' \subseteq running
        BY <1>2, <3>1 DEF Stopped, HostPart, HostInReach
      <3>4. status_file' \in Nat
        BY <1>2, <3>1 DEF RemoveStatus, ShellTypeOK
      <3>5. off' \in BOOLEAN /\ (off' => status_file' = 0)
        BY <3>1
      <3>6. OffIsOff' /\ OffShowsNothing'
        BY <1>1, <3>2, <3>3, <3>5 DEF OffIsOff, OffShowsNothing
      <3> QED
        BY <1>1, <1>2, <3>1, <3>2, <3>3, <3>4, <3>5, <3>6 DEF ShellTypeOK
    <2> QED
      BY <2>1, <2>2
  <1>4. ShellTypeOK'
    BY <1>1, <1>2, <1>3 DEF ShellTypeOK
  <1>5. ConfigsSound'
    BY <1>1, ConfigsKept DEF ShellInv
  <1>6. ViewerPart'
    BY <1>1, <1>3, ViewerUntouched DEF ShellInv
  <1>7. HostPart'
    BY <1>1, <1>3 DEF HostPart, HostInReach
  <1> QED
    BY <1>4, <1>5, <1>6, <1>7 DEF ShellInv

\* The form is edited: no connection is shown.
LEMMA EnterKeeps ==
    ASSUME ShellInv, NEW text \in Text, EnterRemoteId(text)
    PROVE  ShellInv'
  <1>1. /\ up /\ shell.viewer = 0 /\ shell' = [shell EXCEPT !.remote_id = text]
        /\ UNCHANGED <<up, running, started, orphans, status_file, workers, config, disk, dialled, off>>
    BY DEF EnterRemoteId, Form
  <1>2. ShellTypeOK /\ ViewerPart /\ shell \in App
    BY DEF ShellInv, ShellTypeOK
  <1>3. /\ shell' \in App /\ shell'.viewer = 0 /\ shell'.host = shell.host
        /\ shell'.allow_access = shell.allow_access /\ shell'.host_status = shell.host_status
    BY <1>1, <1>2 DEF App
  <1>4. ShellTypeOK'
    BY <1>1, <1>2, <1>3 DEF ShellTypeOK
  <1>5. ConfigsSound'
    BY <1>1, ConfigsKept DEF ShellInv
  <1>6. ViewerPart'
    BY <1>1, <1>2, <1>3 DEF ViewerPart, ViewerShown, WindowsOwnSessions
  <1>7. HostPart'
    BY <1>1, <1>3, HostUntouched DEF ShellInv
  <1> QED
    BY <1>4, <1>5, <1>6, <1>7 DEF ShellInv

\* A new connection is the one shown, and is to the id in the form.
LEMMA ConnectKeeps ==
    ASSUME ShellInv, NEW secret, NEW unattended, StartConnect(secret, unattended)
    PROVE  ShellInv'
  <1> DEFINE new == NewWorker(shell.remote_id)
             n == Len(workers) + 1
  <1>1. /\ up /\ shell.viewer = 0 /\ shell' = [shell EXCEPT !.viewer = n]
        /\ workers' = Append(workers, new)
        /\ UNCHANGED <<up, running, started, orphans, status_file, config, disk, dialled, off>>
    BY DEF StartConnect, Form
  <1>2. ShellTypeOK /\ ViewerPart /\ shell \in App /\ workers \in Seq(Worker) /\ n \in Nat
    BY DEF ShellInv, ShellTypeOK
  <1>3. /\ shell' \in App /\ shell'.viewer = n /\ shell'.host = shell.host
        /\ shell'.allow_access = shell.allow_access /\ shell'.host_status = shell.host_status
        /\ shell'.remote_id = shell.remote_id
    BY <1>1, <1>2 DEF App
  <1>4. new \in Worker /\ new.target = shell.remote_id
    BY <1>2 DEF NewWorker, Worker, App
  <1> HIDE DEF new
  <1>5. /\ workers' \in Seq(Worker) /\ Len(workers') = n /\ workers'[n] = new
        /\ \A w \in 1 .. Len(workers) : workers'[w] = workers[w]
        /\ DOMAIN workers' = 1 .. n /\ DOMAIN workers = 1 .. Len(workers)
    BY <1>1, <1>2, <1>4, AppendProperties
  <1>6. ShellTypeOK'
    BY <1>1, <1>2, <1>3, <1>5 DEF ShellTypeOK
  <1>7. ConfigsSound'
    BY <1>1, ConfigsKept DEF ShellInv
  <1>8. WindowsOwnSessions'
    <2> SUFFICES ASSUME NEW w \in 1 .. n, workers'[w].state = "running"
                 PROVE  w = n \/ workers'[w].stop
      BY <1>3, <1>5 DEF WindowsOwnSessions
    <2>1. CASE w = n
      BY <2>1
    <2>2. CASE w # n
      <3>1. w \in 1 .. Len(workers) /\ w # 0
        BY <1>2, <2>2
      <3> QED
        BY <1>1, <1>2, <1>5, <3>1 DEF ViewerPart, WindowsOwnSessions
    <2> QED
      BY <2>1, <2>2
  <1>9. ViewerShown'
    BY <1>1, <1>3, <1>4, <1>5 DEF ViewerShown
  <1>10. HostPart'
    BY <1>1, <1>3, HostUntouched DEF ShellInv
  <1> QED
    BY <1>6, <1>7, <1>8, <1>9, <1>10 DEF ShellInv, ViewerPart

\* The connection let go of was told to stop.
LEMMA DisconnectKeeps ==
    ASSUME ShellInv, DisconnectViewer
    PROVE  ShellInv'
  <1> DEFINE v == shell.viewer
  <1>1. /\ up /\ v # 0 /\ shell' = [shell EXCEPT !.viewer = 0]
        /\ workers' = [workers EXCEPT ![v].stop = TRUE]
        /\ UNCHANGED <<up, running, started, orphans, status_file, config, disk, dialled, off>>
    BY DEF DisconnectViewer
  <1>2. ShellTypeOK /\ ViewerPart /\ shell \in App /\ workers \in Seq(Worker)
    BY DEF ShellInv, ShellTypeOK
  <1>3. v \in 1 .. Len(workers) /\ workers[v] \in Worker
    BY <1>1, <1>2 DEF ShellTypeOK, App
  <1>4. /\ shell' \in App /\ shell'.viewer = 0 /\ shell'.host = shell.host
        /\ shell'.allow_access = shell.allow_access /\ shell'.host_status = shell.host_status
    BY <1>1, <1>2 DEF App
  <1> HIDE DEF v
  <1>5. [workers[v] EXCEPT !.stop = TRUE] \in Worker /\ [workers[v] EXCEPT !.stop = TRUE].stop
    BY <1>3 DEF Worker
  <1>6. /\ workers' \in Seq(Worker) /\ Len(workers') = Len(workers)
        /\ workers'[v].stop /\ \A w \in 1 .. Len(workers) : w # v => workers'[w] = workers[w]
        /\ DOMAIN workers' = 1 .. Len(workers) /\ DOMAIN workers = 1 .. Len(workers)
    BY <1>1, <1>2, <1>3, <1>5
  <1>7. ShellTypeOK'
    BY <1>1, <1>2, <1>4, <1>6 DEF ShellTypeOK
  <1>8. ConfigsSound'
    BY <1>1, ConfigsKept DEF ShellInv
  <1>9. ViewerPart'
    BY <1>1, <1>2, <1>4, <1>6 DEF v, ViewerPart, ViewerShown, WindowsOwnSessions
  <1>10. HostPart'
    BY <1>1, <1>4, HostUntouched DEF ShellInv
  <1> QED
    BY <1>7, <1>8, <1>9, <1>10 DEF ShellInv

\* The id remembered is the connection's: the form cannot change while it is open.
LEMMA PollViewerKeeps ==
    ASSUME ShellInv, PollViewer
    PROVE  ShellInv'
  <1> DEFINE v == shell.viewer
             w == workers[v]
             ok == ~w.error /\ shell.remote_id # NoText
             list == PushRecent(config.recent_hosts, shell.remote_id)
             remembered == [config EXCEPT !.recent_hosts = PushRecent(@, shell.remote_id)]
  <1>1. /\ up /\ v # 0 /\ w.state = "finished" /\ shell' = [shell EXCEPT !.viewer = 0]
        /\ config' = IF ok THEN remembered ELSE config
        /\ IF ok THEN disk' \in {<<remembered>>, disk} ELSE UNCHANGED disk
        /\ dialled' = IF w.error THEN dialled ELSE dialled \cup {w.target}
        /\ UNCHANGED <<up, running, started, orphans, status_file, workers, off>>
    BY DEF PollViewer, Save
  <1>2. /\ ShellTypeOK /\ ViewerPart /\ ConfigsSound /\ HostPart /\ shell \in App
        /\ workers \in Seq(Worker) /\ DOMAIN workers = 1 .. Len(workers)
    BY DEF ShellInv, ShellTypeOK
  <1>3. v \in 1 .. Len(workers) /\ w \in Worker /\ w.target = shell.remote_id
    BY <1>1, <1>2 DEF ShellTypeOK, App, ViewerPart, ViewerShown
  <1>4. /\ shell' \in App /\ shell'.viewer = 0 /\ shell'.host = shell.host
        /\ shell'.allow_access = shell.allow_access /\ shell'.host_status = shell.host_status
    BY <1>1, <1>2 DEF App
  <1>5. dialled \subseteq dialled' /\ dialled' \subseteq Text
    BY <1>1, <1>2, <1>3 DEF ShellTypeOK, Worker
  <1>6. ok => ConfigSound(remembered, dialled')
    <2> SUFFICES ASSUME ok PROVE ConfigSound(remembered, dialled')
      OBVIOUS
    <2> DEFINE old == config.recent_hosts
               id == shell.remote_id
    <2>1. id \in dialled'
      BY <1>1, <1>3
    <2>2. ConfigSound(config, dialled')
      BY <1>2, <1>5, ConfigKept DEF ConfigsSound
    <2>3. old \in Seq(Text) /\ IsInjective(old) /\ \A i \in 1 .. Len(old) : old[i] \in dialled'
      BY <2>2 DEF ConfigSound, Remembered, AppConfig
    <2>4. old \in Seq(dialled')
      BY <2>3
    <2> HIDE DEF old, id
    <2>5. PushRecent(old, id) \in Seq(dialled') /\ IsInjective(PushRecent(old, id))
          /\ Len(PushRecent(old, id)) <= RecentCap
      BY <2>1, <2>3, <2>4, PushKeeps
    <2>6. list = PushRecent(old, id)
      BY DEF old, id
    <2> HIDE DEF list
    <2>7. list \in Seq(dialled') /\ list \in Seq(Text) /\ IsInjective(list) /\ Len(list) <= RecentCap
      BY <1>5, <2>5, <2>6
    <2>8. config \in AppConfig /\ remembered = [config EXCEPT !.recent_hosts = list]
      BY <2>2 DEF ConfigSound, list
    <2>9. remembered \in AppConfig /\ remembered.recent_hosts = list
      BY <2>7, <2>8 DEF AppConfig
    <2> QED
      BY <2>7, <2>9 DEF ConfigSound, Remembered
  <1> HIDE DEF remembered, ok
  <1>7. ConfigsSound'
    <2>1. ConfigSound(config', dialled')
      BY <1>1, <1>2, <1>5, <1>6, ConfigKept DEF ConfigsSound
    <2>2. disk = <<>> \/ \E c \in AppConfig : disk = <<c>> /\ ConfigSound(c, dialled')
      BY <1>2, <1>5, ConfigKept DEF ConfigsSound
    <2>3. ok => remembered \in AppConfig
      BY <1>6 DEF ConfigSound
    <2>4. disk' = <<>> \/ \E c \in AppConfig : disk' = <<c>> /\ ConfigSound(c, dialled')
      BY <1>1, <1>6, <2>2, <2>3
    <2> QED
      BY <2>1, <2>4 DEF ConfigsSound
  <1>8. ShellTypeOK'
    BY <1>1, <1>2, <1>4, <1>5 DEF ShellTypeOK
  <1>9. ViewerPart'
    BY <1>1, <1>2, <1>4 DEF ViewerPart, ViewerShown, WindowsOwnSessions
  <1>10. HostPart'
    BY <1>1, <1>2, <1>4, HostUntouched
  <1> QED
    BY <1>7, <1>8, <1>9, <1>10 DEF ShellInv

\* Settings touch neither host nor connection.
LEMMA SettingsKeep ==
    ASSUME ShellInv, SaveSettings \/ \E b \in BOOLEAN : SetAutoStart(b)
    PROVE  ShellInv'
  <1>1. UNCHANGED <<up, shell, running, started, orphans, status_file, workers, dialled, off>>
    BY DEF SaveSettings, SetAutoStart
  <1>2. ConfigsSound'
    BY ConfigsKept DEF ShellInv, SaveSettings, SetAutoStart, Save
  <1>3. ShellTypeOK' /\ HostPart' /\ ViewerPart'
    BY <1>1 DEF ShellInv, ShellTypeOK, HostPart, HostInReach, OffIsOff, OffShowsNothing,
        ViewerPart, ViewerShown, WindowsOwnSessions
  <1> QED
    BY <1>2, <1>3 DEF ShellInv

\* A host process that publishes its status runs, so access is not off.
LEMMA HostStepKeeps ==
    ASSUME ShellInv, NEW p \in running, HostPublishes(p) \/ HostExits(p)
    PROVE  ShellInv'
  <1>1. /\ UNCHANGED <<up, shell, started, orphans, workers, config, disk, dialled, off>>
        /\ running' \subseteq running /\ status_file' \in {status_file, p}
        /\ status_file' # status_file => running' = running
    BY DEF HostPublishes, HostExits
  <1>2. ShellTypeOK /\ HostPart /\ ViewerPart
    BY DEF ShellInv
  <1>3. ShellTypeOK'
    BY <1>1, <1>2 DEF ShellTypeOK
  <1>4. HostPart'
    <2>1. HostInReach' /\ OffIsOff'
      BY <1>1, <1>2 DEF HostPart, HostInReach, OffIsOff
    <2>2. OffShowsNothing'
      BY <1>1, <1>2 DEF HostPart, OffIsOff, OffShowsNothing
    <2> QED
      BY <2>1, <2>2 DEF HostPart
  <1>5. ConfigsSound'
    BY <1>1, ConfigsKept DEF ShellInv
  <1>6. ViewerPart'
    BY <1>1, <1>2, ViewerUntouched
  <1> QED
    BY <1>3, <1>4, <1>5, <1>6 DEF ShellInv

\* A connection that ends does not change whose it is.
LEMMA FinishKeeps ==
    ASSUME ShellInv, NEW w \in DOMAIN workers, NEW error \in BOOLEAN, WorkerFinishes(w, error)
    PROVE  ShellInv'
  <1>1. /\ workers' = [workers EXCEPT ![w].state = "finished", ![w].error = error]
        /\ UNCHANGED <<up, shell, running, started, orphans, status_file, config, disk, dialled, off>>
    BY DEF WorkerFinishes
  <1>2. ShellTypeOK /\ HostPart /\ ViewerPart /\ workers \in Seq(Worker) /\ shell \in App
        /\ w \in 1 .. Len(workers) /\ workers[w] \in Worker
    BY DEF ShellInv, ShellTypeOK
  <1> DEFINE new == [workers[w] EXCEPT !.state = "finished", !.error = error]
  <1>3. /\ new \in Worker /\ new.state = "finished" /\ new.target = workers[w].target
        /\ new.stop = workers[w].stop
    BY <1>2 DEF Worker
  <1>4. workers' = [workers EXCEPT ![w] = new]
    BY <1>1, <1>2
  <1> HIDE DEF new
  <1>5. /\ workers' \in Seq(Worker) /\ Len(workers') = Len(workers) /\ workers'[w] = new
        /\ \A x \in 1 .. Len(workers) : x # w => workers'[x] = workers[x]
        /\ DOMAIN workers' = 1 .. Len(workers) /\ DOMAIN workers = 1 .. Len(workers)
    BY <1>2, <1>3, <1>4
  <1>6. ShellTypeOK'
    BY <1>1, <1>2, <1>5 DEF ShellTypeOK
  <1>7. ViewerPart'
    <2>1. WindowsOwnSessions'
      BY <1>1, <1>2, <1>3, <1>5 DEF ViewerPart, WindowsOwnSessions
    <2>2. shell.viewer # 0 => shell.viewer \in 1 .. Len(workers)
      BY <1>2 DEF ShellTypeOK, App
    <2>3. ViewerShown'
      BY <1>1, <1>2, <1>3, <1>5, <2>2 DEF ViewerPart, ViewerShown
    <2> QED
      BY <2>1, <2>3 DEF ViewerPart
  <1>8. ConfigsSound'
    BY <1>1, ConfigsKept DEF ShellInv
  <1>9. HostPart'
    BY <1>1, <1>2, HostUntouched
  <1> QED
    BY <1>6, <1>7, <1>8, <1>9 DEF ShellInv

-----------------------------------------------------------------------------
\* The invariant holds in the beginning ...
LEMMA ShellInit == DesktopInit => ShellInv
  <1> SUFFICES ASSUME DesktopInit PROVE ShellInv
    OBVIOUS
  <1>1. ConfigsSound
    BY DefaultSound DEF ConfigsSound, DesktopInit
  <1>2. <<>> \in Seq(Worker) /\ Len(<<>>) = 0 /\ DOMAIN <<>> = 1 .. 0
    OBVIOUS
  <1>3. shell \in App /\ shell.viewer = 0 /\ shell.host_status = 0
    BY DEF DesktopInit, DefaultShell, App, Text
  <1>4. ShellTypeOK
    <2>1. running = {} /\ orphans = {} /\ started = 0 /\ dialled = {} /\ workers = <<>>
      BY DEF DesktopInit
    <2>2. up \in BOOLEAN /\ off \in BOOLEAN /\ status_file \in Nat
      BY DEF DesktopInit
    <2> QED
      BY <1>2, <1>3, <2>1, <2>2 DEF ShellTypeOK
  <1>5. HostPart /\ ViewerPart
    BY <1>2, <1>3 DEF DesktopInit, HostPart, HostInReach, OffIsOff, OffShowsNothing, ViewerPart,
        ViewerShown, WindowsOwnSessions
  <1> QED
    BY <1>1, <1>4, <1>5 DEF ShellInv

\* ... is kept by every step ...
LEMMA ShellStep ==
    ASSUME ShellInv, [DesktopNext]_dvars
    PROVE  ShellInv'
  <1>1. CASE UNCHANGED dvars
    <2>1. ConfigsSound'
      BY <1>1, ConfigsKept DEF dvars, ShellInv
    <2>2. ShellTypeOK' /\ HostPart' /\ ViewerPart'
      BY <1>1 DEF dvars, ShellInv, ShellTypeOK, HostPart, HostInReach, OffIsOff, OffShowsNothing,
          ViewerPart, ViewerShown, WindowsOwnSessions
    <2> QED
      BY <2>1, <2>2 DEF ShellInv
  <1>2. ASSUME NEW text \in Pasted, NEW secret \in Secrets, EditRemoteId(text, secret)
        PROVE  ShellInv'
    <2> DEFINE entered == IF secret = NoText THEN SplitPasted(text) ELSE text
    <2>1. entered \in Text
      BY DEF Text
    <2>2. EnterRemoteId(entered)
      BY <1>2 DEF EditRemoteId
    <2> QED
      BY <2>1, <2>2, EnterKeeps
  <1>3. ASSUME NEW id \in ToSet(config.recent_hosts), EnterRemoteId(id)
        PROVE  ShellInv'
    <2>1. id \in Text
      BY DEF ToSet, ShellInv, ConfigsSound, ConfigSound, AppConfig
    <2> QED
      BY <1>3, <2>1, EnterKeeps
  <1>4. CASE \E b \in BOOLEAN : Launch(b) \/ ToggleAccess(b) \/ SetAutoStart(b) \/ PollHostStatus(b)
    BY <1>4, LaunchKeeps, ToggleKeeps, SettingsKeep, PollHostKeeps
  <1>5. CASE Exit \/ Crash \/ PollViewer \/ DisconnectViewer \/ SaveSettings
    BY <1>5, ExitKeeps, CrashKeeps, PollViewerKeeps, DisconnectKeeps, SettingsKeep
  <1>6. CASE \E secret \in Secrets, unattended \in BOOLEAN : StartConnect(secret, unattended)
    BY <1>6, ConnectKeeps
  <1>7. CASE \E p \in running : HostPublishes(p) \/ HostExits(p)
    BY <1>7, HostStepKeeps
  <1>8. CASE \E w \in DOMAIN workers, e \in BOOLEAN : WorkerFinishes(w, e)
    BY <1>8, FinishKeeps
  <1> QED
    BY <1>1, <1>2, <1>3, <1>4, <1>5, <1>6, <1>7, <1>8 DEF DesktopNext

\* ... and says what is to be shown.
LEMMA ShellIsSound == ShellInv => ShellSound
  <1> SUFFICES ASSUME ShellInv PROVE ShellSound
    OBVIOUS
  <1>1. ConfigSound(config, dialled)
    BY DEF ShellInv, ConfigsSound
  <1>2. RecentsDialled
    BY <1>1 DEF RecentsDialled, ConfigSound, Remembered, ToSet, AppConfig
  <1> QED
    BY <1>2 DEF ShellSound, ShellInv, HostPart, ViewerPart

\* The application holds what it started and shows what is so (app.rs,
\* host_worker.rs, viewer_worker.rs), for any texts, processes and connections.
THEOREM ShellCorrect == DesktopSpec => []ShellSound
  <1>1. ShellInv /\ [DesktopNext]_dvars => ShellInv'
    BY ShellStep
  <1> QED
    BY <1>1, ShellInit, ShellIsSound, PTL DEF DesktopSpec
=============================================================================
