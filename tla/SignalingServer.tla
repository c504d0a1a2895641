-------------------------- MODULE SignalingServer --------------------------
(***************************************************************************)
(* The WebSocket handlers of the signaling server (routes/ws.rs) over the  *)
(* session registry and the store of one-time codes (otp.rs).              *)
(*                                                                         *)
(* A handler takes several locks one after the other, and other sockets'   *)
(* handlers run in between.  task[c] is what connection c's handler still  *)
(* has to do; a connection's own frames and its close are handled one at   *)
(* a time.  What a handler refuses before it changes anything (unknown     *)
(* host, missing code) is a step that leaves the state as it is and is not *)
(* written down; rate limits, lockout and block list are in AccessGates.   *)
(*                                                                         *)
(* A host has at most one row in the store: store_hash replaces the rows   *)
(* of the host.  Session ids are the viewers' choice: the server only asks *)
(* that an intent has one, so an intent may come under the id of a session *)
(* that is waiting, is running or is over, on any host.                    *)
(***************************************************************************)
EXTENDS SessionRegistry, FiniteSets

CONSTANTS
    MaxOtpAttempts,   \* MAX_OTP_ATTEMPTS
    OtpTtl            \* lifetime of a code in ticks

VARIABLES
    otp,       \* [Host -> Row \cup {None}]: the host's stored code
    task,      \* [Conn -> Task \cup {None}]: the rest of a running handler
    intents,   \* [Sid -> 0 .. 2]: intents taken up under the id, 2 standing
               \* for more than one (history)
    admitted,  \* [Sid -> Host \cup {None}]: sessions let in by the host's
               \* current code (history)
    accepted,  \* [Host -> SUBSET Sid]: ids the host has accepted since its
               \* code was last bound to them (history)
    wrong      \* [Host -> Nat]: wrong guesses checked against the current
               \* code (history)

otp_vars == <<otp, task, intents, admitted, accepted, wrong>>
all_vars == <<vars, otp_vars>>

Row == [session_intent_id : Sid \cup {None}, consumed : BOOLEAN,
        attempts : 0 .. MaxOtpAttempts, ttl : 0 .. OtpTtl]

Task == [step : {"create"}, sid : Sid, host : Host, seq : SeqNo, by_code : BOOLEAN]
        \cup [step : {"consume"}, sid : Sid, host : Host]

ASSUME OtpAssumption ==
    /\ MaxOtpAttempts \in Nat \ {0} /\ OtpTtl \in Nat \ {0}
    /\ None \notin Row \cup Task

ServerTypeOK ==
    /\ TypeOK
    /\ otp \in [Host -> Row \cup {None}]
    /\ task \in [Conn -> Task \cup {None}]
    /\ intents \in [Sid -> 0 .. 2]
    /\ admitted \in [Sid -> Host \cup {None}]
    /\ accepted \in [Host -> SUBSET Sid]
    /\ wrong \in [Host -> Nat]

ServerInit ==
    /\ Init
    /\ otp = [h \in Host |-> None]
    /\ task = [c \in Conn |-> None]
    /\ intents = [s \in Sid |-> 0]
    /\ admitted = [s \in Sid |-> None]
    /\ accepted = [h \in Host |-> {}]
    /\ wrong = [h \in Host |-> 0]

\* active_for_host: a row that is neither consumed nor expired.
ActiveForHost(h) == otp[h] # None /\ ~otp[h].consumed /\ otp[h].ttl > 0

-----------------------------------------------------------------------------
\* The host publishes a new code over HTTP; it replaces the previous one.
StoreHash(h) ==
    /\ otp' = [otp EXCEPT ![h] = [session_intent_id |-> None, consumed |-> FALSE,
                                  attempts |-> 0, ttl |-> OtpTtl]]
    /\ wrong' = [wrong EXCEPT ![h] = 0]
    /\ admitted' = [s \in Sid |-> IF admitted[s] = h THEN None ELSE admitted[s]]
    /\ task' = [c \in Conn |->
           IF task[c] # None /\ task[c].step = "create" /\ task[c].host = h
           THEN [task[c] EXCEPT !.by_code = FALSE] ELSE task[c]]
    /\ UNCHANGED <<vars, intents, accepted>>

\* What the first half of the intent handler leaves for the second half.
GoOn(c, s, h, q, by_code) ==
    /\ task' = [task EXCEPT ![c] = [step |-> "create", sid |-> s, host |-> h,
                                    seq |-> q, by_code |-> by_code]]
    /\ intents' = [intents EXCEPT ![s] = IF @ = 0 THEN 1 ELSE 2]
    /\ UNCHANGED <<vars, admitted>>

\* Any id will do, but for the empty one.
CanIntend(c) == Serving(c, "viewer") /\ task[c] = None

\* The accept handler of session s of host h has not come to the code yet.
Spending(s, h) ==
    \E c \in Conn : task[c] = [step |-> "consume", sid |-> s, host |-> h]

\* Another mode than one-time code, or no code stored: no gate on the server.
IntentUngated(c, s, h, q, mode) ==
    /\ CanIntend(c)
    /\ mode # "otp" \/ ~ActiveForHost(h)
    /\ GoOn(c, s, h, q, FALSE)
    /\ UNCHANGED <<otp, accepted, wrong>>

\* prefilter_bind with the right code: the row is bound to this session,
\* whatever it was bound to before.
PrefilterBind(c, s, h, q) ==
    /\ CanIntend(c)
    /\ ActiveForHost(h)
    /\ otp[h].attempts < MaxOtpAttempts
    /\ otp' = [otp EXCEPT ![h].session_intent_id = s]
    /\ accepted' = IF Spending(s, h) THEN accepted
                   ELSE [accepted EXCEPT ![h] = @ \ {s}]
    /\ GoOn(c, s, h, q, TRUE)
    /\ UNCHANGED wrong

\* Mutant: the attempts are counted and not limited.
PrefilterRejectUnlimited(c, h) ==
    /\ CanIntend(c)
    /\ ActiveForHost(h)
    /\ otp' = [otp EXCEPT ![h].attempts = @ + 1]
    /\ wrong' = [wrong EXCEPT ![h] = @ + 1]
    /\ UNCHANGED <<vars, task, intents, admitted, accepted>>

\* prefilter_bind with a wrong code: the attempt is counted, the intent ends.
PrefilterReject(c, h) ==
    /\ CanIntend(c)
    /\ ActiveForHost(h)
    /\ otp[h].attempts < MaxOtpAttempts
    /\ otp' = [otp EXCEPT ![h].attempts = @ + 1]
    /\ wrong' = [wrong EXCEPT ![h] = @ + 1]
    /\ UNCHANGED <<vars, task, intents, admitted, accepted>>

\* Second half of the intent handler: the host's budget of intents is asked,
\* and may be spent (by what is in AccessGates); create_pending_session.
IntentCreate(c) ==
    LET t == task[c] IN
    /\ t # None /\ t.step = "create"
    /\ task' = [task EXCEPT ![c] = None]
    /\ \/ /\ CreatePendingSession(c, t.sid, t.host, t.seq)
          /\ admitted' = [admitted EXCEPT ![t.sid] =
                 IF t.by_code /\ link[host_by_public_id[t.host]] = "open"
                 THEN t.host ELSE None]
       \/ /\ ~CanCreate(t.sid, t.host, t.seq)
          /\ Reap
          /\ UNCHANGED admitted
       \/ UNCHANGED <<vars, admitted>>
    /\ UNCHANGED <<otp, intents, accepted, wrong>>

\* session_accept: the registry first, then the code bound to the session.
HandleAccept(c, s, q) ==
    /\ task[c] = None
    /\ AcceptSession(c, s, q)
    /\ accepted' = [accepted EXCEPT ![identity[c].host] = @ \cup {s}]
    /\ task' = [task EXCEPT ![c] = [step |-> "consume", sid |-> s,
                                    host |-> identity[c].host]]
    /\ UNCHANGED <<otp, intents, admitted, wrong>>

\* Mutant: the accept handler leaves the code alone.
ConsumeNothing(c) ==
    /\ task[c] # None /\ task[c].step = "consume"
    /\ task' = [task EXCEPT ![c] = None]
    /\ UNCHANGED <<vars, otp, intents, admitted, accepted, wrong>>

\* consume_for_session; its result is ignored by the handler.
ConsumeForSession(c) ==
    LET t == task[c]
        h == t.host IN
    /\ t # None /\ t.step = "consume"
    /\ otp' = IF otp[h] # None /\ otp[h].session_intent_id = t.sid
                 /\ ~otp[h].consumed /\ otp[h].ttl > 0
              THEN [otp EXCEPT ![h].consumed = TRUE]
              ELSE otp
    /\ task' = [task EXCEPT ![c] = None]
    /\ UNCHANGED <<vars, intents, admitted, accepted, wrong>>

\* The other handlers hold one lock once.
OtherHandler(c) ==
    /\ task[c] = None
    /\ \/ ConnStep(c)
       \/ \E s \in Sid, q \in SeqNo :
              \/ RejectSession(c, s, q)
              \/ EndSession(c, s, q)
              \/ \E k \in RelayKind : RelayMediaSignal(c, s, k, q)
    /\ UNCHANGED otp_vars

\* Time passes for sessions and codes alike.
ServerTick ==
    /\ sessions' = [s \in Sid |-> Older(s)]
    /\ otp' = [h \in Host |-> IF otp[h] # None /\ otp[h].ttl > 0
                              THEN [otp[h] EXCEPT !.ttl = @ - 1] ELSE otp[h]]
    /\ UNCHANGED <<link, identity, host_by_public_id, host_busy, heard,
                   task, intents, admitted, accepted, wrong>>

IntentStep(c) ==
    \/ \E s \in Sid, h \in Host, q \in SeqNo :
           \/ \E mode \in {"otp", "unattended"} : IntentUngated(c, s, h, q, mode)
           \/ PrefilterBind(c, s, h, q)
    \/ \E h \in Host : PrefilterReject(c, h)
    \/ IntentCreate(c)

ServerNext ==
    \/ \E h \in Host : StoreHash(h)
    \/ \E c \in Conn : \/ IntentStep(c)
                       \/ \E s \in Sid, q \in SeqNo : HandleAccept(c, s, q)
                       \/ ConsumeForSession(c)
                       \/ OtherHandler(c)
    \/ (\E s \in Sid : ForceDisconnect(s)) /\ UNCHANGED otp_vars
    \/ ReapExpired /\ UNCHANGED otp_vars
    \/ ServerTick

ServerSpec == ServerInit /\ [][ServerNext]_all_vars

-----------------------------------------------------------------------------
\* A code is checked against at most MAX_OTP_ATTEMPTS wrong guesses, however
\* wrong and right ones from several viewers interleave (prefilter_bind takes
\* its provisional count back after a right one).
GuessesBounded == \A h \in Host : wrong[h] <= MaxOtpAttempts

\* Once the accept handler is through, the code that was bound to the accepted
\* session is spent, whichever intents of other viewers, or under the same id
\* on other hosts, came in between; only binding the code anew, which takes
\* the code itself, makes it wait for another accept (ws.rs, SessionAccept).
AcceptSpendsBoundCode ==
    \A h \in Host : otp[h] # None =>
        LET s == otp[h].session_intent_id IN
        s \in accepted[h] /\ ~Spending(s, h) => otp[h].consumed \/ otp[h].ttl = 0

\* A code is spent only by its own host's accept of the id it is bound to, and
\* if no two intents came under that id, by the session the code let in: an
\* intent that was refused, found the host busy or was rejected does not burn
\* it.  (Under a reused id it may: the intent that is refused because the id
\* is taken has bound the code, and the accept of the session that has the id
\* spends it.)
OnlyAdmissionSpends ==
    \A h \in Host : otp[h] # None /\ otp[h].consumed =>
        LET s == otp[h].session_intent_id IN
        s \in accepted[h] /\ (intents[s] = 1 => admitted[s] = h)

\* A code is spent by its host's accept of the session it is bound to, and by
\* nothing else (otp.rs consume_for_session; ws.rs SessionAccept).
CodesSpentRight == ServerTypeOK /\ AcceptSpendsBoundCode /\ OnlyAdmissionSpends

\* The same in the other direction, as the documentation of otp.rs puts it
\* ("binds the row to the session intent, and fully consumes on host
\* accept"): one code lets at most one session become active.
OtpSingleUse ==
    \A h \in Host : Cardinality({s \in accepted[h] : admitted[s] = h}) <= 1
=============================================================================
