---------------------------- MODULE HostEnrolment ----------------------------
(***************************************************************************)
(* How a host gets and keeps its identity (enroll_or_reuse of              *)
(* apps/host/src/ws_session.rs, packages/signaling: register.rs,           *)
(* http_api.rs, creds.rs), composed with the server's device routes.       *)
(*                                                                         *)
(* A host that starts loads its credential file and refreshes the tokens   *)
(* in it; if there is no file, it cannot be read, or the refresh fails for *)
(* whatever reason, it registers a new device.  What it got it writes to   *)
(* the file.  A request waits 15 s for its reply: it or the reply may be   *)
(* lost, or the server may still be serving it when the host has given up, *)
(* or crashed and started again.                                           *)
(*                                                                         *)
(* Only the paths with load_creds and save_creds on (the default) and no   *)
(* identity given on the command line are modelled; the file and the       *)
(* command line name the same server.                                      *)
(***************************************************************************)
EXTENDS PostgresRegistry

CONSTANTS
    Clients,        \* subset of {"any", "host"}: see clients
    MaxAttempts     \* bound on the requests the host sends

VARIABLES
    clients,        \* "any": requests of any client; "host": of one host only
    host,           \* the host process
    creds,          \* its credential file: <<device, credential>>,
                    \* None or Torn
    wire,           \* its requests that have not reached the server
    from,           \* [Worker -> the host's request served, 0 if another's]
    fault           \* a request or reply was lost, a save or a statement failed, the
                    \* server turned a good request away, or the host crashed
                    \* between sending a request and saving the reply (history)

hvars == <<clients, host, creds, wire, from, fault>>

Identity == Device \X Cred
Torn == <<>>        \* a file that cannot be parsed

ASSUME EnrolmentAssumption ==
    /\ Clients \subseteq {"any", "host"} /\ MaxAttempts \in Nat
    /\ None \notin Identity \cup {Torn}

Phase == {"down", "refresh", "register", "save", "enrolled", "failed"}

EnrolmentTypeOK ==
    /\ clients \in Clients
    /\ host \in [pc : Phase, attempt : 0 .. MaxAttempts, id : Identity \cup {None},
                 registered : BOOLEAN]
    /\ creds \in Identity \cup {None, Torn}
    /\ wire \subseteq [attempt : 1 .. MaxAttempts, cred : Cred \cup {None}]
    /\ from \in [Worker -> 0 .. MaxAttempts]
    /\ fault \in BOOLEAN

EnrolmentInit ==
    /\ Init
    /\ backend \in Backend
    /\ clients \in Clients
    /\ host = [pc |-> "down", attempt |-> 0, id |-> None, registered |-> FALSE]
    /\ creds = None
    /\ wire = {}
    /\ from = [w \in Worker |-> 0]
    /\ fault = FALSE

-----------------------------------------------------------------------------
\* The host

\* It sends a request: a refresh of credential k, or a registration (None).
Send(pc, k) ==
    /\ host.attempt < MaxAttempts
    /\ host' = [host EXCEPT !.pc = pc, !.attempt = @ + 1]
    /\ wire' = wire \cup {[attempt |-> host.attempt + 1, cred |-> k]}

Waiting == host.pc \in {"refresh", "register"}
Outstanding == \/ \E m \in wire : m.attempt = host.attempt
               \/ \E w \in Worker : job[w] # None /\ from[w] = host.attempt

LoadCreds ==
    /\ host.pc \in {"down", "failed"}
    /\ creds \notin {None, Torn}
    /\ Send("refresh", creds[2])
    /\ UNCHANGED <<clients, creds, from, fault, vars>>

NoCreds ==
    /\ host.pc \in {"down", "failed"}
    /\ creds \in {None, Torn}
    /\ Send("register", None)
    /\ UNCHANGED <<clients, creds, from, fault, vars>>

\* A refresh that failed is followed by a registration, whatever the error;
\* a registration that failed ends the host.
AfterError ==
    \/ host.pc = "refresh" /\ Send("register", None)
    \/ /\ host.pc = "register"
       /\ host' = [host EXCEPT !.pc = "failed"]
       /\ UNCHANGED wire

\* The server refused the request, or the request was lost with its fault.
RequestRefused ==
    /\ Waiting /\ ~Outstanding
    /\ AfterError
    /\ UNCHANGED <<clients, creds, from, fault, vars>>

RequestTimesOut ==
    /\ Waiting /\ Outstanding
    /\ AfterError
    /\ fault' = TRUE
    /\ UNCHANGED <<clients, creds, from, vars>>

\* Mutant: refreshed tokens are used and not written back.
SaveCredsOfRegistration ==
    /\ host.pc = "save"
    /\ creds' = IF host.registered THEN host.id ELSE creds
    /\ host' = [host EXCEPT !.pc = "enrolled"]
    /\ UNCHANGED <<clients, wire, from, fault, vars>>

\* save(): a temporary file renamed over the old one.
SaveCreds ==
    /\ host.pc = "save"
    /\ creds' = host.id
    /\ host' = [host EXCEPT !.pc = "enrolled"]
    /\ UNCHANGED <<clients, wire, from, fault, vars>>

\* A failed save is ignored after a refresh and fatal after a registration;
\* where a rename over a file does not work the file is written in place.
SaveCredsFails ==
    /\ host.pc = "save"
    /\ creds' \in {creds, Torn}
    /\ host' = [host EXCEPT !.pc = IF host.registered THEN "failed" ELSE "enrolled"]
    /\ fault' = TRUE
    /\ UNCHANGED <<clients, wire, from, vars>>

\* The host process ends, for a restart: in the middle of a save too.
HostStops ==
    /\ host.pc # "down"
    /\ host' = [host EXCEPT !.pc = "down", !.id = None, !.registered = FALSE]
    /\ \/ UNCHANGED creds
       \/ host.pc = "save" /\ creds' \in {host.id, Torn}
    /\ fault' = (fault \/ Waiting \/ host.pc = "save")
    /\ UNCHANGED <<clients, wire, from, vars>>

-----------------------------------------------------------------------------
\* The network and the server

LoseRequest(m) ==
    /\ wire' = wire \ {m}
    /\ fault' = TRUE
    /\ UNCHANGED <<clients, host, creds, from, vars>>

ReceiveRequest(w, m) ==
    /\ IF m.cred = None THEN \E d \in Device : StartRegister(w, d)
                        ELSE StartWith(w, "refresh", m.cred)
    /\ from' = [from EXCEPT ![w] = m.attempt]
    /\ wire' = wire \ {m}
    /\ UNCHANGED <<clients, host, creds, fault, backend>>

\* A refresh that names a live credential of an active device.
Usable(k) == k # None /\ Live(store, k) /\ store.devices[store.credentials[k].device] = "active"

\* The server turns the request away before it changes anything: the token is
\* revoked or unknown, or, whatever the token, the rate limit of its address or
\* device is spent, the device is locked out after failed attempts, the token
\* has expired or the lookup fails.
RefuseRequest(m) ==
    /\ wire' = wire \ {m}
    /\ fault' = (fault \/ m.cred = None \/ Usable(m.cred))
    /\ UNCHANGED <<clients, host, creds, from, vars, backend>>

\* The hello of an enrolled host.
Hello(w) ==
    /\ host.pc = "enrolled"
    /\ StartTouch(w, host.id[1])
    /\ from' = [from EXCEPT ![w] = 0]
    /\ UNCHANGED <<clients, host, creds, wire, fault, backend>>

\* The reply reaches the host while it waits for this request ...
GetReply(w) ==
    /\ Waiting
    /\ from[w] = host.attempt
    /\ Reply(w)
    /\ host' = [host EXCEPT !.pc = "save", !.id = <<job[w].device, job[w].issued>>,
                            !.registered = host.pc = "register"]
    /\ from' = [from EXCEPT ![w] = 0]
    /\ UNCHANGED <<clients, creds, wire, fault, backend>>

\* ... or is lost, or comes too late.
ReplyUnheard(w) ==
    /\ Reply(w)
    /\ fault' = (fault \/ from[w] # 0)
    /\ from' = [from EXCEPT ![w] = 0]
    /\ UNCHANGED <<clients, host, creds, wire, backend>>

Server ==
    \/ \E w \in Worker : ServeStep(w) /\ UNCHANGED <<fault, backend>>
    \/ \E w \in Worker : RequestFails(w) /\ fault' = TRUE /\ UNCHANGED backend
    \/ /\ ServerRestarts
       /\ fault' = (fault \/ \E w \in Worker : job[w] # None /\ from[w] # 0)
       /\ UNCHANGED backend

HostNext ==
    \/ (LoadCreds \/ NoCreds \/ RequestRefused \/ RequestTimesOut) /\ UNCHANGED backend
    \/ (SaveCreds \/ SaveCredsFails \/ HostStops) /\ UNCHANGED backend
    \/ \E m \in wire : \/ LoseRequest(m) /\ UNCHANGED backend
                       \/ RefuseRequest(m)
                       \/ \E w \in Worker : ReceiveRequest(w, m)
    \/ \E w \in Worker : Hello(w) \/ GetReply(w) \/ ReplyUnheard(w)
    \/ Server /\ UNCHANGED <<clients, host, creds, wire, from>>

\* Requests of any client.
AnyNext ==
    /\ \/ \E w \in Worker : Arrive(w) \/ ServeStep(w) \/ RequestFails(w) \/ Reply(w)
       \/ ServerRestarts
    /\ UNCHANGED <<hvars, backend>>

EnrolmentNext == \/ clients = "any" /\ AnyNext
                 \/ clients = "host" /\ HostNext

EnrolmentSpec == EnrolmentInit /\ [][EnrolmentNext]_<<vars, backend, hvars>>

-----------------------------------------------------------------------------
\* An enrolled host holds the live credential of its active device, although
\* requests it had given up on, before and after a restart, are still served.
EnrolledIsLive ==
    host.pc \in {"save", "enrolled"} =>
        /\ Live(store, host.id[2])
        /\ store.credentials[host.id[2]].device = host.id[1]
        /\ store.devices[host.id[1]] = "active"

\* A restart keeps the host's id ("Best-effort refresh so restarts survive
\* access expiry") unless something went wrong before: it registers again
\* only after a request or a reply was lost, a save failed at either end, the
\* server turned a usable token away (rate limit, lockout, expiry, failed
\* lookup) or a registration, or one of the two stopped in between.  One
\* refused refresh is enough to lose the id: enroll_or_reuse takes every error
\* for a forgotten device.
RestartKeepsId ==
    ~fault => \A d, e \in Device :
                  store.devices[d] # "absent" /\ store.devices[e] # "absent" => d = e

\* What the server has confirmed survives its restart at any step, the token
\* given in stays dead, and so a host keeps its id and a credential that
\* works: on Postgres always, with the registry file as long as requests come
\* one after the other, failed saves included.
ConfirmedDurable ==
    /\ EnrolmentTypeOK
    /\ Durable =>
        /\ ConfirmedSurvives
        /\ RotatedStaysDead
        /\ EnrolledIsLive
        /\ clients = "host" => RestartKeepsId
=============================================================================
