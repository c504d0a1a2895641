------------------------ MODULE HostEnrolmentProofs ------------------------
(***************************************************************************)
(* Proofs about HostEnrolment over either repository, for any sets of      *)
(* devices, credentials and concurrent requests and any number of the      *)
(* host's attempts: the credentials a device can be used with, and what    *)
(* the server has confirmed.                                               *)
(***************************************************************************)
EXTENDS HostEnrolment, TLAPS

USE RegistryAssumption, BackendAssumption, EnrolmentAssumption

\* A store that is, or by a save or a restart may become, the registry's.
Kept(S) ==
    \/ S = store \/ S = disk \/ S = tmp
    \/ \E w \in Worker : job[w] # None /\ S = job[w].copy

\* While the repository is the file, or no two requests have overlapped, a
\* delete sees every credential it has to revoke.
DeleteSeesAll == backend = "file" \/ ~overlapped

\* What is known of every kept store: its devices and credentials were
\* drawn, and a device has one live credential, none if it is not active.
Drawn(S) ==
    /\ \A k \in Cred : S.credentials[k] # None =>
           k \in minted /\ S.credentials[k].device \in minted
    /\ \A d \in Device : S.devices[d] # "absent" => d \in minted

OneLive(S) ==
    \A k, l \in Cred :
        Live(S, k) /\ Live(S, l) /\ S.credentials[k].device = S.credentials[l].device => k = l

ActiveIfLive(S) ==
    \A k \in Cred : Live(S, k) => S.devices[S.credentials[k].device] = "active"

StoreSound(S) == Drawn(S) /\ OneLive(S) /\ (DeleteSeesAll => ActiveIfLive(S))

Has(S, k, d) == S.credentials[k] # None /\ S.credentials[k].device = d

\* A register that has not issued its credential: nobody else knows its device.
Registering(w) == job[w] # None /\ job[w].op = "register" /\ job[w].then <= 2

DeviceIsFresh(w) ==
    LET d == job[w].device IN
    /\ d \in minted
    /\ \A S \in Store : Kept(S) => \A k \in Cred : ~Has(S, k, d)
    /\ \A v \in Worker \ {w} : job[v] # None /\ job[v].op # "touch" => job[v].device # d
    /\ store.devices[d] = IF job[w].then = 1 THEN "absent" ELSE "active"

\* A refresh or a delete: the credential presented is in the store.
Presenting(w) == job[w] # None /\ job[w].op \in {"refresh", "delete"}

Presented(w) == job[w].cred \in Cred /\ Has(store, job[w].cred, job[w].device)

\* A delete past its first mutation has left no live credential.
Revoked(w) == job[w] # None /\ job[w].op = "delete" /\ job[w].then >= 2

NoneLive(w) ==
    DeleteSeesAll => \A k \in Cred : Has(store, k, job[w].device) => ~Live(store, k)

\* A rotation that holds the row lock: the row is live, and is nobody else's.
LockHolds(w) ==
    /\ backend = "postgres" /\ job[w].op = "refresh" /\ job[w].then = 1
    /\ Live(store, job[w].cred)
    /\ \A v \in Worker \ {w} : At(v, "locked") => job[v].cred # job[w].cred
    /\ DeleteSeesAll => store.devices[job[w].device] = "active"

\* A delete's UPDATE: the rows it saw are there, and all there are if nothing
\* ran beside it.
UpdateSaw(w) ==
    LET seen == job[w].copy IN
    /\ backend = "postgres" /\ job[w].op = "delete" /\ job[w].then = 1
    /\ seen \in Store
    /\ \A k \in Cred : seen.credentials[k] # None => Has(store, k, seen.credentials[k].device)
    /\ DeleteSeesAll => seen = store

\* A request past its last mutation gives the credential it issued.
InFlight(w) ==
    /\ job[w] # None
    /\ job[w].op \in {"register", "refresh"} /\ job[w].then = LastMutation(job[w].op)

\* A request that may be answered: no mutation is left, or a delete found its
\* device deleted.
Finished(w) ==
    \/ job[w].then = LastMutation(job[w].op)
    \/ job[w].op = "delete" /\ store.devices[job[w].device] = "deleted"

JobSound(w) ==
    /\ Registering(w) => DeviceIsFresh(w)
    /\ Presenting(w) => Presented(w)
    /\ Revoked(w) => NoneLive(w)
    /\ At(w, "locked") => LockHolds(w)
    /\ At(w, "update") => UpdateSaw(w)
    /\ job[w] # None => job[w].then <= LastMutation(job[w].op)
    /\ At(w, "mutate") => job[w].then < LastMutation(job[w].op)
    /\ InFlight(w) => job[w].issued \in minted /\ Has(store, job[w].issued, job[w].device)
    /\ At(w, "reply") => Finished(w)

\* The inductive invariant of the registry, whichever repository it runs on.
RegistryInv ==
    /\ TypeOK
    /\ backend \in Backend
    /\ backend = "postgres" => disk = store /\ tmp = None
    /\ ~overlapped => \A v, w \in Worker : job[v] # None /\ job[w] # None => v = w
    /\ \A S \in Store : Kept(S) => StoreSound(S)
    /\ \A w \in Worker : JobSound(w)

-----------------------------------------------------------------------------
\* What clients were told is so in a store.
Claims(S) ==
    /\ \A d \in Device :
           /\ <<"registered", d>> \in acked => S.devices[d] # "absent"
           /\ <<"deleted", d>> \in acked => S.devices[d] = "deleted"
    /\ \A k \in Cred : <<"rotated", k>> \in acked => ~Live(S, k)

\* How far a save has come: with one request at a time the file is what the
\* maps are once the request's last mutation is saved (before its first one it
\* may lag behind, by a save that failed).
SaveLags(w) ==
    /\ (At(w, "mutate") /\ job[w].then > 1) \/ At(w, "reply") => disk = store
    /\ At(w, "write") => job[w].copy = store
    /\ At(w, "rename") => tmp = store

\* What a request will confirm.
ToConfirm(w) ==
    job[w] # None =>
        LET d == job[w].device IN
        /\ job[w].op = "register" /\ job[w].then >= 2 => store.devices[d] # "absent"
        /\ job[w].op = "delete" /\ job[w].then = 3 => store.devices[d] = "deleted"
        /\ job[w].op = "refresh" /\ job[w].then = 2 => ~Live(store, job[w].cred)

\* The inductive invariant of what is confirmed.
ConfirmedInv ==
    /\ \A k \in Cred : <<"rotated", k>> \in acked => k \in minted
    /\ Durable =>
        /\ Claims(store) /\ Claims(disk)
        /\ \A w \in Worker : ToConfirm(w)
        /\ backend = "file" => \A w \in Worker : SaveLags(w)

-----------------------------------------------------------------------------
\* A device with its credential as a store has it.
IdLive(S, d, k) ==
    /\ Live(S, k) /\ S.credentials[k].device = d /\ S.devices[d] = "active"

\* Credentials the host has or has sent.
HostHas(k) == \/ creds \notin {None, Torn} /\ creds[2] = k
              \/ host.id # None /\ host.id[2] = k
HostSent(k) == \/ \E m \in wire : m.cred = k
               \/ \E w \in Worker : job[w] # None /\ job[w].cred = k

\* The types, with what depends on the host's phase.
HostTypes ==
    /\ EnrolmentTypeOK
    /\ host.pc \in {"save", "enrolled"} => host.id # None
    /\ Waiting => host.attempt >= 1
    /\ \A w \in Worker : job[w] # None /\ from[w] # 0 => job[w].op \in {"register", "refresh"}
    /\ clients = "any" => /\ host.pc = "down" /\ host.id = None /\ creds = None /\ wire = {}
                          /\ from = [w \in Worker |-> 0]
    /\ clients = "host" => \A w \in Worker : job[w] # None =>
                               job[w].op # "delete" /\ (from[w] = 0 => job[w].op = "touch")
    /\ \A k \in Cred : HostHas(k) \/ HostSent(k) => k \in minted

\* The credential in a reply is live and not known to the host, and the
\* credential the host holds is live and not on its way to the server.
EnrolledInv ==
    clients = "host" /\ Durable =>
        /\ ActiveIfLive(store) /\ ActiveIfLive(disk)
        /\ host.pc \in {"save", "enrolled"} =>
              /\ \A S \in {store, disk} : IdLive(S, host.id[1], host.id[2])
              /\ ~HostSent(host.id[2])
        /\ \A w \in Worker : InFlight(w) =>
              LET k == job[w].issued IN
              /\ IdLive(store, job[w].device, k)
              /\ ~HostHas(k) /\ ~HostSent(k)
              /\ \A v \in Worker \ {w} : InFlight(v) => job[v].issued # k

OnlyDevice(S, d) == \A e \in Device : S.devices[e] # "absent" => e = d
NoDevice(S) == \A e \in Device : S.devices[e] = "absent"

\* The host's request being served.
Served(w) == job[w] # None /\ from[w] # 0

\* One request of the host at a time, the one it waits for.
OneRequest ==
    /\ \A m \in wire : Waiting /\ m.attempt = host.attempt
                       /\ m.cred = IF host.pc = "refresh" THEN creds[2] ELSE None
    /\ \A w \in Worker : Served(w) => Waiting /\ from[w] = host.attempt /\ job[w].op = host.pc
    /\ \A v, w \in Worker : Served(v) /\ Served(w) => v = w
    /\ wire # {} => \A w \in Worker : ~Served(w)
    /\ Waiting => wire # {} \/ \E w \in Worker : Served(w)

\* And one device: the host's, if it has one yet.
OneDevice(S) ==
    /\ host.pc = "down" => IF creds = None THEN NoDevice(S)
                           ELSE OnlyDevice(S, creds[1]) /\ IdLive(S, creds[1], creds[2])
    /\ host.pc = "refresh" => /\ OnlyDevice(S, creds[1])
                              /\ wire # {} => IdLive(S, creds[1], creds[2])
    /\ host.pc = "register" /\ wire # {} => NoDevice(S)
    /\ host.pc \in {"save", "enrolled"} => OnlyDevice(S, host.id[1])
    /\ \A w \in Worker : Served(w) => OnlyDevice(S, job[w].device)

\* Nothing lost so far: no attempt of the host has failed.
FaultFreeInv ==
    clients = "host" /\ Durable /\ ~fault =>
        /\ host.pc # "failed" /\ creds # Torn
        /\ host.pc = "refresh" => creds # None
        /\ host.pc = "register" => creds = None
        /\ host.pc = "enrolled" => creds = host.id
        /\ OneRequest
        /\ \A S \in {store, disk} : OneDevice(S)
        /\ \A w \in Worker : Served(w) /\ job[w].op = "refresh" =>
              /\ creds = <<job[w].device, job[w].cred>>
              /\ job[w].then = 1 => IdLive(store, creds[1], creds[2])

EnrolmentInv == RegistryInv /\ ConfirmedInv /\ HostTypes /\ EnrolledInv /\ FaultFreeInv

-----------------------------------------------------------------------------
\* What a change of one row makes of the tables.
LEMMA DeviceRow ==
    ASSUME NEW S \in Store, NEW d \in Device, NEW x \in Status
    PROVE  LET T == [S EXCEPT !.devices[d] = x] IN
           /\ T \in Store /\ T.credentials = S.credentials
           /\ \A e \in Device : T.devices[e] = IF e = d THEN x ELSE S.devices[e]
  BY DEF Store

\* What revoking the credentials of a set makes of them.
LEMMA RevokedRows ==
    ASSUME store \in Store, NEW K \in SUBSET Cred,
           \A k \in K : store.credentials[k] # None,
           store' = [store EXCEPT !.credentials =
               [k \in Cred |-> IF k \in K THEN [store.credentials[k] EXCEPT !.revoked = TRUE]
                               ELSE store.credentials[k]]]
    PROVE  /\ store' \in Store /\ store'.devices = store.devices
           /\ \A k \in Cred :
                 /\ store'.credentials[k] # None <=> store.credentials[k] # None
                 /\ store.credentials[k] # None =>
                        /\ store'.credentials[k].device = store.credentials[k].device
                        /\ store'.credentials[k].revoked <=> (k \in K \/ store.credentials[k].revoked)
<1> DEFINE f == [k \in Cred |-> IF k \in K THEN [store.credentials[k] EXCEPT !.revoked = TRUE]
                                ELSE store.credentials[k]]
<1>1. ASSUME NEW k \in Cred, store.credentials[k] # None
      PROVE  /\ store.credentials[k] \in Credential
             /\ [store.credentials[k] EXCEPT !.revoked = TRUE] \in Credential
             /\ [store.credentials[k] EXCEPT !.revoked = TRUE].device = store.credentials[k].device
             /\ [store.credentials[k] EXCEPT !.revoked = TRUE].revoked = TRUE
  <2>1. store.credentials[k] \in Credential
    BY <1>1 DEF Store
  <2> QED BY <2>1 DEF Credential
<1>2. ASSUME NEW k \in Cred
      PROVE  f[k] \in Credential \cup {None}
  BY <1>1 DEF Store
<1>3. f \in [Cred -> Credential \cup {None}]
  BY <1>2
<1>4. store' \in Store
  BY <1>3 DEF Store
<1>5. store'.devices = store.devices /\ store'.credentials = f
  BY DEF Store
<1>6. ASSUME NEW k \in Cred, store.credentials[k] # None
      PROVE  f[k] # None
  <2>1. store.credentials[k] \in Credential /\ f[k] \in Credential
    BY <1>1, <1>6
  <2> QED BY <2>1
<1>7. ASSUME NEW k \in Cred
      PROVE  /\ f[k] # None <=> store.credentials[k] # None
             /\ store.credentials[k] # None =>
                    /\ f[k].device = store.credentials[k].device
                    /\ f[k].revoked <=> (k \in K \/ store.credentials[k].revoked)
  <2>1. f[k] = IF k \in K THEN [store.credentials[k] EXCEPT !.revoked = TRUE] ELSE store.credentials[k]
    OBVIOUS
  <2>2. CASE k \in K
    BY <1>1, <1>6, <2>1, <2>2
  <2>3. CASE k \notin K
    BY <2>1, <2>3
  <2> QED BY <2>2, <2>3
<1> QED BY <1>4, <1>5, <1>7

-----------------------------------------------------------------------------
\* A step of the registry's requests, or one that leaves them alone.
RegistryStep ==
    /\ \/ \E w \in Worker : Arrive(w) \/ ServeStep(w) \/ RequestFails(w) \/ Reply(w)
       \/ ServerRestarts
       \/ UNCHANGED vars
    /\ UNCHANGED backend

\* Whatever the host or other clients do, the registry takes one of its steps.
LEMMA StepIsRegistryStep ==
    ASSUME HostTypes, [EnrolmentNext]_<<vars, backend, hvars>>
    PROVE  RegistryStep
<1>1. ASSUME NEW m \in wire, m.cred # None
      PROVE  m.cred \in Cred
  BY <1>1 DEF HostTypes, EnrolmentTypeOK
<1>2. CASE AnyNext
  BY <1>2 DEF AnyNext, RegistryStep
<1>3. CASE HostNext
  <2>1. CASE (LoadCreds \/ NoCreds \/ RequestRefused \/ RequestTimesOut) /\ UNCHANGED backend
    BY <2>1 DEF LoadCreds, NoCreds, RequestRefused, RequestTimesOut, RegistryStep
  <2>2. CASE (SaveCreds \/ SaveCredsFails \/ HostStops) /\ UNCHANGED backend
    BY <2>2 DEF SaveCreds, SaveCredsFails, HostStops, RegistryStep
  <2>3. ASSUME NEW m \in wire, (LoseRequest(m) /\ UNCHANGED backend) \/ RefuseRequest(m)
        PROVE  RegistryStep
    BY <2>3 DEF LoseRequest, RefuseRequest, RegistryStep
  <2>4. ASSUME NEW m \in wire, NEW w \in Worker, ReceiveRequest(w, m)
        PROVE  RegistryStep
    BY <1>1, <2>4 DEF ReceiveRequest, Arrive, RegistryStep
  <2>5. ASSUME NEW w \in Worker, Hello(w)
        PROVE  RegistryStep
    <3>1. host.id[1] \in Device
      BY <2>5 DEF Hello, HostTypes, EnrolmentTypeOK, Identity
    <3> QED BY <2>5, <3>1 DEF Hello, Arrive, RegistryStep
  <2>6. ASSUME NEW w \in Worker, GetReply(w) \/ ReplyUnheard(w)
        PROVE  RegistryStep
    BY <2>6 DEF GetReply, ReplyUnheard, RegistryStep
  <2>7. CASE Server
    BY <2>7 DEF Server, RegistryStep
  <2> QED BY <1>3, <2>1, <2>2, <2>3, <2>4, <2>5, <2>6, <2>7 DEF HostNext
<1>4. CASE UNCHANGED <<vars, backend, hvars>>
  BY <1>4 DEF RegistryStep
<1> QED BY <1>2, <1>3, <1>4 DEF EnrolmentNext

-----------------------------------------------------------------------------
\* The request of w goes on to stage a with n mutations begun, copy c and
\* credential i issued; the others stay as they are.
Moved(w, a, n, c, i) ==
    /\ job[w] # None /\ job'[w] # None
    /\ job' \in [Worker -> Job \cup {None}]
    /\ \A v \in Worker \ {w} : job'[v] = job[v]
    /\ job'[w].op = job[w].op /\ job'[w].device = job[w].device /\ job'[w].cred = job[w].cred
    /\ job'[w].at = a /\ job'[w].then = n /\ job'[w].copy = c /\ job'[w].issued = i

\* An entry replaced field by field has moved on.
LEMMA MovedIs ==
    ASSUME TypeOK, NEW w \in Worker, job[w] # None,
           NEW j, job' = [job EXCEPT ![w] = j],
           NEW a \in Stage, NEW n \in 1 .. 3, NEW c \in Store \cup {None},
           NEW i \in Cred \cup {None},
           j = [job[w] EXCEPT !.at = a, !.then = n, !.copy = c, !.issued = i]
    PROVE  Moved(w, a, n, c, i)
<1>1. job[w] \in Job
  BY DEF TypeOK
<1>2. /\ j \in Job /\ j.op = job[w].op /\ j.device = job[w].device /\ j.cred = job[w].cred
      /\ j.at = a /\ j.then = n /\ j.copy = c /\ j.issued = i
  BY <1>1 DEF Job
<1>3. j # None
  BY <1>2
<1> QED BY <1>2, <1>3 DEF Moved, TypeOK

\* What a mutation of the file makes of its request: it is to be saved.
LEMMA MutateMoves ==
    ASSUME TypeOK, NEW w \in Worker, job[w] # None, job[w].then <= 2, NEW st,
           NEW k \in Cred \cup {None}, MutateIssuing(w, st, k)
    PROVE  Moved(w, "snapshot", job[w].then + 1, job[w].copy, k)
<1>1. job[w] \in Job
  BY DEF TypeOK
<1> DEFINE j == [job[w] EXCEPT !.at = "snapshot", !.then = job[w].then + 1,
                               !.copy = job[w].copy, !.issued = k]
<1>2. job' = [job EXCEPT ![w] = j]
  BY <1>1 DEF MutateIssuing, Job
<1>3. /\ job[w].then + 1 \in 1 .. 3 /\ job[w].copy \in Store \cup {None}
      /\ "snapshot" \in Stage
  BY <1>1 DEF Job, Stage
<1> HIDE DEF j
<1> QED BY <1>2, <1>3, MovedIs DEF j

\* A statement of Postgres: the request goes on, or answers.
LEMMA StatementMoves ==
    ASSUME TypeOK, NEW w \in Worker, job[w] # None, job[w].then <= 2, NEW st,
           NEW k \in Cred \cup {None}, StatementIssuing(w, st, k)
    PROVE  Moved(w, IF job[w].then + 1 = LastMutation(job[w].op) THEN "reply" ELSE "mutate",
                 job[w].then + 1, None, k)
<1>1. job[w] \in Job
  BY DEF TypeOK
<1> DEFINE a == IF job[w].then + 1 = LastMutation(job[w].op) THEN "reply" ELSE "mutate"
           j == [job[w] EXCEPT !.at = a, !.then = job[w].then + 1, !.copy = None, !.issued = k]
<1>2. job' = [job EXCEPT ![w] = j]
  BY <1>1 DEF StatementIssuing, Job
<1>3. /\ job[w].then + 1 \in 1 .. 3 /\ a \in Stage
  BY <1>1 DEF Job, Stage
<1> HIDE DEF j, a
<1>4. Moved(w, a, job[w].then + 1, None, k)
  BY <1>2, <1>3, MovedIs DEF j
<1> QED BY <1>4 DEF a

\* A stage of a save, or of a transaction: no mutation is begun.
LEMMA StageMoves ==
    ASSUME TypeOK, NEW w \in Worker, job[w] # None, NEW a \in Stage, NEW c \in Store \cup {None},
           \/ job' = [job EXCEPT ![w].at = a, ![w].copy = c]
           \/ job' = [job EXCEPT ![w].copy = c, ![w].at = a]
           \/ c = job[w].copy /\ job' = [job EXCEPT ![w].at = a]
    PROVE  Moved(w, a, job[w].then, c, job[w].issued)
<1>1. job[w] \in Job
  BY DEF TypeOK
<1> DEFINE j == [job[w] EXCEPT !.at = a, !.then = job[w].then, !.copy = c,
                               !.issued = job[w].issued]
<1>2. job' = [job EXCEPT ![w] = j]
  BY <1>1 DEF Job
<1>3. job[w].then \in 1 .. 3 /\ job[w].issued \in Cred \cup {None}
  BY <1>1 DEF Job
<1> HIDE DEF j
<1> QED BY <1>2, <1>3, MovedIs DEF j

\* A request begins.
LEMMA BeginIs ==
    ASSUME TypeOK, NEW w \in Worker, NEW op \in Op, NEW d \in Device, NEW k \in Cred \cup {None},
           Begin(w, NewJob(op, d, k))
    PROVE  /\ job[w] = None /\ job'[w] # None
           /\ job' \in [Worker -> Job \cup {None}]
           /\ \A v \in Worker \ {w} : job'[v] = job[v]
           /\ job'[w].op = op /\ job'[w].device = d /\ job'[w].cred = k
           /\ job'[w].at = "mutate" /\ job'[w].then = 1
           /\ job'[w].copy = None /\ job'[w].issued = None
           /\ overlapped' \in BOOLEAN /\ (overlapped => overlapped')
           /\ (\E v \in Worker : job[v] # None) => overlapped'
<1> DEFINE j == NewJob(op, d, k)
<1>1. /\ j \in Job /\ j.op = op /\ j.device = d /\ j.cred = k /\ j.at = "mutate" /\ j.then = 1
      /\ j.copy = None /\ j.issued = None
  BY DEF NewJob, Job, Stage
<1>2. j # None
  BY <1>1
<1>3. job[w] = None /\ job' = [job EXCEPT ![w] = j]
  BY DEF Begin
<1> HIDE DEF j
<1>4. /\ job' \in [Worker -> Job \cup {None}] /\ job'[w] = j
      /\ \A v \in Worker \ {w} : job'[v] = job[v]
  BY <1>1, <1>3 DEF TypeOK
<1>5. /\ overlapped' \in BOOLEAN /\ (overlapped => overlapped')
      /\ (\E v \in Worker : job[v] # None) => overlapped'
  BY DEF Begin, TypeOK
<1> QED BY <1>1, <1>2, <1>3, <1>4, <1>5

-----------------------------------------------------------------------------
\* A request that may insert a credential of its device.
MayIssue(w) == Registering(w) \/ (Presenting(w) /\ Live(store, job[w].cred))

\* What a mutation of request w may do to the maps: it changes its own device
\* and never brings one back, drops no credential, revives none, inserts none
\* but its own, and leaves the rows that others have locked.
Effects(w) ==
    /\ \A d \in Device : store'.devices[d] # store.devices[d] =>
           /\ job[w].op # "touch" /\ d = job[w].device
           /\ store.devices[d] # "deleted" /\ store'.devices[d] # "absent"
    /\ \A k \in Cred :
           /\ store.credentials[k] # None => Has(store', k, store.credentials[k].device)
           /\ Live(store', k) => Live(store, k) \/ store.credentials[k] = None
           /\ store'.credentials[k] # None /\ store.credentials[k] = None =>
                  /\ MayIssue(w) /\ store'.credentials[k].device = job[w].device
                  /\ k \notin minted
    /\ \A v \in Worker \ {w} : At(v, "locked") => Live(store', job[v].cred)

\* A register adds its device.
LEMMA CreateEffect ==
    ASSUME RegistryInv, NEW w \in Worker, Registering(w), job[w].then = 1,
           store' = [store EXCEPT !.devices[job[w].device] = "active"],
           UNCHANGED <<minted, overlapped, backend>>
    PROVE  store' \in Store /\ StoreSound(store)' /\ Effects(w)
           /\ store'.devices[job[w].device] = "active"
<1> DEFINE d == job[w].device
<1>1. job[w] \in Job /\ job[w] # None /\ store \in Store /\ JobSound(w)
  BY DEF RegistryInv, TypeOK, Registering
<1>2. d \in Device /\ "active" \in Status
  BY <1>1 DEF Job, Status
<1>3. /\ store' \in Store /\ store'.credentials = store.credentials
      /\ \A e \in Device : store'.devices[e] = IF e = d THEN "active" ELSE store.devices[e]
  BY <1>1, <1>2, DeviceRow
<1>4. StoreSound(store) /\ d \in minted /\ store.devices[d] = "absent"
  BY <1>1 DEF RegistryInv, Kept, JobSound, DeviceIsFresh
<1>5. StoreSound(store)'
  BY <1>3, <1>4 DEF StoreSound, Drawn, OneLive, ActiveIfLive, Live, DeleteSeesAll
<1>6. Effects(w)
  <2>1. \A v \in Worker : At(v, "locked") => Live(store, job[v].cred)
    BY DEF RegistryInv, JobSound, LockHolds
  <2> QED BY <1>1, <1>3, <1>4, <2>1 DEF Effects, Live, Has, Registering
<1> QED BY <1>2, <1>3, <1>5, <1>6

\* A register issues its credential.
LEMMA InsertEffect ==
    ASSUME RegistryInv, NEW w \in Worker, Registering(w), job[w].then = 2,
           NEW k \in Cred, k \notin minted, minted' = minted \cup {k},
           store' = [store EXCEPT !.credentials[k] = [device |-> job[w].device, revoked |-> FALSE]],
           UNCHANGED <<overlapped, backend>>
    PROVE  store' \in Store /\ StoreSound(store)' /\ Effects(w)
           /\ IdLive(store', job[w].device, k)
<1> DEFINE d == job[w].device
           c == [device |-> d, revoked |-> FALSE]
<1>1. job[w] \in Job /\ job[w] # None /\ store \in Store /\ JobSound(w)
  BY DEF RegistryInv, TypeOK, Registering
<1>2. d \in Device /\ c \in Credential /\ c.device = d /\ ~c.revoked
  BY <1>1 DEF Job, Credential
<1>3. c # None
  BY <1>2
<1> HIDE DEF c
<1>4. /\ store' \in Store /\ store'.devices = store.devices
      /\ \A l \in Cred : store'.credentials[l] = IF l = k THEN c ELSE store.credentials[l]
  BY <1>1, <1>2 DEF Store, c
<1>5. /\ StoreSound(store) /\ d \in minted /\ store.devices[d] = "active"
      /\ \A l \in Cred : ~Has(store, l, d)
  BY <1>1 DEF RegistryInv, Kept, JobSound, DeviceIsFresh
<1>6. store.credentials[k] = None
  BY <1>5 DEF StoreSound, Drawn
<1>7. StoreSound(store)'
  <2>1. Drawn(store)'
    BY <1>2, <1>4, <1>5 DEF StoreSound, Drawn
  <2>2. OneLive(store)'
    BY <1>2, <1>4, <1>5 DEF StoreSound, OneLive, Live, Has
  <2>3. (DeleteSeesAll => ActiveIfLive(store))'
    BY <1>2, <1>4, <1>5 DEF StoreSound, ActiveIfLive, Live, DeleteSeesAll
  <2> QED BY <2>1, <2>2, <2>3 DEF StoreSound
<1>8. Effects(w)
  <2>1. \A v \in Worker : At(v, "locked") => Live(store, job[v].cred)
    BY DEF RegistryInv, JobSound, LockHolds
  <2>2. \A v \in Worker : At(v, "locked") => job[v].cred \in Cred /\ store.credentials[job[v].cred] # None
    BY DEF RegistryInv, JobSound, LockHolds, Presenting, Presented, At, Has
  <2> QED BY <1>2, <1>3, <1>4, <1>6, <2>1, <2>2 DEF Effects, Live, Has, MayIssue
<1>9. IdLive(store', d, k)
  <2>1. store'.credentials[k] = c /\ store'.devices[d] = "active"
    BY <1>4, <1>5
  <2> QED BY <1>2, <1>3, <2>1 DEF IdLive, Live
<1> QED BY <1>4, <1>7, <1>8, <1>9

\* A refresh revokes the credential presented and issues another.
LEMMA RotateEffect ==
    ASSUME RegistryInv, NEW w \in Worker, Presenting(w), job[w].op = "refresh",
           Live(store, job[w].cred),
           DeleteSeesAll => store.devices[job[w].device] = "active",
           \A v \in Worker \ {w} : At(v, "locked") => job[v].cred # job[w].cred,
           NEW k \in Cred, k \notin minted, minted' = minted \cup {k},
           store' = [store EXCEPT
               !.credentials[job[w].cred] = [device |-> job[w].device, revoked |-> TRUE],
               !.credentials[k] = [device |-> job[w].device, revoked |-> FALSE]],
           UNCHANGED <<overlapped, backend>>
    PROVE  /\ store' \in Store /\ StoreSound(store)' /\ Effects(w)
           /\ Live(store', k) /\ Has(store', k, job[w].device)
           /\ store'.devices = store.devices
           /\ Has(store', job[w].cred, job[w].device) /\ ~Live(store', job[w].cred)
           /\ \A l \in Cred \ {job[w].cred} : Live(store, l) => Live(store', l)
<1> DEFINE d == job[w].device
           j == job[w].cred
           b == [device |-> d, revoked |-> TRUE]
           c == [device |-> d, revoked |-> FALSE]
<1>1. job[w] \in Job /\ job[w] # None /\ store \in Store /\ JobSound(w)
  BY DEF RegistryInv, TypeOK, Presenting
<1>2. /\ d \in Device /\ c \in Credential /\ c.device = d /\ ~c.revoked
      /\ b \in Credential /\ b.device = d /\ b.revoked
  BY <1>1 DEF Job, Credential
<1>3. c # None /\ b # None
  BY <1>2
<1> HIDE DEF c, b
<1>4. /\ StoreSound(store) /\ j \in Cred /\ Has(store, j, d) /\ Live(store, j)
  BY <1>1 DEF RegistryInv, Kept, JobSound, Presented
<1>5. d \in minted /\ j \in minted /\ j # k /\ store.credentials[k] = None
  BY <1>4 DEF StoreSound, Drawn, Has
<1>6. /\ store' \in Store /\ store'.devices = store.devices
      /\ \A l \in Cred : store'.credentials[l] = IF l = k THEN c
                                                 ELSE IF l = j THEN b ELSE store.credentials[l]
  BY <1>1, <1>2, <1>4, <1>5 DEF Store, b, c
<1> HIDE DEF j, d
<1>7. StoreSound(store)'
  <2>1. Drawn(store)'
    BY <1>2, <1>4, <1>5, <1>6 DEF StoreSound, Drawn
  <2>2. OneLive(store)'
    <3>1. ASSUME NEW l \in Cred, Live(store', l)
          PROVE  l = k \/ (l # j /\ Live(store, l) /\ store'.credentials[l] = store.credentials[l]
                           /\ store.credentials[l].device # d)
      BY <1>2, <1>4, <1>6, <3>1 DEF StoreSound, OneLive, Live, Has
    <3> QED BY <1>2, <1>4, <1>6, <3>1 DEF StoreSound, OneLive
  <2>3. (DeleteSeesAll => ActiveIfLive(store))'
    BY <1>2, <1>4, <1>6 DEF StoreSound, ActiveIfLive, Live, DeleteSeesAll, d
  <2> QED BY <2>1, <2>2, <2>3 DEF StoreSound
<1>8. Effects(w)
  <2>1. \A v \in Worker \ {w} : At(v, "locked") =>
            /\ job[v].cred \in Cred /\ job[v].cred # j
            /\ Live(store, job[v].cred) /\ store.credentials[job[v].cred] # None
    BY DEF RegistryInv, JobSound, LockHolds, Presenting, Presented, At, Has, j
  <2>2. MayIssue(w)
    BY DEF MayIssue, j
  <2> QED BY <1>2, <1>3, <1>4, <1>5, <1>6, <2>1, <2>2 DEF Effects, Live, Has, d
<1>9. /\ Live(store', k) /\ Has(store', k, d) /\ Has(store', j, d) /\ ~Live(store', j)
      /\ \A l \in Cred \ {j} : Live(store, l) => Live(store', l)
  BY <1>2, <1>3, <1>4, <1>5, <1>6 DEF Live, Has
<1> QED BY <1>6, <1>7, <1>8, <1>9 DEF j, d

\* Revoking credentials that nobody has locked.
LEMMA RevokeEffect ==
    ASSUME RegistryInv, NEW w \in Worker, NEW K \in SUBSET Cred,
           \A k \in K : store.credentials[k] # None,
           \A v \in Worker : At(v, "locked") => job[v].cred \notin K,
           store' = [store EXCEPT !.credentials =
               [k \in Cred |-> IF k \in K THEN [store.credentials[k] EXCEPT !.revoked = TRUE]
                               ELSE store.credentials[k]]],
           UNCHANGED <<minted, overlapped, backend>>
    PROVE  /\ store' \in Store /\ StoreSound(store)' /\ Effects(w)
           /\ store'.devices = store.devices
           /\ \A k \in Cred : Live(store', k) => Live(store, k) /\ k \notin K
<1>1. store \in Store /\ StoreSound(store)
  BY DEF RegistryInv, TypeOK, Kept
<1>2. /\ store' \in Store /\ store'.devices = store.devices
      /\ \A k \in Cred :
            /\ store'.credentials[k] # None <=> store.credentials[k] # None
            /\ store.credentials[k] # None =>
                   /\ store'.credentials[k].device = store.credentials[k].device
                   /\ store'.credentials[k].revoked <=> (k \in K \/ store.credentials[k].revoked)
  BY <1>1, RevokedRows
<1>3. \A k \in Cred : Live(store', k) => Live(store, k) /\ k \notin K
  BY <1>2 DEF Live
<1>4. StoreSound(store)'
  <2>1. Drawn(store)'
    BY <1>1, <1>2 DEF StoreSound, Drawn
  <2>2. OneLive(store)'
    BY <1>1, <1>2, <1>3 DEF StoreSound, OneLive, Live
  <2>3. (DeleteSeesAll => ActiveIfLive(store))'
    BY <1>1, <1>2, <1>3 DEF StoreSound, ActiveIfLive, Live, DeleteSeesAll
  <2> QED BY <2>1, <2>2, <2>3 DEF StoreSound
<1>5. Effects(w)
  <2>1. \A v \in Worker : At(v, "locked") =>
            /\ job[v].cred \in Cred /\ job[v].cred \notin K
            /\ Live(store, job[v].cred) /\ store.credentials[job[v].cred] # None
    BY DEF RegistryInv, JobSound, LockHolds, Presenting, Presented, At, Has
  <2> QED BY <1>2, <1>3, <2>1 DEF Effects, Live, Has
<1> QED BY <1>2, <1>3, <1>4, <1>5

\* A delete marks its device, whose credentials are revoked.
LEMMA DeleteEffect ==
    ASSUME RegistryInv, NEW w \in Worker, Revoked(w),
           store' = [store EXCEPT !.devices[job[w].device] = "deleted"],
           UNCHANGED <<minted, overlapped, backend>>
    PROVE  /\ store' \in Store /\ StoreSound(store)' /\ Effects(w)
           /\ store'.credentials = store.credentials
           /\ store'.devices[job[w].device] = "deleted"
<1> DEFINE d == job[w].device
<1>1. job[w] \in Job /\ job[w] # None /\ store \in Store /\ JobSound(w) /\ StoreSound(store)
  BY DEF RegistryInv, TypeOK, Revoked, Kept
<1>2. d \in Device /\ "deleted" \in Status /\ job[w].op = "delete" /\ NoneLive(w)
  BY <1>1 DEF Job, Status, Revoked, JobSound
<1>3. /\ store' \in Store /\ store'.credentials = store.credentials
      /\ \A e \in Device : store'.devices[e] = IF e = d THEN "deleted" ELSE store.devices[e]
  BY <1>1, <1>2, DeviceRow
<1>4. d \in minted
  BY <1>1, <1>2 DEF JobSound, Presenting, Presented, StoreSound, Drawn, Has
<1>5. StoreSound(store)'
  <2>1. Drawn(store)' /\ OneLive(store)'
    BY <1>1, <1>3, <1>4 DEF StoreSound, Drawn, OneLive, Live
  <2>2. (DeleteSeesAll => ActiveIfLive(store))'
    <3>1. \A k \in Cred : store.credentials[k] # None => store.credentials[k].device \in Device
      BY <1>1 DEF Store, Credential
    <3> QED BY <1>1, <1>2, <1>3, <3>1 DEF StoreSound, ActiveIfLive, Live, DeleteSeesAll, NoneLive, Has
  <2> QED BY <2>1, <2>2 DEF StoreSound
<1>6. Effects(w)
  <2>1. \A v \in Worker : At(v, "locked") => Live(store, job[v].cred)
    BY DEF RegistryInv, JobSound, LockHolds
  <2> QED BY <1>2, <1>3, <2>1 DEF Effects, Live, Has
<1> QED BY <1>2, <1>3, <1>5, <1>6

-----------------------------------------------------------------------------
\* What is known of a store stays known: more is drawn, more has overlapped.
LEMMA StoreSoundStays ==
    ASSUME NEW S \in Store, StoreSound(S), minted \subseteq minted',
           overlapped => overlapped', backend' = backend
    PROVE  StoreSound(S)'
<1>1. Drawn(S)'
  BY DEF StoreSound, Drawn
<1>2. DeleteSeesAll' => DeleteSeesAll
  BY DEF DeleteSeesAll
<1>3. OneLive(S)' /\ (ActiveIfLive(S) => ActiveIfLive(S)')
  BY DEF StoreSound, OneLive, ActiveIfLive, Live
<1> QED BY <1>1, <1>2, <1>3 DEF StoreSound

\* What one request w does to the maps, to its own entry and to the files.
OneActs(w) ==
    /\ \A v \in Worker \ {w} : job'[v] = job[v]
    /\ store' = store \/ (job[w] # None /\ StoreSound(store)' /\ Effects(w))
    /\ \A S \in Store : Kept(S)' => Kept(S) \/ S = store'
    /\ minted \subseteq minted' /\ (overlapped => overlapped') /\ backend' = backend
    /\ \A v \in Worker \ {w} :
           /\ Registering(v) /\ job'[w] # None /\ job'[w].op # "touch" =>
                  job'[w].device # job[v].device
           /\ At(w, "locked")' /\ At(v, "locked") => job'[w].cred # job[v].cred

\* The other requests are as sound as before.
LEMMA OthersKeep ==
    ASSUME RegistryInv, NEW w \in Worker, OneActs(w), NEW v \in Worker \ {w}
    PROVE  JobSound(v)'
<1>1. /\ job'[v] = job[v] /\ JobSound(v) /\ store \in Store /\ (job[v] # None => job[v] \in Job)
      /\ minted \subseteq minted' /\ backend' = backend
  BY DEF RegistryInv, TypeOK, OneActs
<1>2. \A k \in Cred : store.credentials[k] # None => Has(store', k, store.credentials[k].device)
  BY DEF OneActs, Effects, Has
<1>3. store' # store /\ job[v] # None => overlapped
  BY DEF OneActs, RegistryInv
<1>4. DeleteSeesAll' => DeleteSeesAll
  BY DEF DeleteSeesAll, OneActs
<1>5. ASSUME Registering(v)' PROVE DeviceIsFresh(v)'
  <2> DEFINE d == job[v].device
  <2>1. Registering(v) /\ DeviceIsFresh(v)
    BY <1>1, <1>5 DEF JobSound, Registering
  <2>2. d \in Device /\ d \in minted'
    BY <1>1, <2>1 DEF DeviceIsFresh, Registering, Job
  <2>3. ASSUME job[w] # None PROVE job[w].op # "touch" => job[w].device # d
    BY <2>1, <2>3 DEF DeviceIsFresh
  <2>4. store'.devices[d] = store.devices[d]
    BY <2>2, <2>3 DEF OneActs, Effects
  <2>5. ASSUME NEW k \in Cred PROVE ~Has(store', k, d)
    <3>1. ~Has(store, k, d)
      BY <1>1, <2>1 DEF DeviceIsFresh, Kept
    <3>2. CASE store' = store
      BY <3>1, <3>2
    <3>3. CASE job[w] # None /\ Effects(w)
      <4>1. CASE store.credentials[k] # None
        BY <3>1, <3>3, <4>1 DEF Effects, Has
      <4>2. CASE store.credentials[k] = None /\ store'.credentials[k] # None
        <5>1. MayIssue(w) /\ store'.credentials[k].device = job[w].device
          BY <3>3, <4>2 DEF Effects
        <5>2. job[w].op # "touch"
          BY <5>1 DEF MayIssue, Registering, Presenting
        <5> QED BY <2>3, <3>3, <5>1, <5>2 DEF Has
      <4> QED BY <4>1, <4>2 DEF Has
    <3> QED BY <3>2, <3>3 DEF OneActs
  <2>6. \A S \in Store : Kept(S)' => \A k \in Cred : ~Has(S, k, d)
    BY <2>1, <2>5 DEF OneActs, DeviceIsFresh
  <2>7. ASSUME NEW u \in Worker \ {v}, job'[u] # None, job'[u].op # "touch"
        PROVE  job'[u].device # d
    BY <2>1, <2>7 DEF OneActs, DeviceIsFresh
  <2> QED BY <1>1, <2>1, <2>2, <2>4, <2>6, <2>7 DEF DeviceIsFresh, Has
<1>6. ASSUME Presenting(v)' PROVE Presented(v)'
  BY <1>1, <1>2, <1>6 DEF JobSound, Presenting, Presented, Has
<1>7. ASSUME Revoked(v)', DeleteSeesAll', NEW k \in Cred, Has(store', k, job[v].device)
      PROVE  ~Live(store', k)
  <2>1. job[v] # None /\ job[v].op = "delete" /\ NoneLive(v) /\ DeleteSeesAll
    BY <1>1, <1>4, <1>7 DEF JobSound, Revoked
  <2>2. CASE store' = store
    BY <1>7, <2>1, <2>2 DEF NoneLive
  <2>3. CASE job[w] # None /\ Effects(w)
    <3>1. CASE store.credentials[k] # None
      BY <1>7, <2>1, <2>3, <3>1 DEF Effects, Has, NoneLive
    <3>2. CASE store.credentials[k] = None
      <4>1. MayIssue(w) /\ job[w].device = job[v].device
        BY <1>7, <2>3, <3>2 DEF Effects, Has
      <4>2. JobSound(w)
        BY DEF RegistryInv
      <4>3. CASE Registering(w)
        <5>1. DeviceIsFresh(w)
          BY <4>2, <4>3 DEF JobSound
        <5> QED BY <2>1, <4>1, <5>1 DEF DeviceIsFresh
      <4>4. CASE Presenting(w) /\ Live(store, job[w].cred)
        BY <2>1, <4>1, <4>2, <4>4 DEF JobSound, Presented, NoneLive
      <4> QED BY <4>1, <4>3, <4>4 DEF MayIssue
    <3> QED BY <3>1, <3>2
  <2> QED BY <2>2, <2>3 DEF OneActs
<1>8. ASSUME At(v, "locked")' PROVE LockHolds(v)'
  <2>1. At(v, "locked") /\ LockHolds(v)
    BY <1>1, <1>8 DEF At, JobSound
  <2>2. Live(store', job[v].cred)
    BY <2>1 DEF OneActs, Effects, LockHolds
  <2>3. ASSUME NEW u \in Worker \ {v}, At(u, "locked")'
        PROVE  job'[u].cred # job[v].cred
    BY <2>1, <2>3 DEF OneActs, LockHolds, At
  <2>4. DeleteSeesAll' => store'.devices[job[v].device] = "active"
    BY <1>1, <1>3, <1>4, <2>1 DEF LockHolds, DeleteSeesAll, At, OneActs
  <2> QED BY <1>1, <2>1, <2>2, <2>3, <2>4 DEF LockHolds
<1>9. ASSUME At(v, "update")' PROVE UpdateSaw(v)'
  <2>1. At(v, "update") /\ UpdateSaw(v)
    BY <1>1, <1>9 DEF At, JobSound
  <2>2. DeleteSeesAll' => job[v].copy = store'
    BY <1>3, <1>4, <2>1 DEF UpdateSaw, DeleteSeesAll, At, OneActs
  <2>3. \A k \in Cred : job[v].copy.credentials[k] # None =>
            Has(store', k, job[v].copy.credentials[k].device)
    BY <1>2, <2>1 DEF UpdateSaw, Has
  <2> QED BY <1>1, <2>1, <2>2, <2>3 DEF UpdateSaw, Has
<1>10. /\ (At(v, "mutate") => job[v].then < LastMutation(job[v].op))'
       /\ (job[v] # None => job[v].then <= LastMutation(job[v].op))'
  BY <1>1 DEF JobSound, At
<1>11. (InFlight(v) => job[v].issued \in minted /\ Has(store, job[v].issued, job[v].device))'
  <2>1. InFlight(v)' => InFlight(v)
    BY <1>1 DEF InFlight
  <2>2. InFlight(v) => job[v].issued \in minted /\ Has(store, job[v].issued, job[v].device)
    BY <1>1 DEF JobSound
  <2>3. InFlight(v) => job[v].issued \in Cred
    BY <1>1, <2>2 DEF Job, InFlight, RegistryInv, TypeOK
  <2> QED BY <1>1, <1>2, <2>1, <2>2, <2>3 DEF Has
<1>12. (At(v, "reply") => Finished(v))'
  <2>1. job[v] # None => job[v].device \in Device
    BY <1>1 DEF Job
  <2>2. job[v] # None /\ store.devices[job[v].device] = "deleted" =>
            store'.devices[job[v].device] = "deleted"
    BY <2>1 DEF OneActs, Effects
  <2>3. At(v, "reply") => Finished(v)
    BY <1>1 DEF JobSound
  <2>4. job'[v] = job[v]
    BY <1>1
  <2> QED BY <2>2, <2>3, <2>4 DEF At, Finished, LastMutation
<1>13. (Revoked(v) => NoneLive(v))'
  BY <1>1, <1>7 DEF NoneLive, Has, Live
<1> QED BY <1>5, <1>6, <1>8, <1>9, <1>10, <1>11, <1>12, <1>13 DEF JobSound

\* RegistryInv after a request's step: what remains is the step's own.
LEMMA InvKept ==
    ASSUME RegistryInv, NEW w \in Worker, OneActs(w), TypeOK', JobSound(w)',
           backend = "postgres" => disk' = store' /\ tmp' = None,
           job[w] = None /\ job'[w] # None => ((\E v \in Worker : job[v] # None) => overlapped')
    PROVE  RegistryInv'
<1>1. \A v \in Worker : JobSound(v)'
  BY OthersKeep
<1>2. \A S \in Store : Kept(S)' => StoreSound(S)'
  <2> SUFFICES ASSUME NEW S \in Store, Kept(S)' PROVE StoreSound(S)'
    OBVIOUS
  <2>1. CASE Kept(S)
    BY <2>1, StoreSoundStays DEF OneActs, RegistryInv
  <2>2. CASE S = store' /\ store' # store
    BY <2>2 DEF OneActs, StoreSound, Drawn, OneLive, ActiveIfLive, Live
  <2>3. CASE S = store' /\ store' = store
    BY <2>1, <2>3 DEF Kept
  <2> QED BY <2>1, <2>2, <2>3 DEF OneActs
<1>3. ~overlapped' => \A v, u \in Worker : job'[v] # None /\ job'[u] # None => v = u
  BY DEF OneActs, RegistryInv
<1> QED BY <1>1, <1>2, <1>3 DEF RegistryInv, OneActs

\* A request ends, for whatever reason, with a reply or without.
LEMMA EndKeepsInv ==
    ASSUME RegistryInv, NEW w \in Worker, job' = [job EXCEPT ![w] = None], TypeOK',
           UNCHANGED <<store, disk, tmp, minted, overlapped, backend>>
    PROVE  RegistryInv'
<1>1. job'[w] = None /\ \A v \in Worker \ {w} : job'[v] = job[v]
  BY DEF RegistryInv, TypeOK
<1>2. OneActs(w)
  <2>1. \A S \in Store : Kept(S)' => Kept(S)
    BY <1>1 DEF Kept
  <2> QED BY <1>1, <2>1 DEF OneActs, At
<1>3. JobSound(w)'
  BY <1>1 DEF JobSound, Registering, Presenting, Revoked, At, InFlight
<1> QED BY <1>1, <1>2, <1>3, InvKept DEF RegistryInv

\* The server stops and starts again.
LEMMA RestartKeepsInv ==
    ASSUME RegistryInv, ServerRestarts, backend' = backend
    PROVE  RegistryInv'
<1>1. /\ job' = [w \in Worker |-> None] /\ store' = disk /\ disk' = disk
      /\ tmp' \in {tmp, None} /\ (backend = "postgres" => tmp' = None)
      /\ UNCHANGED <<minted, acked, overlapped>>
  BY DEF ServerRestarts, Restart, Reconnect, RegistryInv
<1>2. TypeOK'
  BY <1>1 DEF RegistryInv, TypeOK
<1>3. \A w \in Worker : job'[w] = None
  BY <1>1
<1>4. \A w \in Worker : JobSound(w)'
  BY <1>3 DEF JobSound, Registering, Presenting, Revoked, At, InFlight
<1>5. \A S \in Store : Kept(S)' => StoreSound(S)'
  <2> SUFFICES ASSUME NEW S \in Store, Kept(S)' PROVE StoreSound(S)'
    OBVIOUS
  <2>1. Kept(S)
    BY <1>1, <1>3 DEF Kept
  <2> QED BY <1>1, <2>1, StoreSoundStays DEF RegistryInv
<1> QED BY <1>1, <1>2, <1>3, <1>4, <1>5 DEF RegistryInv

-----------------------------------------------------------------------------
\* Requests arrive.
LEMMA StartRegisterKeepsInv ==
    ASSUME RegistryInv, NEW w \in Worker, NEW d \in Device, StartRegister(w, d), backend' = backend
    PROVE  RegistryInv'
<1>1. /\ d \notin minted /\ minted' = minted \cup {d}
      /\ Begin(w, NewJob("register", d, None))
      /\ UNCHANGED <<store, disk, tmp, acked>>
  BY DEF StartRegister
<1>2. /\ job[w] = None /\ job'[w] # None
      /\ job' \in [Worker -> Job \cup {None}]
      /\ \A v \in Worker \ {w} : job'[v] = job[v]
      /\ job'[w].op = "register" /\ job'[w].device = d
      /\ job'[w].at = "mutate" /\ job'[w].then = 1 /\ job'[w].copy = None
      /\ overlapped' \in BOOLEAN /\ (overlapped => overlapped')
      /\ (\E v \in Worker : job[v] # None) => overlapped'
  BY <1>1, BeginIs DEF RegistryInv, Op
<1>3. TypeOK'
  BY <1>1, <1>2 DEF RegistryInv, TypeOK
<1>4. \A S \in Store : Kept(S)' => Kept(S)
  BY <1>1, <1>2 DEF Kept
<1>5. ASSUME NEW S \in Store, Kept(S)
      PROVE  (\A k \in Cred : ~Has(S, k, d)) /\ S.devices[d] = "absent"
  BY <1>1, <1>5 DEF RegistryInv, StoreSound, Drawn, Has
<1>6. ASSUME NEW v \in Worker, job[v] # None, job[v].op # "touch"
      PROVE  job[v].device # d
  <2>1. job[v] \in Job /\ JobSound(v) /\ store \in Store
    BY <1>6 DEF RegistryInv, TypeOK
  <2>2. CASE Registering(v)
    BY <1>1, <2>1, <2>2 DEF JobSound, DeviceIsFresh
  <2>3. CASE Presenting(v)
    BY <1>5, <2>1, <2>3 DEF JobSound, Presented, Kept
  <2>4. CASE InFlight(v)
    <3>1. job[v].issued \in Cred
      BY <2>1, <2>4 DEF JobSound, Job, RegistryInv, TypeOK
    <3> QED BY <1>5, <2>1, <2>4, <3>1 DEF JobSound, Kept
  <2> QED BY <1>6, <2>1, <2>2, <2>3, <2>4 DEF Job, Op, Registering, Presenting, InFlight, LastMutation
<1>7. OneActs(w)
  BY <1>1, <1>2, <1>4, <1>6 DEF OneActs, Registering, At
<1>8. JobSound(w)'
  <2>1. DeviceIsFresh(w)'
    <3>1. d \in minted' /\ store'.devices[d] = "absent"
      BY <1>1, <1>5 DEF Kept, RegistryInv, TypeOK
    <3>2. \A S \in Store : Kept(S)' => \A k \in Cred : ~Has(S, k, d)
      BY <1>4, <1>5
    <3> QED BY <1>2, <1>6, <3>1, <3>2 DEF DeviceIsFresh, Has
  <2> QED BY <1>2, <2>1 DEF JobSound, Registering, Presenting, Revoked, At, InFlight, LastMutation
<1> QED BY <1>1, <1>2, <1>3, <1>7, <1>8, InvKept DEF RegistryInv

\* A refresh or a delete, whose lookup found a live credential.
LEMMA StartWithKeepsInv ==
    ASSUME RegistryInv, NEW w \in Worker, NEW op \in {"refresh", "delete"}, NEW k \in Cred,
           StartWith(w, op, k), backend' = backend
    PROVE  RegistryInv'
<1> DEFINE d == store.credentials[k].device
<1>1. /\ Live(store, k) /\ store.devices[d] = "active"
      /\ Begin(w, NewJob(op, d, k))
      /\ UNCHANGED <<store, disk, tmp, minted, acked>>
  BY DEF StartWith
<1>2. d \in Device /\ Has(store, k, d) /\ store \in Store
  BY <1>1 DEF RegistryInv, TypeOK, Store, Credential, Live, Has
<1>3. /\ job[w] = None /\ job'[w] # None
      /\ job' \in [Worker -> Job \cup {None}]
      /\ \A v \in Worker \ {w} : job'[v] = job[v]
      /\ job'[w].op = op /\ job'[w].device = d /\ job'[w].cred = k
      /\ job'[w].at = "mutate" /\ job'[w].then = 1 /\ job'[w].copy = None
      /\ overlapped' \in BOOLEAN /\ (overlapped => overlapped')
      /\ (\E v \in Worker : job[v] # None) => overlapped'
  BY <1>1, <1>2, BeginIs DEF RegistryInv, Op
<1>4. TypeOK'
  BY <1>1, <1>3 DEF RegistryInv, TypeOK
<1>5. \A S \in Store : Kept(S)' => Kept(S)
  BY <1>1, <1>3 DEF Kept
<1>6. \A v \in Worker : Registering(v) => job[v].device # d
  BY <1>2 DEF RegistryInv, JobSound, DeviceIsFresh, Kept
<1>7. OneActs(w)
  BY <1>1, <1>3, <1>5, <1>6 DEF OneActs, At
<1>8. JobSound(w)'
  BY <1>1, <1>2, <1>3 DEF JobSound, Registering, Presenting, Presented, Revoked, At, InFlight,
                          LastMutation, Has
<1> QED BY <1>1, <1>3, <1>4, <1>7, <1>8, InvKept DEF RegistryInv

\* A hello.
LEMMA StartTouchKeepsInv ==
    ASSUME RegistryInv, NEW w \in Worker, NEW d \in Device, StartTouch(w, d), backend' = backend
    PROVE  RegistryInv'
<1>1. /\ Begin(w, NewJob("touch", d, None))
      /\ UNCHANGED <<store, disk, tmp, minted, acked>>
  BY DEF StartTouch
<1>2. /\ job[w] = None /\ job'[w] # None
      /\ job' \in [Worker -> Job \cup {None}]
      /\ \A v \in Worker \ {w} : job'[v] = job[v]
      /\ job'[w].op = "touch"
      /\ job'[w].at = "mutate" /\ job'[w].then = 1 /\ job'[w].copy = None
      /\ overlapped' \in BOOLEAN /\ (overlapped => overlapped')
      /\ (\E v \in Worker : job[v] # None) => overlapped'
  BY <1>1, BeginIs DEF RegistryInv, Op
<1>3. TypeOK'
  BY <1>1, <1>2 DEF RegistryInv, TypeOK
<1>4. \A S \in Store : Kept(S)' => Kept(S)
  BY <1>1, <1>2 DEF Kept
<1>5. OneActs(w)
  BY <1>1, <1>2, <1>4 DEF OneActs, At
<1>6. JobSound(w)'
  BY <1>2 DEF JobSound, Registering, Presenting, Revoked, At, InFlight, LastMutation
<1> QED BY <1>1, <1>2, <1>3, <1>5, <1>6, InvKept DEF RegistryInv

-----------------------------------------------------------------------------
\* A request has done its mutation: the file's request saves it next, the
\* database's goes on or answers.
MovesOn(w, i) ==
    \E a \in {"snapshot", IF job[w].then + 1 = LastMutation(job[w].op) THEN "reply" ELSE "mutate"},
       c \in {None, job[w].copy} :
        /\ Moved(w, a, job[w].then + 1, c, i)
        /\ disk' = disk \/ disk' = store'
        /\ IF backend = "file" THEN a = "snapshot" ELSE disk' = store'
        /\ UNCHANGED <<tmp, acked, overlapped, backend>>

\* The mutations a request may do, and what else it may do.
Creates(w) ==
    /\ Registering(w) /\ job[w].then = 1
    /\ store' = [store EXCEPT !.devices[job[w].device] = "active"]
    /\ minted' = minted /\ MovesOn(w, job[w].issued)

Issues(w, k) ==
    /\ Registering(w) /\ job[w].then = 2
    /\ k \notin minted /\ minted' = minted \cup {k}
    /\ store' = [store EXCEPT !.credentials[k] = [device |-> job[w].device, revoked |-> FALSE]]
    /\ MovesOn(w, k)

Rotates(w, k) ==
    /\ Presenting(w) /\ job[w].op = "refresh" /\ job[w].then = 1
    /\ Live(store, job[w].cred)
    /\ DeleteSeesAll => store.devices[job[w].device] = "active"
    /\ \A v \in Worker \ {w} : At(v, "locked") => job[v].cred # job[w].cred
    /\ k \notin minted /\ minted' = minted \cup {k}
    /\ store' = [store EXCEPT
           !.credentials[job[w].cred] = [device |-> job[w].device, revoked |-> TRUE],
           !.credentials[k] = [device |-> job[w].device, revoked |-> FALSE]]
    /\ MovesOn(w, k)

Revokes(w, K) ==
    /\ job[w].op = "delete" /\ job[w].then = 1
    /\ \A k \in K : store.credentials[k] # None
    /\ DeleteSeesAll => \A k \in Cred : Has(store, k, job[w].device) /\ Live(store, k) => k \in K
    /\ \A v \in Worker : At(v, "locked") => job[v].cred \notin K
    /\ store' = [store EXCEPT !.credentials =
           [k \in Cred |-> IF k \in K THEN [store.credentials[k] EXCEPT !.revoked = TRUE]
                           ELSE store.credentials[k]]]
    /\ minted' = minted /\ MovesOn(w, job[w].issued)

Deletes(w) ==
    /\ Revoked(w) /\ job[w].then = 2
    /\ store' = [store EXCEPT !.devices[job[w].device] = "deleted"]
    /\ minted' = minted /\ MovesOn(w, job[w].issued)

Touches(w) ==
    /\ job[w].op = "touch" /\ job[w].then = 1
    /\ store' = store /\ minted' = minted /\ MovesOn(w, job[w].issued)

\* A step of the file's save, or a delete that finds its device deleted.
SaveStep(w, a, c) ==
    \/ At(w, "mutate") /\ job[w].then > 1 /\ a = "reply" /\ UNCHANGED <<disk, tmp>>
    \/ At(w, "snapshot") /\ a = "write" /\ c = store /\ UNCHANGED <<disk, tmp>>
    \/ At(w, "write") /\ a = "rename" /\ tmp' = job[w].copy /\ UNCHANGED disk
    \/ At(w, "rename") /\ a \in {"reply", "mutate"} /\ tmp \in Store /\ disk' = tmp /\ tmp' = None

Stages(w, a, c) ==
    /\ Moved(w, a, job[w].then, c, job[w].issued)
    /\ c # None => Kept(c)
    /\ disk' # disk => disk' \in Store /\ Kept(disk')
    /\ tmp' # tmp => tmp' = None \/ (tmp' \in Store /\ Kept(tmp'))
    /\ backend = "postgres" => disk' = disk /\ tmp' = tmp
    /\ backend = "file" => SaveStep(w, a, c)
    /\ UNCHANGED <<store, minted, acked, overlapped, backend>>
    /\ a = "locked" => LockHolds(w) /\ \A v \in Worker \ {w} : At(v, "locked") => job[v].cred # job[w].cred
    /\ a = "update" => UpdateSaw(w)'
    /\ a = "mutate" => job[w].then < LastMutation(job[w].op)
    /\ a = "reply" => Finished(w)

\* A request is refused: a stale token, a rename that finds no file.
Refuses(w) ==
    /\ job[w] # None /\ Fail(w) /\ backend' = backend
    /\ \/ At(w, "mutate") /\ job[w].op = "refresh" /\ job[w].then = 1
          /\ ~(Live(store, job[w].cred) /\ store.devices[job[w].device] = "active")
       \/ At(w, "rename") /\ tmp = None /\ backend = "file"

\* The file's request is to save its mutation ...
LEMMA MutateMovesOn ==
    ASSUME RegistryInv, NEW w \in Worker, job[w] # None, job[w].then <= 2, NEW st,
           NEW k \in Cred \cup {None}, MutateIssuing(w, st, k), backend = "file", backend' = backend
    PROVE  store' = st /\ MovesOn(w, k)
<1>1. Moved(w, "snapshot", job[w].then + 1, job[w].copy, k)
  BY MutateMoves DEF RegistryInv
<1> QED BY <1>1 DEF MutateIssuing, MovesOn

\* ... the database's has it committed.
LEMMA StatementMovesOn ==
    ASSUME RegistryInv, NEW w \in Worker, job[w] # None, job[w].then <= 2, NEW st,
           NEW k \in Cred \cup {None}, StatementIssuing(w, st, k), backend = "postgres", backend' = backend
    PROVE  store' = st /\ MovesOn(w, k)
<1>1. Moved(w, IF job[w].then + 1 = LastMutation(job[w].op) THEN "reply" ELSE "mutate",
            job[w].then + 1, None, k)
  BY StatementMoves DEF RegistryInv
<1> QED BY <1>1 DEF StatementIssuing, MovesOn

\* What a mutation leaves to show: its effect on the maps, and that its own
\* request is as it should be.
LEMMA MutationKept ==
    ASSUME RegistryInv, NEW w \in Worker, NEW i, MovesOn(w, i),
           store' \in Store, StoreSound(store)', Effects(w),
           minted \subseteq minted', minted' \subseteq Device \cup Cred,
           JobSound(w)'
    PROVE  RegistryInv'
<1>1. PICK a \in {"snapshot", IF job[w].then + 1 = LastMutation(job[w].op) THEN "reply" ELSE "mutate"},
           c \in {None, job[w].copy} :
        /\ Moved(w, a, job[w].then + 1, c, i)
        /\ disk' = disk \/ disk' = store'
        /\ IF backend = "file" THEN a = "snapshot" ELSE disk' = store'
        /\ UNCHANGED <<tmp, acked, overlapped, backend>>
  BY DEF MovesOn
<1>2. TypeOK'
  BY <1>1 DEF RegistryInv, TypeOK, Moved
<1>3. \A S \in Store : Kept(S)' => Kept(S) \/ S = store'
  <2> SUFFICES ASSUME NEW S \in Store, Kept(S)', S # store' PROVE Kept(S)
    OBVIOUS
  <2>1. S # None
    OBVIOUS
  <2>2. CASE S = disk' \/ S = tmp'
    BY <1>1, <2>2 DEF Kept
  <2>3. CASE \E v \in Worker : job'[v] # None /\ S = job'[v].copy
    <3>1. PICK v \in Worker : job'[v] # None /\ S = job'[v].copy
      BY <2>3
    <3>2. job[v] # None /\ S = job[v].copy
      BY <1>1, <2>1, <3>1 DEF Moved
    <3> QED BY <3>2 DEF Kept
  <2> QED BY <2>2, <2>3 DEF Kept
<1>4. \A v \in Worker \ {w} : Registering(v) /\ job[w].op # "touch" =>
          job[w].device # job[v].device
  BY <1>1 DEF RegistryInv, JobSound, DeviceIsFresh, Moved
<1>5. ~At(w, "locked")'
  BY <1>1 DEF At, Moved
<1>6. OneActs(w)
  BY <1>1, <1>3, <1>4, <1>5 DEF OneActs, Moved
<1> QED BY <1>1, <1>2, <1>6, InvKept DEF RegistryInv, Moved

\* What is known of the request after a mutation, whatever it was.
LEMMA MovedOn ==
    ASSUME RegistryInv, NEW w \in Worker, NEW i, MovesOn(w, i)
    PROVE  /\ job[w] # None /\ job'[w] # None /\ job[w] \in Job
           /\ job'[w].op = job[w].op /\ job'[w].device = job[w].device
           /\ job'[w].cred = job[w].cred /\ job'[w].then = job[w].then + 1
           /\ job'[w].issued = i
           /\ \A v \in Worker \ {w} : job'[v] = job[v]
           /\ ~At(w, "locked")' /\ ~At(w, "update")'
           /\ At(w, "mutate")' => job'[w].then # LastMutation(job'[w].op)
           /\ At(w, "reply")' => job'[w].then = LastMutation(job'[w].op)
           /\ overlapped' = overlapped /\ backend' = backend
  BY DEF MovesOn, Moved, At, RegistryInv, TypeOK

\* The device of a register, until its credential nobody else's.
LEMMA CreateKept ==
    ASSUME RegistryInv, NEW w \in Worker, Creates(w)
    PROVE  RegistryInv'
<1> USE DEF Creates
<1>1. /\ store' \in Store /\ StoreSound(store)' /\ Effects(w)
      /\ store'.devices[job[w].device] = "active"
  BY MovedOn, CreateEffect
<1>2. JobSound(w)'
  <2>1. DeviceIsFresh(w)'
    <3>1. DeviceIsFresh(w)
      BY DEF RegistryInv, JobSound
    <3>2. \A S \in Store : Kept(S)' => \A k \in Cred : ~Has(S, k, job[w].device)
      <4> SUFFICES ASSUME NEW S \in Store, Kept(S)', NEW k \in Cred
                   PROVE  ~Has(S, k, job[w].device)
        OBVIOUS
      <4>1. CASE Kept(S)
        BY <3>1, <4>1 DEF DeviceIsFresh
      <4>2. CASE S = store'
        <5>1. store'.credentials = store.credentials
          BY DEF RegistryInv, TypeOK, Store
        <5>2. ~Has(store, k, job[w].device)
          BY <3>1 DEF DeviceIsFresh, Kept, RegistryInv, TypeOK
        <5> QED BY <4>2, <5>1, <5>2 DEF Has
      <4>3. Kept(S) \/ S = store'
        BY MovedOn DEF MovesOn, Moved, Kept
      <4> QED BY <4>1, <4>2, <4>3
    <3> QED BY <1>1, <3>1, <3>2, MovedOn DEF DeviceIsFresh, Has
  <2> QED BY <2>1, MovedOn DEF JobSound, Registering, Presenting, Revoked, InFlight, LastMutation,
                              Finished, At
<1> QED BY <1>1, <1>2, MutationKept DEF RegistryInv, TypeOK

\* Its credential.
LEMMA InsertKept ==
    ASSUME RegistryInv, NEW w \in Worker, NEW k \in Cred, Issues(w, k)
    PROVE  RegistryInv'
<1> USE DEF Issues
<1>1. /\ store' \in Store /\ StoreSound(store)' /\ Effects(w)
      /\ IdLive(store', job[w].device, k)
  BY MovedOn, InsertEffect
<1>2. JobSound(w)'
  BY <1>1, MovedOn DEF JobSound, Registering, Presenting, Revoked, InFlight, LastMutation,
                       Finished, At, IdLive, Has, Live
<1> QED BY <1>1, <1>2, MutationKept DEF RegistryInv, TypeOK

\* A refresh, which finds the credential presented still live.
LEMMA RotateKept ==
    ASSUME RegistryInv, NEW w \in Worker, NEW k \in Cred, Rotates(w, k)
    PROVE  RegistryInv'
<1> USE DEF Rotates
<1>1. /\ store' \in Store /\ StoreSound(store)' /\ Effects(w)
      /\ Has(store', k, job[w].device) /\ Has(store', job[w].cred, job[w].device)
  BY MovedOn, RotateEffect
<1>2. Presented(w)
  BY DEF RegistryInv, JobSound
<1>3. JobSound(w)'
  <2>1. Presented(w)'
    BY <1>1, <1>2, MovedOn DEF Presented, Has
  <2>2. InFlight(w)' => job'[w].issued \in minted' /\ Has(store', job'[w].issued, job'[w].device)
    BY <1>1, MovedOn
  <2> QED BY <2>1, <2>2, MovedOn DEF JobSound, Registering, Presenting, Revoked, InFlight,
                                     LastMutation, Finished, At, Has
<1> QED BY <1>1, <1>3, MutationKept DEF RegistryInv, TypeOK

\* The first half of a delete: no credential of the device is left live.
LEMMA RevokeKept ==
    ASSUME RegistryInv, NEW w \in Worker, NEW K \in SUBSET Cred, Revokes(w, K)
    PROVE  RegistryInv'
<1> USE DEF Revokes
<1>1. /\ store' \in Store /\ StoreSound(store)' /\ Effects(w)
      /\ \A k \in Cred : Live(store', k) => Live(store, k) /\ k \notin K
  BY MovedOn, RevokeEffect
<1>2. job[w] # None /\ Presented(w)
  BY MovedOn DEF RegistryInv, JobSound, Presenting
<1>3. Presented(w)'
  <2>1. Has(store', job[w].cred, job[w].device)
    BY <1>1, <1>2 DEF Presented, Effects, Has
  <2> QED BY <1>2, <2>1, MovedOn DEF Presented, Has
<1>4. NoneLive(w)'
  <2> SUFFICES ASSUME DeleteSeesAll', NEW k \in Cred, Has(store', k, job[w].device), Live(store', k)
               PROVE  FALSE
    BY MovedOn DEF NoneLive, Has, Live
  <2>1. DeleteSeesAll
    BY MovedOn DEF DeleteSeesAll
  <2>2. Live(store, k) /\ k \notin K
    BY <1>1
  <2>3. Has(store, k, job[w].device)
    BY <1>1, <2>2 DEF Effects, Has, Live
  <2> QED BY <2>1, <2>2, <2>3
<1>5. JobSound(w)'
  BY <1>3, <1>4, MovedOn DEF JobSound, Registering, Presenting, Revoked, InFlight,
                             LastMutation, Finished, At
<1> QED BY <1>1, <1>5, MutationKept DEF RegistryInv, TypeOK

\* Its second half.
LEMMA DeleteKept ==
    ASSUME RegistryInv, NEW w \in Worker, Deletes(w)
    PROVE  RegistryInv'
<1> USE DEF Deletes
<1>1. /\ store' \in Store /\ StoreSound(store)' /\ Effects(w)
      /\ store'.credentials = store.credentials
  BY MovedOn, DeleteEffect
<1>2. job[w].op = "delete" /\ Presented(w) /\ NoneLive(w)
  BY DEF RegistryInv, JobSound, Presenting, Revoked
<1>3. Presented(w)' /\ NoneLive(w)'
  BY <1>1, <1>2, MovedOn DEF Presented, NoneLive, Has, Live, DeleteSeesAll
<1>4. JobSound(w)'
  BY <1>2, <1>3, MovedOn DEF JobSound, Registering, Presenting, Revoked, InFlight,
                             LastMutation, Finished, At
<1> QED BY <1>1, <1>4, MutationKept DEF RegistryInv, TypeOK

\* A hello's last_seen.
LEMMA TouchKept ==
    ASSUME RegistryInv, NEW w \in Worker, Touches(w)
    PROVE  RegistryInv'
<1> USE DEF Touches
<1>1. store' \in Store /\ StoreSound(store)
  BY DEF RegistryInv, TypeOK, Kept
<1>2. StoreSound(store)'
  BY <1>1, MovedOn DEF StoreSound, Drawn, OneLive, ActiveIfLive, Live, DeleteSeesAll
<1>3. Effects(w)
  BY DEF Effects, Has, RegistryInv, JobSound, LockHolds
<1>4. JobSound(w)'
  BY MovedOn DEF JobSound, Registering, Presenting, Revoked, InFlight, LastMutation, Finished, At
<1> QED BY <1>1, <1>2, <1>3, <1>4, MutationKept DEF RegistryInv, TypeOK

-----------------------------------------------------------------------------
\* A request that only moves on to another stage, or saves: what it saves or
\* copies is a store that is kept already.
LEMMA StageKept ==
    ASSUME RegistryInv, NEW w \in Worker, NEW a \in Stage, NEW c \in Store \cup {None},
           Stages(w, a, c)
    PROVE  RegistryInv'
<1> USE DEF Stages
<1>1. TypeOK'
  BY DEF RegistryInv, TypeOK, Moved
<1>2. \A S \in Store : Kept(S)' => Kept(S)
  BY DEF Kept, Moved
<1>3. \A v \in Worker \ {w} : Registering(v) /\ job[w].op # "touch" =>
          job[w].device # job[v].device
  BY DEF RegistryInv, JobSound, DeviceIsFresh, Moved
<1>4. OneActs(w)
  BY <1>2, <1>3 DEF OneActs, Moved, At
<1>5. JobSound(w) /\ job[w] # None
  BY DEF RegistryInv, Moved
<1>6. JobSound(w)'
  <2>1. Registering(w)' => DeviceIsFresh(w)'
    BY <1>2, <1>5 DEF JobSound, Registering, DeviceIsFresh, Moved, Has
  <2>2. (Presenting(w) => Presented(w))' /\ (Revoked(w) => NoneLive(w))'
    BY <1>5 DEF JobSound, Presenting, Presented, Revoked, NoneLive, Has, Live, DeleteSeesAll, Moved
  <2>3. At(w, "locked")' => LockHolds(w)'
    BY DEF LockHolds, At, Live, DeleteSeesAll, Moved
  <2>4. (InFlight(w) => job[w].issued \in minted /\ Has(store, job[w].issued, job[w].device))'
    BY <1>5 DEF JobSound, InFlight, LastMutation, Has, Moved
  <2>5. /\ (At(w, "reply") => Finished(w))'
        /\ (At(w, "mutate") => job[w].then < LastMutation(job[w].op))'
        /\ (job[w] # None => job[w].then <= LastMutation(job[w].op))'
    BY <1>5 DEF JobSound, Finished, LastMutation, At, Moved
  <2>6. At(w, "update")' => UpdateSaw(w)'
    BY DEF At, Moved
  <2> QED BY <2>1, <2>2, <2>3, <2>4, <2>5, <2>6 DEF JobSound
<1> QED BY <1>1, <1>4, <1>6, InvKept DEF RegistryInv, Moved

\* What serving a request amounts to.
Serves(w) ==
    \/ Creates(w) \/ Deletes(w) \/ Touches(w) \/ Refuses(w)
    \/ \E k \in Cred : Issues(w, k) \/ Rotates(w, k)
    \/ \E K \in SUBSET Cred : Revokes(w, K)
    \/ \E a \in Stage, c \in Store \cup {None} : Stages(w, a, c)

\* Served, or failed by a statement.
Acts(w) == (Serves(w) \/ RequestFails(w)) /\ backend' = backend

\* On the registry file.
LEMMA FileServeActs ==
    ASSUME RegistryInv, NEW w \in Worker, Serve(w), backend = "file", backend' = backend
    PROVE  Serves(w)
<1>1. job[w] # None => job[w] \in Job /\ JobSound(w) /\ job[w].issued \in Cred \cup {None}
  BY DEF RegistryInv, TypeOK, Job
<1>2. ASSUME CreateDevice(w) PROVE Serves(w)
  BY <1>1, <1>2, MutateMovesOn DEF Serves, Creates, CreateDevice, Doing, Mutate, Registering
<1>3. ASSUME NEW k \in Cred, InsertCredential(w, k) PROVE Serves(w)
  BY <1>1, <1>3, MutateMovesOn DEF InsertCredential, Doing, Registering, Serves, Issues
<1>4. ASSUME NEW k \in Cred, RotateRefresh(w, k) PROVE Serves(w)
  <2>1. /\ job[w] # None /\ job[w].op = "refresh" /\ job[w].then = 1
        /\ Live(store, job[w].cred) /\ store.devices[job[w].device] = "active"
        /\ k \notin minted /\ minted' = minted \cup {k} /\ Presenting(w)
    BY <1>4 DEF RotateRefresh, Doing, CanRotate, Presenting
  <2>2. /\ store' = [store EXCEPT
               !.credentials[job[w].cred] = [device |-> job[w].device, revoked |-> TRUE],
               !.credentials[k] = [device |-> job[w].device, revoked |-> FALSE]]
        /\ MovesOn(w, k)
    BY <1>4, <2>1, MutateMovesOn DEF RotateRefresh
  <2>3. \A v \in Worker \ {w} : ~At(v, "locked")
    BY DEF RegistryInv, JobSound, LockHolds
  <2> QED BY <2>1, <2>2, <2>3 DEF Serves, Rotates
<1>5. ASSUME RotateStale(w) \/ SaveRenameFails(w) PROVE Serves(w)
  BY <1>5 DEF Serves, Refuses, RotateStale, SaveRenameFails, Doing, CanRotate, At
<1>6. ASSUME RevokeAllForDevice(w) PROVE Serves(w)
  <2> DEFINE K == {k \in Cred : Live(store, k) /\ store.credentials[k].device = job[w].device}
  <2>1. /\ job[w] # None /\ job[w].op = "delete" /\ job[w].then = 1 /\ minted' = minted
    BY <1>6 DEF RevokeAllForDevice, Doing
  <2>2. /\ store' = [store EXCEPT !.credentials =
               [k \in Cred |-> IF k \in K THEN [store.credentials[k] EXCEPT !.revoked = TRUE]
                               ELSE store.credentials[k]]]
        /\ MovesOn(w, job[w].issued)
    BY <1>1, <1>6, <2>1, MutateMovesOn DEF RevokeAllForDevice, Mutate
  <2>3. \A v \in Worker : ~At(v, "locked")
    BY DEF RegistryInv, JobSound, LockHolds
  <2>4. /\ K \in SUBSET Cred /\ \A k \in K : store.credentials[k] # None
        /\ \A k \in Cred : Has(store, k, job[w].device) /\ Live(store, k) => k \in K
    BY DEF Live, Has
  <2> HIDE DEF K
  <2> QED BY <2>1, <2>2, <2>3, <2>4 DEF Serves, Revokes
<1>7. ASSUME SoftDelete(w) PROVE Serves(w)
  BY <1>1, <1>7, MutateMovesOn DEF SoftDelete, Doing, Mutate, Revoked, Serves, Deletes
<1>8. ASSUME TouchLastSeen(w) PROVE Serves(w)
  BY <1>1, <1>8, MutateMovesOn DEF TouchLastSeen, Doing, Mutate, Serves, Touches
<1>9. ASSUME AlreadyDeleted(w) PROVE Serves(w)
  <2>1. /\ job[w] # None /\ Finished(w) /\ job' = [job EXCEPT ![w].at = "reply"]
        /\ UNCHANGED <<store, disk, tmp, minted, acked, overlapped>>
    BY <1>9 DEF AlreadyDeleted, Doing, Finished
  <2>2. job[w].copy \in Store \cup {None} /\ "reply" \in Stage
    BY <1>1, <2>1 DEF Job, Stage
  <2>3. Moved(w, "reply", job[w].then, job[w].copy, job[w].issued)
    BY <2>1, <2>2, StageMoves DEF RegistryInv
  <2>4. SaveStep(w, "reply", job[w].copy)
    BY <1>9 DEF AlreadyDeleted, Doing, SaveStep, At
  <2> QED BY <2>1, <2>2, <2>3, <2>4 DEF Kept, Serves, Stages
<1>10. ASSUME SaveSnapshot(w) PROVE Serves(w)
  <2>1. /\ job[w] # None /\ job' = [job EXCEPT ![w].copy = store, ![w].at = "write"]
        /\ UNCHANGED <<store, disk, tmp, minted, acked, overlapped>>
    BY <1>10 DEF SaveSnapshot, At
  <2>2. store \in Store /\ "write" \in Stage
    BY DEF RegistryInv, TypeOK, Stage
  <2>3. Moved(w, "write", job[w].then, store, job[w].issued)
    BY <2>1, <2>2, StageMoves DEF RegistryInv
  <2>4. SaveStep(w, "write", store)
    BY <1>10 DEF SaveSnapshot, SaveStep
  <2> QED BY <2>1, <2>2, <2>3, <2>4 DEF Kept, Serves, Stages
<1>11. ASSUME SaveWrite(w) PROVE Serves(w)
  <2>1. /\ job[w] # None /\ job' = [job EXCEPT ![w].copy = None, ![w].at = "rename"]
        /\ tmp' = job[w].copy
        /\ UNCHANGED <<store, disk, minted, acked, overlapped>>
    BY <1>11 DEF SaveWrite, At
  <2>2. "rename" \in Stage /\ job[w].copy \in Store \cup {None}
    BY <1>1, <2>1 DEF Stage, Job
  <2>3. Moved(w, "rename", job[w].then, None, job[w].issued)
    BY <2>1, <2>2, StageMoves DEF RegistryInv
  <2>4. SaveStep(w, "rename", None)
    BY <1>11 DEF SaveWrite, SaveStep
  <2> QED BY <2>1, <2>2, <2>3, <2>4 DEF Kept, Serves, Stages
<1>12. ASSUME SaveRename(w) PROVE Serves(w)
  <2> DEFINE a == IF job[w].then = LastMutation(job[w].op) THEN "reply" ELSE "mutate"
  <2>1. /\ job[w] # None /\ job' = [job EXCEPT ![w].at = a]
        /\ disk' = tmp /\ tmp' = None /\ tmp # None
        /\ UNCHANGED <<store, minted, acked, overlapped>>
    BY <1>12 DEF SaveRename, At
  <2>2. a \in Stage /\ job[w].copy \in Store \cup {None} /\ tmp \in Store
    BY <1>1, <2>1 DEF Stage, Job, RegistryInv, TypeOK
  <2>3. a = "reply" => Finished(w)
    BY DEF Finished
  <2>4. a = "mutate" => job[w].then < LastMutation(job[w].op)
    BY <1>1, <2>1 DEF JobSound, Job, LastMutation
  <2>5. a \in {"reply", "mutate"}
    OBVIOUS
  <2> HIDE DEF a
  <2>6. Moved(w, a, job[w].then, job[w].copy, job[w].issued)
    BY <2>1, <2>2, StageMoves DEF RegistryInv
  <2>7. Kept(tmp) /\ (job[w].copy # None => Kept(job[w].copy))
    BY <2>1 DEF Kept
  <2>8. SaveStep(w, a, job[w].copy)
    BY <1>12, <2>1, <2>2, <2>5 DEF SaveRename, SaveStep
  <2> QED BY <2>1, <2>2, <2>3, <2>4, <2>5, <2>6, <2>7, <2>8 DEF Serves, Stages
<1> QED BY <1>2, <1>3, <1>4, <1>5, <1>6, <1>7, <1>8, <1>9, <1>10, <1>11, <1>12 DEF Serve

\* On Postgres.
LEMMA PostgresServeActs ==
    ASSUME RegistryInv, NEW w \in Worker, PostgresServe(w), backend = "postgres", backend' = backend
    PROVE  Serves(w)
<1>1. job[w] # None => job[w] \in Job /\ JobSound(w) /\ job[w].issued \in Cred \cup {None}
  BY DEF RegistryInv, TypeOK, Job
<1>2. ASSUME InsertDeviceRow(w) PROVE Serves(w)
  BY <1>1, <1>2, StatementMovesOn DEF Serves, Creates, InsertDeviceRow, Doing, Statement, Registering
<1>3. ASSUME NEW k \in Cred, InsertCredentialRow(w, k) PROVE Serves(w)
  BY <1>1, <1>3, StatementMovesOn DEF InsertCredentialRow, Doing, Registering, Serves, Issues
<1>4. ASSUME SelectForUpdate(w) PROVE Serves(w)
  <2>1. /\ job[w] # None /\ job[w].op = "refresh" /\ job[w].then = 1
        /\ ~Locked(job[w].cred) /\ Live(store, job[w].cred)
        /\ store.devices[store.credentials[job[w].cred].device] = "active"
        /\ job' = [job EXCEPT ![w].at = "locked"]
        /\ UNCHANGED <<store, disk, tmp, minted, acked, overlapped>>
    BY <1>4 DEF SelectForUpdate, Doing, FindByHash, JoinRow
  <2>2. Presented(w)
    BY <1>1, <2>1 DEF JobSound, Presenting
  <2>3. \A v \in Worker \ {w} : At(v, "locked") => job[v].cred # job[w].cred
    BY <2>1 DEF Locked
  <2>4. LockHolds(w)
    BY <2>1, <2>2, <2>3 DEF LockHolds, Presented, Has
  <2>5. job[w].copy \in Store \cup {None} /\ "locked" \in Stage
    BY <1>1, <2>1 DEF Job, Stage
  <2>6. Moved(w, "locked", job[w].then, job[w].copy, job[w].issued)
    BY <2>1, <2>5, StageMoves DEF RegistryInv
  <2> QED BY <2>1, <2>3, <2>4, <2>5, <2>6 DEF Kept, Serves, Stages
<1>5. ASSUME StaleRow(w) PROVE Serves(w)
  <2>1. /\ job[w] # None /\ job[w].op = "refresh" /\ job[w].then = 1 /\ At(w, "mutate")
        /\ Fail(w)
        /\ ~(Live(store, job[w].cred)
             /\ store.devices[store.credentials[job[w].cred].device] = "active")
    BY <1>5 DEF StaleRow, Doing, FindByHash, JoinRow, At
  <2>2. store.credentials[job[w].cred].device = job[w].device
    BY <1>1, <2>1 DEF JobSound, Presenting, Presented, Has
  <2> QED BY <2>1, <2>2 DEF Serves, Refuses
<1>6. ASSUME NEW k \in Cred, CommitRotation(w, k) PROVE Serves(w)
  <2>1. /\ At(w, "locked") /\ job[w] # None /\ k \notin minted /\ minted' = minted \cup {k}
    BY <1>6 DEF CommitRotation, At
  <2>2. LockHolds(w)
    BY <1>1, <2>1 DEF JobSound
  <2>3. job[w].op = "refresh" /\ job[w].then = 1 /\ Presenting(w)
    BY <2>1, <2>2 DEF LockHolds, Presenting
  <2>4. /\ store' = [store EXCEPT
               !.credentials[job[w].cred] = [device |-> job[w].device, revoked |-> TRUE],
               !.credentials[k] = [device |-> job[w].device, revoked |-> FALSE]]
        /\ MovesOn(w, k)
    BY <1>6, <2>1, <2>3, StatementMovesOn DEF CommitRotation
  <2> QED BY <2>1, <2>2, <2>3, <2>4 DEF LockHolds, Serves, Rotates
<1>7. ASSUME BeginRevokeAll(w) PROVE Serves(w)
  <2>1. /\ job[w] # None /\ job[w].op = "delete" /\ job[w].then = 1
        /\ job' = [job EXCEPT ![w].at = "update", ![w].copy = store]
        /\ UNCHANGED <<store, disk, tmp, minted, acked, overlapped>>
    BY <1>7 DEF BeginRevokeAll, Doing
  <2>2. store \in Store /\ "update" \in Stage
    BY DEF RegistryInv, TypeOK, Stage
  <2>3. Moved(w, "update", job[w].then, store, job[w].issued)
    BY <2>1, <2>2, StageMoves DEF RegistryInv
  <2>4. UpdateSaw(w)'
    BY <2>1, <2>2, <2>3 DEF UpdateSaw, Moved, Has
  <2> QED BY <2>1, <2>2, <2>3, <2>4 DEF Kept, Serves, Stages
<1>8. ASSUME RevokeAllRows(w) PROVE Serves(w)
  <2> DEFINE K == {k \in Cred : /\ Live(job[w].copy, k)
                                /\ job[w].copy.credentials[k].device = job[w].device}
  <2>1. /\ job[w] # None /\ UpdateSaw(w) /\ minted' = minted /\ \A k \in K : ~Locked(k)
    BY <1>1, <1>8 DEF RevokeAllRows, At, JobSound
  <2>2. job[w].op = "delete" /\ job[w].then = 1
    BY <2>1 DEF UpdateSaw
  <2>3. /\ store' = [store EXCEPT !.credentials =
               [k \in Cred |-> IF k \in K THEN [store.credentials[k] EXCEPT !.revoked = TRUE]
                               ELSE store.credentials[k]]]
        /\ MovesOn(w, job[w].issued)
    BY <1>1, <1>8, <2>1, <2>2, StatementMovesOn DEF RevokeAllRows, Statement
  <2>4. /\ K \in SUBSET Cred
        /\ \A k \in K : store.credentials[k] # None
        /\ DeleteSeesAll => \A k \in Cred : Has(store, k, job[w].device) /\ Live(store, k) => k \in K
    BY <2>1 DEF UpdateSaw, Live, Has
  <2>5. \A v \in Worker : At(v, "locked") => job[v].cred \notin K
    BY <2>1 DEF Locked
  <2> HIDE DEF K
  <2> QED BY <2>1, <2>2, <2>3, <2>4, <2>5 DEF Serves, Revokes
<1>9. ASSUME SoftDeleteRow(w) PROVE Serves(w)
  BY <1>1, <1>9, StatementMovesOn DEF SoftDeleteRow, Doing, Statement, Revoked, Serves, Deletes
<1>10. ASSUME TouchRow(w) PROVE Serves(w)
  BY <1>1, <1>10, StatementMovesOn DEF TouchRow, Doing, Statement, Serves, Touches
<1> QED BY <1>2, <1>3, <1>4, <1>5, <1>6, <1>7, <1>8, <1>9, <1>10 DEF PostgresServe

\* On either.
LEMMA ServeActs ==
    ASSUME RegistryInv, NEW w \in Worker, ServeStep(w), backend' = backend
    PROVE  Serves(w)
<1>1. backend \in {"file", "postgres"}
  BY DEF RegistryInv
<1> QED BY <1>1, FileServeActs, PostgresServeActs DEF ServeStep

\* A request that fails changes nothing.
LEMMA EndsIs ==
    ASSUME NEW w \in Worker, Acts(w), Refuses(w) \/ RequestFails(w)
    PROVE  /\ job[w] # None /\ job' = [job EXCEPT ![w] = None]
           /\ UNCHANGED <<store, disk, tmp, minted, acked, overlapped, backend>>
<1>1. CASE Refuses(w)
  BY <1>1 DEF Refuses, Fail
<1>2. CASE RequestFails(w)
  BY <1>2 DEF RequestFails, SaveFails, At, StatementFails, Fail, Acts
<1> QED BY <1>1, <1>2

\* Serving keeps the registry's invariant.
LEMMA ActsKeepInv ==
    ASSUME RegistryInv, NEW w \in Worker, Acts(w)
    PROVE  RegistryInv'
<1>1. CASE Creates(w) \/ Deletes(w) \/ Touches(w)
  BY <1>1, CreateKept, DeleteKept, TouchKept
<1>2. ASSUME NEW k \in Cred, Issues(w, k) \/ Rotates(w, k) PROVE RegistryInv'
  BY <1>2, InsertKept, RotateKept
<1>3. ASSUME NEW K \in SUBSET Cred, Revokes(w, K) PROVE RegistryInv'
  BY <1>3, RevokeKept
<1>4. ASSUME NEW a \in Stage, NEW c \in Store \cup {None}, Stages(w, a, c) PROVE RegistryInv'
  BY <1>4, StageKept
<1>5. CASE Refuses(w) \/ RequestFails(w)
  <2>1. /\ job' = [job EXCEPT ![w] = None]
        /\ UNCHANGED <<store, disk, tmp, minted, acked, overlapped, backend>>
    BY <1>5, EndsIs
  <2>2. TypeOK'
    BY <2>1 DEF RegistryInv, TypeOK
  <2> QED BY <2>1, <2>2, EndKeepsInv
<1> QED BY <1>1, <1>2, <1>3, <1>4, <1>5 DEF Acts, Serves

\* Every step of the registry keeps its invariant.
LEMMA RegistryInvStep ==
    ASSUME RegistryInv, RegistryStep
    PROVE  RegistryInv'
<1> USE DEF RegistryStep
<1>1. ASSUME NEW w \in Worker, Arrive(w) PROVE RegistryInv'
  BY <1>1, StartRegisterKeepsInv, StartTouchKeepsInv, StartWithKeepsInv DEF Arrive
<1>2. ASSUME NEW w \in Worker, ServeStep(w) \/ RequestFails(w) PROVE RegistryInv'
  BY <1>2, ServeActs, ActsKeepInv DEF Acts
<1>3. ASSUME NEW w \in Worker, Reply(w) PROVE RegistryInv'
  <2>1. /\ job' = [job EXCEPT ![w] = None]
        /\ UNCHANGED <<store, disk, tmp, minted, overlapped>>
    BY <1>3 DEF Reply
  <2>2. acked' \subseteq ({"registered", "deleted"} \X Device) \cup ({"rotated"} \X Cred)
    <3>1. job[w] \in Job /\ job[w].op \in Op /\ job[w].device \in Device
      BY <1>3 DEF Reply, At, RegistryInv, TypeOK, Job
    <3>2. job[w].op = "refresh" => job[w].cred \in Cred
      BY <1>3 DEF Reply, At, RegistryInv, JobSound, Presenting, Presented
    <3> QED BY <1>3, <3>1, <3>2 DEF Reply, Op, RegistryInv, TypeOK
  <2>3. TypeOK'
    BY <2>1, <2>2 DEF RegistryInv, TypeOK
  <2> QED BY <2>1, <2>3, EndKeepsInv
<1>4. ASSUME ServerRestarts PROVE RegistryInv'
  BY <1>4, RestartKeepsInv
<1>5. ASSUME UNCHANGED vars PROVE RegistryInv'
  <2>1. \A w \in Worker : JobSound(w)'
    BY <1>5 DEF vars, RegistryInv, JobSound, Registering, DeviceIsFresh, Presenting, Presented,
                Revoked, NoneLive, At, LockHolds, UpdateSaw, InFlight, Finished, Kept,
                DeleteSeesAll, Live, Has
  <2>2. \A S \in Store : Kept(S)' => StoreSound(S)'
    BY <1>5, StoreSoundStays DEF vars, RegistryInv, Kept
  <2> QED BY <1>5, <2>1, <2>2 DEF vars, RegistryInv, TypeOK
<1> QED BY <1>1, <1>2, <1>3, <1>4, <1>5

-----------------------------------------------------------------------------
\* Serving changes no request but its own, and of that neither what it asks
\* for nor what it presents.
LEMMA ActsOnOne ==
    ASSUME RegistryInv, NEW w \in Worker, Acts(w)
    PROVE  /\ \A v \in Worker \ {w} : job'[v] = job[v]
           /\ job[w] # None
           /\ \/ job'[w] = None
              \/ /\ job'[w] # None /\ job'[w].op = job[w].op
                 /\ job'[w].device = job[w].device /\ job'[w].cred = job[w].cred
           /\ acked' = acked /\ overlapped' = overlapped /\ backend' = backend
           /\ minted \subseteq minted'
<1>1. CASE Creates(w) \/ Deletes(w) \/ Touches(w)
  BY <1>1 DEF Creates, Deletes, Touches, MovesOn, Moved
<1>2. ASSUME NEW k \in Cred, Issues(w, k) \/ Rotates(w, k)
      PROVE  /\ \E i : MovesOn(w, i)
             /\ minted \subseteq minted'
  BY <1>2 DEF Issues, Rotates
<1>3. ASSUME NEW K \in SUBSET Cred, Revokes(w, K)
      PROVE  /\ \E i : MovesOn(w, i)
             /\ minted \subseteq minted'
  BY <1>3 DEF Revokes
<1>4. ASSUME NEW a \in Stage, NEW c \in Store \cup {None}, Stages(w, a, c)
      PROVE  /\ \E b, n, e, i : Moved(w, b, n, e, i)
             /\ UNCHANGED <<minted, acked, overlapped, backend>>
  BY <1>4 DEF Stages
<1>5. CASE Refuses(w) \/ RequestFails(w)
  BY <1>5, EndsIs DEF RegistryInv, TypeOK
<1> QED BY <1>1, <1>2, <1>3, <1>4, <1>5 DEF Acts, Serves, MovesOn, Moved

\* What a request of the host, or of any client, presents.
LEMMA ArriveIs ==
    ASSUME RegistryInv, NEW w \in Worker, Arrive(w)
    PROVE  /\ \A v \in Worker \ {w} : job'[v] = job[v]
           /\ job[w] = None /\ job'[w] # None
           /\ job'[w].cred \in Cred => job'[w].cred \in minted
           /\ minted \subseteq minted'
<1>1. ASSUME NEW d \in Device, StartRegister(w, d) \/ StartTouch(w, d)
      PROVE  /\ \A v \in Worker \ {w} : job'[v] = job[v]
             /\ job[w] = None /\ job'[w] # None /\ job'[w].cred = None
             /\ minted \subseteq minted'
  BY <1>1, BeginIs DEF StartRegister, StartTouch, RegistryInv, Op
<1>2. ASSUME NEW op \in {"refresh", "delete"}, NEW k \in Cred, StartWith(w, op, k)
      PROVE  /\ \A v \in Worker \ {w} : job'[v] = job[v]
             /\ job[w] = None /\ job'[w] # None /\ job'[w].cred = k
             /\ minted = minted'
  <2>1. store.credentials[k].device \in Device
    BY <1>2 DEF StartWith, Live, RegistryInv, TypeOK, Store, Credential
  <2> QED BY <1>2, <2>1, BeginIs DEF StartWith, RegistryInv, Op
<1>3. ASSUME NEW op \in {"refresh", "delete"}, NEW k \in Cred, StartWith(w, op, k)
      PROVE  k \in minted
  BY <1>3 DEF StartWith, Live, RegistryInv, TypeOK, Kept, StoreSound, Drawn
<1> QED BY <1>1, <1>2, <1>3 DEF Arrive

\* The host sends a request.
LEMMA SendTyped ==
    ASSUME HostTypes, NEW pc \in {"refresh", "register"}, NEW k \in Cred \cup {None},
           Send(pc, k), k # None => HostHas(k), fault' \in BOOLEAN, clients = "host",
           UNCHANGED <<clients, creds, from, vars>>
    PROVE  HostTypes'
<1> DEFINE m == [attempt |-> host.attempt + 1, cred |-> k]
<1>1. /\ m \in [attempt : 1 .. MaxAttempts, cred : Cred \cup {None}] /\ m.cred = k
      /\ wire' = wire \cup {m}
  BY DEF HostTypes, EnrolmentTypeOK, Send
<1>2. /\ host' \in [pc : Phase, attempt : 0 .. MaxAttempts, id : Identity \cup {None},
                    registered : BOOLEAN]
      /\ host'.pc = pc /\ host'.attempt = host.attempt + 1 /\ host'.id = host.id
      /\ host.attempt \in Nat
  <2>1. /\ host \in [pc : Phase, attempt : 0 .. MaxAttempts, id : Identity \cup {None},
                     registered : BOOLEAN]
        /\ host.attempt < MaxAttempts /\ pc \in Phase
        /\ host' = [host EXCEPT !.pc = pc, !.attempt = @ + 1]
    BY DEF HostTypes, EnrolmentTypeOK, Send, Phase
  <2>2. host.attempt \in 0 .. MaxAttempts /\ host.attempt + 1 \in 0 .. MaxAttempts
    BY <2>1
  <2>3. host.id \in Identity \cup {None} /\ host.registered \in BOOLEAN
    BY <2>1
  <2>4. host' = [pc |-> pc, attempt |-> host.attempt + 1, id |-> host.id,
                 registered |-> host.registered]
    BY <2>1
  <2> QED BY <2>1, <2>2, <2>3, <2>4
<1> HIDE DEF m
<1>3. EnrolmentTypeOK'
  BY <1>1, <1>2 DEF HostTypes, EnrolmentTypeOK
<1>4. ASSUME NEW l \in Cred, (HostHas(l) \/ HostSent(l))'
      PROVE  l \in minted'
  <2>1. HostHas(l)' => HostHas(l)
    BY <1>2 DEF HostHas
  <2>2. HostSent(l)' => HostSent(l) \/ l = k
    BY <1>1 DEF HostSent, vars
  <2> QED BY <1>4, <2>1, <2>2 DEF HostTypes, vars
<1> QED BY <1>2, <1>3, <1>4 DEF HostTypes, vars

\* What sending makes of the host and of the wire.
LEMMA SendIs ==
    ASSUME HostTypes, NEW pc \in Phase, NEW k \in Cred \cup {None}, Send(pc, k)
    PROVE  /\ host'.pc = pc /\ host'.id = host.id /\ host'.attempt = host.attempt + 1
           /\ host.attempt \in Nat
           /\ \A m \in wire' : m \in wire \/ (m.attempt = host.attempt + 1 /\ m.cred = k)
           /\ \E m \in wire' : m.attempt = host.attempt + 1 /\ m.cred = k
<1>1. host \in [pc : Phase, attempt : 0 .. MaxAttempts, id : Identity \cup {None},
                registered : BOOLEAN]
  BY DEF HostTypes, EnrolmentTypeOK
<1>2. host' = [host EXCEPT !.pc = pc, !.attempt = @ + 1]
  BY DEF Send
<1> DEFINE n == [attempt |-> host.attempt + 1, cred |-> k]
<1>3. wire' = wire \cup {n} /\ n.attempt = host.attempt + 1 /\ n.cred = k
  BY DEF Send
<1> HIDE DEF n
<1>4. host.attempt \in Nat /\ host'.pc = pc /\ host'.id = host.id /\ host'.attempt = host.attempt + 1
  BY <1>1, <1>2
<1> QED BY <1>3, <1>4

\* The types of the host's side, with what depends on its phase.
LEMMA HostTypesStep ==
    ASSUME RegistryInv, HostTypes, [EnrolmentNext]_<<vars, backend, hvars>>
    PROVE  HostTypes'
<1> DEFINE Hosts == [pc : Phase, attempt : 0 .. MaxAttempts, id : Identity \cup {None},
                     registered : BOOLEAN]
<1>1. /\ host \in Hosts /\ creds \in Identity \cup {None, Torn} /\ fault \in BOOLEAN
      /\ from \in [Worker -> 0 .. MaxAttempts]
      /\ wire \subseteq [attempt : 1 .. MaxAttempts, cred : Cred \cup {None}]
      /\ clients \in Clients
  BY DEF HostTypes, EnrolmentTypeOK
<1>2. CASE UNCHANGED <<vars, backend, hvars>>
  BY <1>2 DEF vars, hvars, HostTypes, EnrolmentTypeOK, Waiting, HostHas, HostSent
<1>3. ASSUME \E w \in Worker : ServeStep(w) \/ RequestFails(w), UNCHANGED backend,
             UNCHANGED <<clients, host, creds, wire, from>>, fault' \in BOOLEAN
      PROVE  HostTypes'
  <2>1. PICK w \in Worker : Acts(w)
    BY <1>3, ServeActs DEF Acts
  <2>2. /\ \A v \in Worker : job'[v] # None => job[v] # None /\ job'[v].op = job[v].op
                                               /\ job'[v].cred = job[v].cred
        /\ minted \subseteq minted'
    BY <2>1, ActsOnOne
  <2>3. HostTypes!1'
    BY <1>3 DEF HostTypes, EnrolmentTypeOK
  <2> QED BY <1>3, <2>2, <2>3 DEF HostTypes, Waiting, HostHas, HostSent
<1>4. ASSUME ServerRestarts, UNCHANGED backend,
             UNCHANGED <<clients, host, creds, wire, from>>, fault' \in BOOLEAN
      PROVE  HostTypes'
  <2>1. job' = [w \in Worker |-> None] /\ minted' = minted
    BY <1>4 DEF ServerRestarts, Restart, Reconnect
  <2>2. HostTypes!1'
    BY <1>4 DEF HostTypes, EnrolmentTypeOK
  <2> QED BY <1>4, <2>1, <2>2 DEF HostTypes, Waiting, HostHas, HostSent
<1>5. CASE clients = "any" /\ AnyNext
  <2>1. UNCHANGED <<clients, host, creds, wire, from, fault, backend>> /\ clients = "any"
    BY <1>5 DEF AnyNext, hvars
  <2>2. ASSUME NEW w \in Worker, Arrive(w) \/ Reply(w) PROVE HostTypes'
    <3>1. /\ \A v \in Worker : job'[v] # None /\ job'[v].cred \in Cred =>
                  job'[v].cred \in minted' \/ (job[v] # None /\ job'[v].cred = job[v].cred)
          /\ minted \subseteq minted'
      BY <2>2, ArriveIs DEF Reply, RegistryInv, TypeOK
    <3>2. HostTypes!1'
      BY <2>1 DEF HostTypes, EnrolmentTypeOK
    <3> QED BY <2>1, <3>1, <3>2 DEF HostTypes, Waiting, HostHas, HostSent
  <2> QED BY <1>1, <1>3, <1>4, <1>5, <2>1, <2>2 DEF AnyNext
<1>6. CASE clients = "host" /\ HostNext
  <2>1. CASE (LoadCreds \/ NoCreds \/ RequestRefused \/ RequestTimesOut) /\ UNCHANGED backend
    <3>1. CASE LoadCreds
      <4>1. creds[2] \in Cred /\ HostHas(creds[2])
        BY <1>1, <3>1 DEF LoadCreds, Identity, HostHas
      <4> QED BY <1>1, <1>6, <3>1, <4>1, SendTyped DEF LoadCreds
    <3>2. CASE NoCreds
      BY <1>1, <1>6, <3>2, SendTyped DEF NoCreds
    <3>3. CASE RequestRefused \/ RequestTimesOut
      <4>1. CASE Send("register", None)
        BY <1>1, <1>6, <3>3, <4>1, SendTyped DEF RequestRefused, RequestTimesOut
      <4>2. CASE host' = [host EXCEPT !.pc = "failed"] /\ UNCHANGED wire
        <5>1. host' \in Hosts /\ host'.pc = "failed" /\ host'.id = host.id
          BY <1>1, <4>2 DEF Phase
        <5>2. UNCHANGED <<clients, creds, from, wire, vars>> /\ fault' \in BOOLEAN
          BY <1>1, <3>3, <4>2 DEF RequestRefused, RequestTimesOut
        <5>3. HostTypes!1'
          BY <1>1, <5>1, <5>2 DEF EnrolmentTypeOK
        <5> QED BY <1>6, <5>1, <5>2, <5>3 DEF HostTypes, Waiting, HostHas, HostSent, vars
      <4> QED BY <3>3, <4>1, <4>2 DEF RequestRefused, RequestTimesOut, AfterError
    <3> QED BY <2>1, <3>1, <3>2, <3>3
  <2>2. CASE SaveCreds \/ SaveCredsFails \/ HostStops
    <3>1. /\ host' \in Hosts /\ host'.pc \in {"enrolled", "failed", "down"}
          /\ host'.id \in {host.id, None} /\ (host'.pc = "enrolled" => host'.id # None)
      <4>1. CASE SaveCreds \/ SaveCredsFails
        BY <1>1, <4>1 DEF SaveCreds, SaveCredsFails, Phase, HostTypes
      <4>2. CASE HostStops
        BY <1>1, <4>2 DEF HostStops, Phase
      <4> QED BY <2>2, <4>1, <4>2
    <3>2. /\ UNCHANGED <<clients, wire, from, vars>> /\ fault' \in BOOLEAN
          /\ creds' \in {creds, Torn, host.id} /\ (creds' = host.id => creds' = creds \/ host.id # None)
      BY <1>1, <2>2 DEF SaveCreds, SaveCredsFails, HostStops, HostTypes
    <3>3. HostTypes!1'
      BY <1>1, <3>1, <3>2 DEF EnrolmentTypeOK
    <3>4. ASSUME NEW k \in Cred, HostHas(k)' PROVE HostHas(k)
      BY <3>1, <3>2, <3>4 DEF HostHas
    <3> QED BY <1>6, <3>1, <3>2, <3>3, <3>4 DEF HostTypes, Waiting, HostSent, vars
  <2>3. ASSUME NEW m \in wire, LoseRequest(m) \/ RefuseRequest(m) PROVE HostTypes'
    <3>1. /\ UNCHANGED <<clients, host, creds, from, vars>> /\ fault' \in BOOLEAN
          /\ wire' \subseteq wire
      BY <1>1, <2>3 DEF LoseRequest, RefuseRequest
    <3>2. HostTypes!1'
      BY <1>1, <3>1 DEF EnrolmentTypeOK
    <3> QED BY <1>6, <3>1, <3>2 DEF HostTypes, Waiting, HostHas, HostSent, vars
  <2>4. ASSUME NEW m \in wire, NEW w \in Worker, ReceiveRequest(w, m) PROVE HostTypes'
    <3>1. /\ UNCHANGED <<clients, host, creds, fault>> /\ wire' = wire \ {m}
          /\ from' = [from EXCEPT ![w] = m.attempt]
      BY <2>4 DEF ReceiveRequest
    <3>2. HostTypes!1'
      BY <1>1, <3>1 DEF EnrolmentTypeOK
    <3>3. Arrive(w) /\ job'[w].op \in {"register", "refresh"}
      <4>1. CASE m.cred = None
        <5>1. PICK d \in Device : StartRegister(w, d)
          BY <2>4, <4>1 DEF ReceiveRequest
        <5> QED BY <5>1, BeginIs DEF StartRegister, Arrive, RegistryInv, Op
      <4>2. CASE m.cred # None
        <5>1. m.cred \in Cred /\ StartWith(w, "refresh", m.cred)
          BY <1>1, <2>4, <4>2 DEF ReceiveRequest
        <5>2. store.credentials[m.cred].device \in Device
          BY <5>1 DEF StartWith, Live, RegistryInv, TypeOK, Store, Credential
        <5> QED BY <5>1, <5>2, BeginIs DEF StartWith, Arrive, RegistryInv, Op
      <4> QED BY <4>1, <4>2
    <3>4. /\ \A v \in Worker \ {w} : job'[v] = job[v] /\ from'[v] = from[v]
          /\ minted \subseteq minted' /\ job'[w] # None
          /\ job'[w].cred \in Cred => job'[w].cred \in minted'
          /\ from'[w] # 0
      BY <1>1, <3>1, <3>3, ArriveIs
    <3>5. HostTypes!4'
      BY <3>3, <3>4 DEF HostTypes
    <3>6. HostTypes!6'
      BY <3>1, <3>3, <3>4 DEF HostTypes
    <3>7. HostTypes!7'
      BY <3>1, <3>4 DEF HostTypes, HostHas, HostSent
    <3> QED BY <1>6, <3>1, <3>2, <3>5, <3>6, <3>7 DEF HostTypes, Waiting
  <2>5. ASSUME NEW w \in Worker, Hello(w) PROVE HostTypes'
    <3>1. /\ UNCHANGED <<clients, host, creds, wire, fault>>
          /\ from' = [from EXCEPT ![w] = 0]
          /\ host.id[1] \in Device /\ StartTouch(w, host.id[1])
      BY <1>1, <2>5 DEF Hello, HostTypes, Identity
    <3>2. /\ \A v \in Worker \ {w} : job'[v] = job[v] /\ from'[v] = from[v]
          /\ minted = minted' /\ job'[w].cred = None /\ from'[w] = 0
          /\ job'[w].op = "touch"
      BY <1>1, <3>1, BeginIs DEF StartTouch, RegistryInv, Op
    <3>3. HostTypes!1'
      BY <1>1, <3>1 DEF EnrolmentTypeOK
    <3>4. HostTypes!4'
      BY <3>2 DEF HostTypes
    <3>5. HostTypes!6'
      BY <3>1, <3>2 DEF HostTypes
    <3>6. HostTypes!7'
      BY <3>1, <3>2 DEF HostTypes, HostHas, HostSent
    <3> QED BY <1>6, <3>1, <3>3, <3>4, <3>5, <3>6 DEF HostTypes, Waiting
  <2>6. ASSUME NEW w \in Worker, GetReply(w) \/ ReplyUnheard(w) PROVE HostTypes'
    <3>1. /\ UNCHANGED <<clients, creds, wire, minted>> /\ fault' \in BOOLEAN
          /\ from' = [from EXCEPT ![w] = 0]
          /\ job' = [job EXCEPT ![w] = None] /\ At(w, "reply")
      BY <1>1, <2>6 DEF GetReply, ReplyUnheard, Reply
    <3>2. /\ \A v \in Worker \ {w} : job'[v] = job[v] /\ from'[v] = from[v]
          /\ job'[w] = None
      BY <1>1, <3>1 DEF RegistryInv, TypeOK
    <3>3. CASE host' = host
      <4>1. HostTypes!1'
        BY <1>1, <3>1, <3>3 DEF EnrolmentTypeOK
      <4> QED BY <1>6, <3>1, <3>2, <3>3, <4>1 DEF HostTypes, Waiting, HostHas, HostSent
    <3>4. CASE GetReply(w)
      <4>1. /\ host' = [host EXCEPT !.pc = "save", !.id = <<job[w].device, job[w].issued>>,
                                    !.registered = host.pc = "register"]
            /\ from[w] # 0 /\ job[w] # None /\ job[w] \in Job
        BY <1>1, <3>1, <3>4 DEF GetReply, HostTypes, At, RegistryInv, TypeOK
      <4>2. job[w].issued \in minted /\ job[w].issued \in Cred /\ job[w].device \in Device
        <5>1. job[w].op \in {"register", "refresh"}
          BY <4>1 DEF HostTypes
        <5>2. InFlight(w)
          BY <3>1, <4>1, <5>1 DEF RegistryInv, JobSound, Finished, InFlight
        <5> QED BY <4>1, <5>2 DEF RegistryInv, JobSound, TypeOK, Job
      <4>3. <<job[w].device, job[w].issued>> \in Identity
        BY <4>2 DEF Identity
      <4>4. /\ host' \in Hosts /\ host'.pc = "save" /\ host'.id = <<job[w].device, job[w].issued>>
        BY <1>1, <4>1, <4>3 DEF Phase
      <4>5. HostTypes!1'
        BY <1>1, <3>1, <4>4 DEF EnrolmentTypeOK
      <4>6. ASSUME NEW k \in Cred, HostHas(k)' PROVE k \in minted
        BY <3>1, <4>2, <4>4, <4>6 DEF HostHas, HostTypes
      <4>7. ASSUME NEW k \in Cred, HostSent(k)' PROVE k \in minted
        BY <3>1, <3>2, <4>7 DEF HostSent, HostTypes
      <4>8. host'.id # None
        BY <4>3, <4>4 DEF Identity
      <4> QED BY <1>6, <3>1, <3>2, <4>4, <4>5, <4>6, <4>7, <4>8 DEF HostTypes, Waiting
    <3> QED BY <2>6, <3>3, <3>4 DEF ReplyUnheard
  <2>7. CASE Server /\ UNCHANGED <<clients, host, creds, wire, from>>
    BY <1>1, <1>3, <1>4, <2>7 DEF Server
  <2> QED BY <1>6, <2>1, <2>2, <2>3, <2>4, <2>5, <2>6, <2>7 DEF HostNext
<1> QED BY <1>2, <1>5, <1>6 DEF EnrolmentNext

-----------------------------------------------------------------------------
\* The invariants hold in the beginning.
LEMMA RegistryInvInit ==
    ASSUME EnrolmentInit
    PROVE  RegistryInv /\ HostTypes
<1>1. /\ store = EmptyStore /\ disk = EmptyStore /\ tmp = None
      /\ job = [w \in Worker |-> None] /\ minted = {} /\ acked = {} /\ overlapped = FALSE
      /\ backend \in Backend /\ clients \in Clients
      /\ host = [pc |-> "down", attempt |-> 0, id |-> None, registered |-> FALSE]
      /\ creds = None /\ wire = {} /\ from = [w \in Worker |-> 0] /\ fault = FALSE
  BY DEF EnrolmentInit, Init
<1>2. /\ EmptyStore \in Store
      /\ \A k \in Cred : EmptyStore.credentials[k] = None
      /\ \A d \in Device : EmptyStore.devices[d] = "absent"
  BY DEF EmptyStore, Store, Status
<1>3. TypeOK
  BY <1>1, <1>2 DEF TypeOK
<1>4. \A S \in Store : Kept(S) => StoreSound(S)
  <2>1. \A S \in Store : Kept(S) => S = EmptyStore
    BY <1>1 DEF Kept
  <2>2. StoreSound(EmptyStore)
    BY <1>2 DEF StoreSound, Drawn, OneLive, ActiveIfLive, Live
  <2> QED BY <2>1, <2>2
<1>5. \A w \in Worker : JobSound(w)
  BY <1>1 DEF JobSound, Registering, Presenting, Revoked, At, InFlight
<1>6. RegistryInv
  BY <1>1, <1>3, <1>4, <1>5 DEF RegistryInv
<1>7. EnrolmentTypeOK
  <2>1. 0 \in 0 .. MaxAttempts /\ "down" \in Phase
    BY DEF Phase
  <2>2. host \in [pc : Phase, attempt : 0 .. MaxAttempts, id : Identity \cup {None},
                  registered : BOOLEAN]
    BY <1>1, <2>1
  <2>3. from \in [Worker -> 0 .. MaxAttempts]
    BY <1>1, <2>1
  <2> QED BY <1>1, <2>2, <2>3 DEF EnrolmentTypeOK
<1>8. HostTypes
  BY <1>1, <1>7 DEF HostTypes, Waiting, HostHas, HostSent
<1> QED BY <1>6, <1>8

\* Both hold in every reachable state.
LEMMA RegistryInvHolds == EnrolmentSpec => [](RegistryInv /\ HostTypes)
<1>1. EnrolmentInit => RegistryInv /\ HostTypes
  BY RegistryInvInit
<1>2. RegistryInv /\ HostTypes /\ [EnrolmentNext]_<<vars, backend, hvars>>
          => (RegistryInv /\ HostTypes)'
  BY StepIsRegistryStep, RegistryInvStep, HostTypesStep
<1> QED BY <1>1, <1>2, PTL DEF EnrolmentSpec

\* The credentials a device can be used with, on both repositories and
\* whatever requests overlap: of several refreshes with one token one
\* succeeds, and a deleted device has none left, on Postgres as long as no
\* request has run beside another.
THEOREM CredentialsCorrect == EnrolmentSpec => []CredentialsSound
<1>1. RegistryInv => CredentialsSound
  <2> SUFFICES ASSUME RegistryInv PROVE CredentialsSound
    OBVIOUS
  <2>1. \A S \in {store, disk} : StoreSound(S)
    BY DEF RegistryInv, TypeOK, Kept
  <2> QED BY <2>1 DEF RegistryInv, CredentialsSound, OneLiveCredential, DeletedHasNoCredential,
                      StoreSound, OneLive, ActiveIfLive, DeleteSeesAll
<1> QED BY <1>1, RegistryInvHolds, PTL

-----------------------------------------------------------------------------
\* A mutation: its effect on the maps, and what has become of its request.
Mutates(w) ==
    /\ Effects(w) /\ store' \in Store
    /\ \E i : MovesOn(w, i) /\ (InFlight(w)' => i \in Cred \ minted /\ Live(store', i)
                                                 /\ Has(store', i, job[w].device))
    /\ \A d \in Device : store'.devices[d] # store.devices[d] =>
           job[w].op = "delete" \/ store'.devices[d] = "active"
    /\ \A k \in Cred : Live(store, k) /\ ~Live(store', k) =>
           job[w].op = "delete" \/ (job[w].op = "refresh" /\ k = job[w].cred)
    /\ (job[w].op = "register" => store'.devices[job[w].device] = "active")
    /\ (job[w].op = "delete" /\ job[w].then = 2 => store'.devices[job[w].device] = "deleted")
    /\ (job[w].op = "refresh" => ~Live(store', job[w].cred))

\* A request that is served mutates the maps, moves on to another stage or is refused.
LEMMA ServesMutates ==
    ASSUME RegistryInv, NEW w \in Worker, Serves(w)
    PROVE  \/ Mutates(w)
           \/ \E a \in Stage, c \in Store \cup {None} : Stages(w, a, c)
           \/ Refuses(w)
<1>1. CASE Creates(w)
  <2>1. /\ Effects(w) /\ store' \in Store /\ store'.devices[job[w].device] = "active"
        /\ store'.credentials = store.credentials
    BY <1>1, CreateEffect DEF Creates, Registering, MovesOn, RegistryInv, TypeOK, Store
  <2>2. /\ MovesOn(w, job[w].issued) /\ job[w].op = "register" /\ ~InFlight(w)'
    BY <1>1, MovedOn DEF Creates, Registering, InFlight, LastMutation
  <2> QED BY <2>1, <2>2 DEF Mutates, Effects, Live
<1>2. ASSUME NEW k \in Cred, Issues(w, k) PROVE Mutates(w)
  <2>1. Effects(w) /\ store' \in Store /\ IdLive(store', job[w].device, k)
    BY <1>2, InsertEffect DEF Issues, Registering, MovesOn
  <2>2. MovesOn(w, k) /\ job[w].op = "register" /\ k \notin minted
    BY <1>2 DEF Issues, Registering
  <2>3. \A l \in Cred : Live(store, l) => Live(store', l)
    <3>1. store.credentials[k] = None
      BY <1>2 DEF Issues, RegistryInv, TypeOK, Kept, StoreSound, Drawn
    <3>2. \A l \in Cred \ {k} : store'.credentials[l] = store.credentials[l]
      BY <1>2 DEF Issues, RegistryInv, TypeOK, Store
    <3> QED BY <3>1, <3>2 DEF Live
  <2>4. \A d \in Device : store'.devices[d] = store.devices[d]
    BY <1>2 DEF Issues, RegistryInv, TypeOK, Store
  <2> QED BY <2>1, <2>2, <2>3, <2>4 DEF Mutates, IdLive, Has, Live
<1>3. ASSUME NEW k \in Cred, Rotates(w, k) PROVE Mutates(w)
  <2>1. /\ Effects(w) /\ store' \in Store /\ Live(store', k) /\ Has(store', k, job[w].device)
        /\ store'.devices = store.devices /\ ~Live(store', job[w].cred)
        /\ \A l \in Cred \ {job[w].cred} : Live(store, l) => Live(store', l)
    BY <1>3, RotateEffect DEF Rotates, MovesOn
  <2>2. MovesOn(w, k) /\ job[w].op = "refresh" /\ k \notin minted
    BY <1>3 DEF Rotates
  <2> QED BY <2>1, <2>2 DEF Mutates
<1>4. ASSUME NEW K \in SUBSET Cred, Revokes(w, K) PROVE Mutates(w)
  <2>1. /\ UNCHANGED <<minted, overlapped, backend>> /\ MovesOn(w, job[w].issued)
        /\ job[w].op = "delete" /\ job[w].then = 1
    BY <1>4 DEF Revokes, MovesOn
  <2>2. Effects(w) /\ store' \in Store
    BY <1>4, <2>1, RevokeEffect DEF Revokes
  <2>3. ~InFlight(w)'
    BY <2>1, MovedOn DEF InFlight
  <2> QED BY <2>1, <2>2, <2>3 DEF Mutates
<1>5. CASE Deletes(w)
  <2>1. /\ UNCHANGED <<minted, overlapped, backend>> /\ MovesOn(w, job[w].issued)
        /\ job[w].op = "delete"
    BY <1>5 DEF Deletes, MovesOn, Revoked
  <2>2. Effects(w) /\ store' \in Store /\ store'.devices[job[w].device] = "deleted"
    BY <1>5, <2>1, DeleteEffect DEF Deletes
  <2>3. ~InFlight(w)'
    BY <2>1, MovedOn DEF InFlight
  <2> QED BY <2>1, <2>2, <2>3 DEF Mutates
<1>6. CASE Touches(w)
  <2>1. Effects(w) /\ store' \in Store
    BY <1>6 DEF Touches, Effects, Has, RegistryInv, TypeOK, JobSound, LockHolds
  <2>2. store' = store /\ MovesOn(w, job[w].issued) /\ job[w].op = "touch"
    BY <1>6 DEF Touches
  <2>3. ~InFlight(w)'
    BY <2>2, MovedOn DEF InFlight
  <2> QED BY <2>1, <2>2, <2>3 DEF Mutates, Live
<1> QED BY <1>1, <1>2, <1>3, <1>4, <1>5, <1>6 DEF Serves

\* And of a request that may fail as well.
LEMMA ActsMutate ==
    ASSUME RegistryInv, NEW w \in Worker, Acts(w)
    PROVE  \/ Mutates(w)
           \/ \E a \in Stage, c \in Store \cup {None} : Stages(w, a, c)
           \/ Refuses(w) \/ RequestFails(w)
  BY ServesMutates DEF Acts

\* A mutation takes nothing back that was confirmed or will be.
LEMMA ClaimsStay ==
    ASSUME RegistryInv, NEW w \in Worker, Mutates(w), acked' = acked,
           \A k \in Cred : <<"rotated", k>> \in acked => k \in minted, Claims(store)
    PROVE  Claims(store)'
<1>1. \A d \in Device : /\ store.devices[d] # "absent" => store'.devices[d] # "absent"
                        /\ store.devices[d] = "deleted" => store'.devices[d] = "deleted"
  BY DEF Mutates, Effects
<1>2. \A k \in Cred : k \in minted /\ ~Live(store, k) => ~Live(store', k)
  BY DEF Mutates, Effects, Live
<1> QED BY <1>1, <1>2 DEF Claims, Live

\* Nor from what a request in progress will confirm.
LEMMA ToConfirmStays ==
    ASSUME RegistryInv, NEW w \in Worker, Mutates(w), \A v \in Worker : ToConfirm(v)
    PROVE  \A v \in Worker : ToConfirm(v)'
<1>1. \A d \in Device : /\ store.devices[d] # "absent" => store'.devices[d] # "absent"
                        /\ store.devices[d] = "deleted" => store'.devices[d] = "deleted"
  BY DEF Mutates, Effects
<1>2. PICK i : MovesOn(w, i)
  BY DEF Mutates
<1>3. ASSUME NEW v \in Worker \ {w} PROVE ToConfirm(v)'
  <2> SUFFICES ASSUME job[v] # None PROVE ToConfirm(v)'
    BY <1>2, MovedOn DEF ToConfirm
  <2>1. job[v] \in Job /\ job[v].device \in Device /\ job'[v] = job[v] /\ ToConfirm(v)
    BY <1>2, MovedOn DEF RegistryInv, TypeOK, Job
  <2>2. ASSUME job[v].op = "refresh", ~Live(store, job[v].cred) PROVE ~Live(store', job[v].cred)
    <3>1. job[v].cred \in Cred /\ store.credentials[job[v].cred] # None
      BY <2>2 DEF RegistryInv, JobSound, Presenting, Presented, Has
    <3> QED BY <2>2, <3>1 DEF Mutates, Effects
  <2> QED BY <1>1, <2>1, <2>2 DEF ToConfirm, Live
<1>4. ToConfirm(w)'
  <2>1. /\ job[w] \in Job /\ job'[w].op = job[w].op /\ job'[w].device = job[w].device
        /\ job'[w].cred = job[w].cred /\ job'[w].then = job[w].then + 1
    BY <1>2, MovedOn
  <2>2. /\ (job[w].op = "register" => store'.devices[job[w].device] # "absent")
        /\ (job[w].op = "delete" /\ job'[w].then = 3 => store'.devices[job[w].device] = "deleted")
        /\ (job[w].op = "refresh" => ~Live(store', job[w].cred))
    BY <2>1 DEF Mutates, Job
  <2> QED BY <2>1, <2>2 DEF ToConfirm, Live
<1> QED BY <1>3, <1>4

\* What the server has confirmed, or is about to, stays so.
LEMMA ConfirmedActs ==
    ASSUME RegistryInv, ConfirmedInv, NEW w \in Worker, Acts(w)
    PROVE  ConfirmedInv'
<1>1. /\ \A v \in Worker \ {w} : job'[v] = job[v]
      /\ job[w] # None /\ acked' = acked /\ overlapped' = overlapped /\ backend' = backend
      /\ minted \subseteq minted' /\ (Durable' => Durable)
  BY ActsOnOne DEF Durable
<1>2. \A k \in Cred : <<"rotated", k>> \in acked => k \in minted
  BY DEF ConfirmedInv
<1> SUFFICES ASSUME Durable
             PROVE  /\ Claims(store)' /\ Claims(disk)'
                    /\ \A v \in Worker : ToConfirm(v)'
                    /\ backend = "file" => \A v \in Worker : SaveLags(v)'
  BY <1>1, <1>2 DEF ConfirmedInv
<1>3. Claims(store) /\ Claims(disk) /\ \A v \in Worker : ToConfirm(v)
  BY DEF ConfirmedInv
<1>4. ASSUME backend = "file" PROVE SaveLags(w) /\ \A v \in Worker \ {w} : job[v] = None
  BY <1>1, <1>4 DEF ConfirmedInv, Durable, RegistryInv
<1>5. CASE Mutates(w)
  <2>1. PICK i : MovesOn(w, i)
    BY <1>5 DEF Mutates
  <2>2. Claims(store)'
    BY <1>1, <1>2, <1>3, <1>5, ClaimsStay
  <2>3. /\ disk' = disk \/ disk' = store'
        /\ job'[w] # None
        /\ (backend = "file" => At(w, "snapshot")')
    BY <2>1 DEF MovesOn, Moved, At
  <2>4. Claims(disk)'
    BY <1>1, <1>3, <2>2, <2>3 DEF Claims, Live
  <2>5. \A v \in Worker : ToConfirm(v)'
    BY <1>3, <1>5, ToConfirmStays
  <2>6. backend = "file" => \A v \in Worker : SaveLags(v)'
    BY <1>1, <1>4, <2>3 DEF SaveLags, At
  <2> QED BY <2>2, <2>3, <2>4, <2>5, <2>6
<1>6. ASSUME NEW a \in Stage, NEW c \in Store \cup {None}, Stages(w, a, c)
      PROVE  /\ Claims(store)' /\ Claims(disk)'
             /\ \A v \in Worker : ToConfirm(v)'
             /\ backend = "file" => \A v \in Worker : SaveLags(v)'
  <2>1. /\ Moved(w, a, job[w].then, c, job[w].issued)
        /\ UNCHANGED <<store, acked>> /\ (backend = "postgres" => disk' = disk)
        /\ (backend = "file" => SaveStep(w, a, c))
    BY <1>6 DEF Stages
  <2>2. Claims(store)' /\ \A v \in Worker : ToConfirm(v)'
    BY <1>1, <1>3, <2>1 DEF Claims, Live, ToConfirm, Moved
  <2>3. backend = "file" => SaveLags(w)' /\ disk' \in {disk, store}
    BY <1>4, <2>1 DEF SaveStep, SaveLags, Moved, At
  <2>4. Claims(disk)'
    BY <1>1, <1>3, <2>1, <2>3 DEF Claims, Live, RegistryInv
  <2>5. backend = "file" => \A v \in Worker : SaveLags(v)'
    BY <1>1, <1>4, <2>3 DEF SaveLags, At
  <2> QED BY <2>1, <2>2, <2>4, <2>5 DEF Moved
<1>7. CASE Refuses(w) \/ RequestFails(w)
  <2>1. /\ UNCHANGED <<store, disk, tmp, acked>> /\ job'[w] = None
    BY <1>7, EndsIs DEF RegistryInv, TypeOK
  <2>2. Claims(store)' /\ Claims(disk)' /\ \A v \in Worker : ToConfirm(v)'
    BY <1>1, <1>3, <2>1 DEF Claims, Live, ToConfirm
  <2>3. backend = "file" => \A v \in Worker : job'[v] = None
    BY <1>1, <1>4, <2>1
  <2> QED BY <2>1, <2>2, <2>3 DEF SaveLags, At
<1> QED BY <1>5, <1>6, <1>7, ActsMutate

\* The same of any step of the registry.
LEMMA ConfirmedInvStep ==
    ASSUME RegistryInv, ConfirmedInv, RegistryStep
    PROVE  ConfirmedInv'
<1> USE DEF RegistryStep
<1>1. ASSUME NEW w \in Worker, Arrive(w) PROVE ConfirmedInv'
  <2>1. /\ UNCHANGED <<store, disk, tmp, acked>> /\ minted \subseteq minted'
        /\ \E j : Begin(w, j)
    BY <1>1 DEF Arrive, StartRegister, StartTouch, StartWith
  <2>2. /\ \A v \in Worker \ {w} : job'[v] = job[v]
        /\ job[w] = None
    BY <1>1, ArriveIs
  <2>3. /\ job'[w].then = 1 /\ job'[w].at = "mutate"
        /\ (overlapped' \/ \A v \in Worker : job[v] = None)
        /\ (overlapped => overlapped')
    <3>1. ASSUME NEW d \in Device, StartRegister(w, d) \/ StartTouch(w, d)
          PROVE  <2>3!1 /\ <2>3!2 /\ <2>3!3
      BY <3>1, BeginIs DEF StartRegister, StartTouch, RegistryInv, Op
    <3>2. ASSUME NEW op \in {"refresh", "delete"}, NEW k \in Cred, StartWith(w, op, k)
          PROVE  <2>3!1 /\ <2>3!2 /\ <2>3!3
      <4>1. store.credentials[k].device \in Device
        BY <3>2 DEF StartWith, Live, RegistryInv, TypeOK, Store, Credential
      <4> QED BY <3>2, <4>1, BeginIs DEF StartWith, RegistryInv, Op
    <3> QED BY <1>1, <3>1, <3>2 DEF Arrive
  <2>4. Durable' => Durable /\ (backend = "file" => \A v \in Worker : job[v] = None)
    BY <2>3 DEF Durable
  <2> QED BY <2>1, <2>2, <2>3, <2>4 DEF ConfirmedInv, Claims, Live, ToConfirm, SaveLags, At
<1>2. ASSUME NEW w \in Worker, ServeStep(w) \/ RequestFails(w) PROVE ConfirmedInv'
  BY <1>2, ServeActs, ConfirmedActs DEF Acts
<1>3. ASSUME NEW w \in Worker, Reply(w) PROVE ConfirmedInv'
  <2>1. /\ UNCHANGED <<store, disk, tmp, minted, overlapped>> /\ job[w] # None /\ At(w, "reply")
        /\ job'[w] = None /\ \A v \in Worker \ {w} : job'[v] = job[v]
    BY <1>3 DEF Reply, At, RegistryInv, TypeOK
  <2>2. /\ job[w] \in Job /\ Finished(w)
        /\ job[w].op = "refresh" => job[w].cred \in Cred /\ job[w].cred \in minted
    <3>1. job[w] \in Job /\ JobSound(w) /\ store \in Store
      BY <2>1 DEF RegistryInv, TypeOK
    <3>2. job[w].op = "refresh" => job[w].cred \in Cred /\ store.credentials[job[w].cred] # None
      BY <2>1, <3>1 DEF JobSound, Presenting, Presented, Has
    <3> QED BY <2>1, <3>1, <3>2 DEF JobSound, RegistryInv, Kept, StoreSound, Drawn
  <2>3. ASSUME NEW x, x \in acked', x \notin acked
        PROVE  \/ job[w].op = "register" /\ x = <<"registered", job[w].device>>
               \/ job[w].op = "delete" /\ x = <<"deleted", job[w].device>>
               \/ job[w].op = "refresh" /\ x = <<"rotated", job[w].cred>>
    BY <1>3, <2>2, <2>3 DEF Reply, Job, Op
  <2>4. \A k \in Cred : <<"rotated", k>> \in acked' => k \in minted'
    BY <2>1, <2>2, <2>3 DEF ConfirmedInv
  <2>5. ASSUME Durable PROVE Claims(store)' /\ disk = store
    <3>1. /\ (job[w].op = "register" => store.devices[job[w].device] # "absent")
          /\ (job[w].op = "delete" => store.devices[job[w].device] = "deleted")
          /\ (job[w].op = "refresh" => ~Live(store, job[w].cred))
      BY <2>1, <2>2, <2>5 DEF ConfirmedInv, ToConfirm, Finished, LastMutation
    <3>2. disk = store
      BY <2>1, <2>5 DEF ConfirmedInv, SaveLags, RegistryInv
    <3>3. Claims(store)
      BY <2>5 DEF ConfirmedInv
    <3> QED BY <2>1, <2>3, <3>1, <3>2, <3>3 DEF Claims, Live
  <2>6. Durable' => Durable
    BY <2>1 DEF Durable
  <2>7. Durable' => Claims(disk)'
    BY <2>1, <2>5, <2>6 DEF Claims, Live
  <2> QED BY <2>1, <2>4, <2>5, <2>6, <2>7 DEF ConfirmedInv, Live, ToConfirm, SaveLags, At
<1>4. ASSUME ServerRestarts PROVE ConfirmedInv'
  <2>1. /\ job' = [w \in Worker |-> None] /\ store' = disk /\ disk' = disk
        /\ UNCHANGED <<minted, acked, overlapped>>
    BY <1>4 DEF ServerRestarts, Restart, Reconnect, RegistryInv
  <2>2. Durable' => Durable
    BY <2>1 DEF Durable
  <2> QED BY <2>1, <2>2 DEF ConfirmedInv, Claims, Live, ToConfirm, SaveLags, At
<1>5. ASSUME UNCHANGED vars PROVE ConfirmedInv'
  BY <1>5 DEF vars, ConfirmedInv, Durable, Claims, Live, ToConfirm, SaveLags, At
<1> QED BY <1>1, <1>2, <1>3, <1>4, <1>5

-----------------------------------------------------------------------------
\* The file is left alone or made what the maps are.
LEMMA DiskFollows ==
    ASSUME RegistryInv, ConfirmedInv, Durable, NEW w \in Worker, Acts(w)
    PROVE  disk' = disk \/ disk' = store'
<1>1. CASE Mutates(w)
  BY <1>1 DEF Mutates, MovesOn
<1>2. ASSUME NEW a \in Stage, NEW c \in Store \cup {None}, Stages(w, a, c)
      PROVE  disk' = disk \/ disk' = store'
  <2>1. backend = "file" => SaveLags(w)
    BY DEF ConfirmedInv
  <2> QED BY <1>2, <2>1 DEF Stages, SaveStep, SaveLags, RegistryInv
<1>3. CASE Refuses(w) \/ RequestFails(w)
  BY <1>3, EndsIs
<1> QED BY <1>1, <1>2, <1>3, ActsMutate

\* A step of the server on behalf of the host keeps its credential live.
LEMMA EnrolledActs ==
    ASSUME RegistryInv, ConfirmedInv, HostTypes, EnrolledInv, NEW w \in Worker, Acts(w),
           UNCHANGED <<clients, host, creds, wire>>
    PROVE  EnrolledInv'
<1>1. /\ \A v \in Worker \ {w} : job'[v] = job[v]
      /\ job[w] # None /\ (Durable' => Durable) /\ minted \subseteq minted'
      /\ job'[w] # None => job'[w].op = job[w].op /\ job'[w].cred = job[w].cred
  BY ActsOnOne DEF Durable
<1>2. \A k \in Cred : HostSent(k)' => HostSent(k)
  BY <1>1 DEF HostSent
<1>3. \A k : HostHas(k)' <=> HostHas(k)
  BY DEF HostHas
<1> SUFFICES ASSUME clients = "host", Durable PROVE EnrolledInv'
  BY <1>1 DEF EnrolledInv
<1>4. job[w].op # "delete"
  BY <1>1 DEF HostTypes
<1>5. disk' = disk \/ disk' = store'
  BY DiskFollows
<1>6. \/ store' = store
      \/ Mutates(w)
  BY ActsMutate, EndsIs DEF Stages
<1>7. ASSUME NEW d \in Device, NEW k \in Cred, IdLive(store, d, k), ~HostSent(k)
      PROVE  IdLive(store', d, k)
  <2>1. CASE Mutates(w)
    <3>1. job[w].cred # k
      BY <1>1, <1>7 DEF HostSent
    <3>2. Live(store', k) /\ store'.credentials[k].device = d
      BY <1>4, <1>7, <2>1, <3>1 DEF Mutates, Effects, IdLive, Has, Live
    <3> QED BY <1>4, <1>7, <2>1, <3>2 DEF Mutates, IdLive
  <2> QED BY <1>6, <1>7, <2>1
<1>8. ActiveIfLive(store')
  <2>1. ActiveIfLive(store)
    BY DEF EnrolledInv
  <2>2. CASE Mutates(w)
    <3> SUFFICES ASSUME NEW k \in Cred, Live(store', k)
                 PROVE  store'.devices[store'.credentials[k].device] = "active"
      BY DEF ActiveIfLive
    <3> DEFINE d == store'.credentials[k].device
    <3>1. d \in Device
      BY <2>2 DEF Mutates, Store, Credential, Live
    <3>2. CASE store.devices[d] = "active"
      BY <1>4, <2>2, <3>1, <3>2 DEF Mutates
    <3>3. CASE Live(store, k)
      <4>1. store.credentials[k].device = d
        BY <2>2, <3>3 DEF Mutates, Effects, Has, Live
      <4> QED BY <2>1, <3>2, <3>3, <4>1 DEF ActiveIfLive
    <3>4. CASE store.credentials[k] = None
      <4>1. MayIssue(w) /\ d = job[w].device
        BY <2>2, <3>4 DEF Mutates, Effects, Live
      <4>2. CASE Registering(w)
        BY <2>2, <4>1, <4>2 DEF Mutates, Registering
      <4>3. CASE Presenting(w) /\ Live(store, job[w].cred)
        BY <2>1, <3>2, <4>1, <4>3 DEF RegistryInv, JobSound, Presented, Has, ActiveIfLive
      <4> QED BY <4>1, <4>2, <4>3 DEF MayIssue
    <3> QED BY <2>2, <3>3, <3>4 DEF Mutates, Effects
  <2> QED BY <1>6, <2>1, <2>2
<1>9. /\ ActiveIfLive(disk') /\ ActiveIfLive(disk)
  BY <1>5, <1>8 DEF EnrolledInv
<1>10. ASSUME host.pc \in {"save", "enrolled"}
       PROVE  /\ \A S \in {store', disk'} : IdLive(S, host.id[1], host.id[2])
              /\ ~HostSent(host.id[2])'
  <2>1. host.id[1] \in Device /\ host.id[2] \in Cred
    BY <1>10 DEF HostTypes, EnrolmentTypeOK, Identity
  <2>2. /\ \A S \in {store, disk} : IdLive(S, host.id[1], host.id[2])
        /\ ~HostSent(host.id[2])
    BY <1>10 DEF EnrolledInv
  <2>3. IdLive(store', host.id[1], host.id[2])
    BY <1>7, <2>1, <2>2
  <2> QED BY <1>2, <1>5, <2>1, <2>2, <2>3
<1>11. ASSUME NEW v \in Worker, InFlight(v)', ~InFlight(v) \/ job'[v].issued # job[v].issued
       PROVE  /\ v = w /\ job'[v].issued \in Cred \ minted
              /\ IdLive(store', job'[v].device, job'[v].issued)
  <2>1. v = w
    BY <1>1, <1>11 DEF InFlight
  <2>2. Mutates(w)
    <3>1. job'[w] # None
      BY <1>11, <2>1 DEF InFlight
    <3>2. ~(\E a \in Stage, c \in Store \cup {None} : Stages(w, a, c))
      BY <1>11, <2>1 DEF Stages, Moved, InFlight
    <3>3. ~(Refuses(w) \/ RequestFails(w))
      BY <3>1, EndsIs DEF RegistryInv, TypeOK
    <3> QED BY <3>2, <3>3, ActsMutate
  <2>3. PICK i : /\ MovesOn(w, i)
                 /\ (InFlight(w)' => i \in Cred \ minted /\ Live(store', i)
                                     /\ Has(store', i, job[w].device))
    BY <2>2 DEF Mutates
  <2>4. job'[w].issued = i /\ job'[w].device = job[w].device
    BY <2>3, MovedOn
  <2>5. /\ i \in Cred \ minted /\ Live(store', i)
        /\ store'.credentials[i].device = job[w].device
    BY <1>11, <2>1, <2>3 DEF Has
  <2>6. store'.devices[job[w].device] = "active"
    BY <1>8, <2>5 DEF ActiveIfLive
  <2> QED BY <2>1, <2>4, <2>5, <2>6 DEF IdLive
<1>12. ASSUME NEW v \in Worker, InFlight(v)', InFlight(v), job'[v].issued = job[v].issued
       PROVE  /\ job'[v].issued \in Cred \cap minted
              /\ IdLive(store', job'[v].device, job'[v].issued)
              /\ ~HostHas(job[v].issued)' /\ ~HostSent(job[v].issued)'
  <2>1. job[v] \in Job /\ job[v].device \in Device /\ job[v].issued \in Cred \cap minted
    BY <1>12 DEF InFlight, RegistryInv, JobSound, TypeOK, Job
  <2>2. job'[v].device = job[v].device
    BY <1>1, <1>12, ActsOnOne DEF InFlight
  <2>3. IdLive(store, job[v].device, job[v].issued)
        /\ ~HostHas(job[v].issued) /\ ~HostSent(job[v].issued)
    BY <1>12 DEF EnrolledInv
  <2> QED BY <1>2, <1>3, <1>7, <1>12, <2>1, <2>2, <2>3
<1>13. ASSUME NEW v \in Worker, InFlight(v)'
       PROVE  /\ IdLive(store', job'[v].device, job'[v].issued)
              /\ ~HostHas(job[v].issued)' /\ ~HostSent(job[v].issued)'
              /\ \A u \in Worker \ {v} : InFlight(u)' => job'[u].issued # job'[v].issued
  <2>1. job'[v].issued \in Cred \ minted => ~HostHas(job[v].issued)' /\ ~HostSent(job[v].issued)'
    BY <1>2, <1>3 DEF HostTypes
  <2>2. \A u \in Worker \ {v} : InFlight(u)' => job'[u].issued # job'[v].issued
    <3> SUFFICES ASSUME NEW u \in Worker \ {v}, InFlight(u)', job'[u].issued = job'[v].issued
                 PROVE  FALSE
      OBVIOUS
    <3>1. CASE InFlight(u) /\ InFlight(v) /\ job'[u].issued = job[u].issued
               /\ job'[v].issued = job[v].issued
      BY <3>1 DEF EnrolledInv
    <3> QED BY <1>11, <1>12, <1>13, <3>1
  <2> QED BY <1>11, <1>12, <1>13, <2>1, <2>2
<1> HIDE DEF IdLive
<1>14. /\ ActiveIfLive(store)' /\ ActiveIfLive(disk)'
  BY <1>8, <1>9 DEF ActiveIfLive, Live
<1> QED BY <1>10, <1>13, <1>14 DEF EnrolledInv, IdLive, Live

\* A step of the host: its credential is the one it was given, and what it
\* sends it had before.
LEMMA EnrolledHost ==
    ASSUME RegistryInv, HostTypes, EnrolledInv, clients = "host", clients' = clients,
           UNCHANGED vars, backend' = backend,
           host'.pc \in {"save", "enrolled"} =>
               host.pc \in {"save", "enrolled"} /\ host'.id = host.id,
           \A k \in Cred : HostHas(k)' => HostHas(k),
           \A k \in Cred : HostSent(k)' => HostSent(k) \/
               (HostHas(k) /\ host'.pc \notin {"save", "enrolled"})
    PROVE  EnrolledInv'
<1>1. Durable' <=> Durable
  BY DEF Durable, vars
<1>2. \A w \in Worker : InFlight(w)' <=> InFlight(w)
  BY DEF InFlight, vars
<1>3. \A w \in Worker : InFlight(w) => job[w].issued \in Cred
  BY DEF InFlight, RegistryInv, TypeOK, JobSound, Job
<1>4. host.pc \in {"save", "enrolled"} => host.id[2] \in Cred
  BY DEF HostTypes, EnrolmentTypeOK, Identity
<1> SUFFICES ASSUME Durable PROVE EnrolledInv'
  BY <1>1 DEF EnrolledInv
<1>5. ASSUME NEW w \in Worker, InFlight(w)
      PROVE  ~HostHas(job[w].issued)' /\ ~HostSent(job[w].issued)'
  BY <1>3, <1>5 DEF EnrolledInv, vars
<1>6. host'.pc \in {"save", "enrolled"} => ~HostSent(host.id[2])'
  BY <1>4 DEF EnrolledInv
<1> QED BY <1>2, <1>5, <1>6 DEF EnrolledInv, ActiveIfLive, IdLive, Live, vars

\* The host's credential is live, whatever happens.
LEMMA EnrolledInvStep ==
    ASSUME RegistryInv, ConfirmedInv, HostTypes, EnrolledInv,
           [EnrolmentNext]_<<vars, backend, hvars>>
    PROVE  EnrolledInv'
<1>1. CASE UNCHANGED <<vars, backend, hvars>>
  BY <1>1 DEF vars, hvars, EnrolledInv, Durable, InFlight, HostHas, HostSent, ActiveIfLive,
              IdLive, Live
<1>2. CASE clients = "any" /\ AnyNext
  BY <1>2 DEF AnyNext, hvars, EnrolledInv
<1>3. CASE clients = "host" /\ HostNext
  <2>1. CASE LoadCreds /\ UNCHANGED backend
    <3>1. creds[2] \in Cred /\ HostHas(creds[2])
      BY <2>1 DEF LoadCreds, HostTypes, EnrolmentTypeOK, Identity, HostHas
    <3>2. host'.pc = "refresh" /\ host'.id = host.id /\ UNCHANGED <<clients, creds, vars>>
          /\ \A m \in wire' : m \in wire \/ m.cred = creds[2]
      BY <2>1, <3>1, SendIs DEF LoadCreds, Phase
    <3>3. \A k \in Cred : HostHas(k)' => HostHas(k)
      BY <3>2 DEF HostHas
    <3>4. \A k \in Cred : HostSent(k)' => HostSent(k) \/ HostHas(k)
      BY <3>1, <3>2 DEF HostSent, vars
    <3> QED BY <1>3, <2>1, <3>2, <3>3, <3>4, EnrolledHost
  <2>2. CASE (NoCreds \/ RequestRefused \/ RequestTimesOut) /\ UNCHANGED backend
    <3>1. host'.pc \in {"register", "failed"} /\ host'.id = host.id
          /\ UNCHANGED <<clients, creds, vars>>
          /\ \A m \in wire' : m \in wire \/ m.cred = None
      <4>1. /\ UNCHANGED <<clients, creds, vars>>
            /\ \/ Send("register", None)
               \/ host' = [host EXCEPT !.pc = "failed"] /\ wire' = wire
        BY <2>2 DEF NoCreds, RequestRefused, RequestTimesOut, AfterError
      <4>2. CASE Send("register", None)
        BY <4>1, <4>2, SendIs DEF Phase
      <4>3. CASE host' = [host EXCEPT !.pc = "failed"] /\ wire' = wire
        BY <4>1, <4>3 DEF HostTypes, EnrolmentTypeOK
      <4> QED BY <4>1, <4>2, <4>3
    <3>2. \A k \in Cred : (HostHas(k)' => HostHas(k)) /\ (HostSent(k)' => HostSent(k))
      BY <3>1 DEF HostHas, HostSent, vars
    <3> QED BY <1>3, <2>2, <3>1, <3>2, EnrolledHost
  <2>3. CASE (SaveCreds \/ SaveCredsFails \/ HostStops) /\ UNCHANGED backend
    <3>1. /\ UNCHANGED <<clients, wire, vars>>
          /\ creds' \in {creds, Torn, host.id}
          /\ host'.id \in {host.id, None}
          /\ host'.pc \in {"save", "enrolled"} => host.pc = "save" /\ host'.id = host.id
          /\ host.pc = "save" \/ creds' = creds
      BY <2>3 DEF SaveCreds, SaveCredsFails, HostStops, HostTypes, EnrolmentTypeOK
    <3>2. \A k \in Cred : (HostHas(k)' => HostHas(k)) /\ (HostSent(k)' => HostSent(k))
      BY <3>1 DEF HostHas, HostSent, vars
    <3> QED BY <1>3, <2>3, <3>1, <3>2, EnrolledHost
  <2>4. ASSUME NEW m \in wire, LoseRequest(m) \/ RefuseRequest(m), UNCHANGED backend
        PROVE  EnrolledInv'
    <3>1. UNCHANGED <<clients, host, creds, vars>> /\ wire' \subseteq wire
      BY <2>4 DEF LoseRequest, RefuseRequest
    <3>2. \A k \in Cred : (HostHas(k)' => HostHas(k)) /\ (HostSent(k)' => HostSent(k))
      BY <3>1 DEF HostHas, HostSent, vars
    <3> QED BY <1>3, <2>4, <3>1, <3>2, EnrolledHost
  <2>5. ASSUME NEW w \in Worker, Hello(w) \/ \E m \in wire : ReceiveRequest(w, m)
        PROVE  EnrolledInv'
    <3>1. /\ UNCHANGED <<clients, host, creds, store, disk, backend>> /\ wire' \subseteq wire
          /\ \A v \in Worker \ {w} : job'[v] = job[v]
          /\ job'[w].then = 1
          /\ job'[w].cred = None \/ \E m \in wire : m.cred = job'[w].cred
          /\ overlapped => overlapped'
      <4>1. CASE Hello(w)
        <5>1. host.id[1] \in Device /\ StartTouch(w, host.id[1])
          BY <4>1 DEF Hello, HostTypes, EnrolmentTypeOK, Identity
        <5> QED BY <4>1, <5>1, BeginIs DEF StartTouch, Hello, RegistryInv, Op
      <4>2. ASSUME NEW m \in wire, ReceiveRequest(w, m) PROVE <3>1
        <5>1. CASE m.cred = None
          <6>1. PICK d \in Device : StartRegister(w, d)
            BY <4>2, <5>1 DEF ReceiveRequest
          <6> QED BY <4>2, <6>1, BeginIs DEF StartRegister, ReceiveRequest, RegistryInv, Op
        <5>2. CASE m.cred # None
          <6>1. m.cred \in Cred /\ StartWith(w, "refresh", m.cred)
            BY <4>2, <5>2 DEF ReceiveRequest, HostTypes, EnrolmentTypeOK
          <6>2. store.credentials[m.cred].device \in Device
            BY <6>1 DEF StartWith, Live, RegistryInv, TypeOK, Store, Credential
          <6> QED BY <4>2, <6>1, <6>2, BeginIs DEF StartWith, ReceiveRequest, RegistryInv, Op
        <5> QED BY <5>1, <5>2
      <4> QED BY <2>5, <4>1, <4>2
    <3>2. (Durable' => Durable) /\ ~InFlight(w)'
      BY <3>1 DEF Durable, InFlight, LastMutation
    <3>3. \A v \in Worker \ {w} : InFlight(v)' <=> InFlight(v)
      BY <3>1 DEF InFlight
    <3>4. ASSUME NEW k \in Cred PROVE (HostHas(k)' => HostHas(k)) /\ (HostSent(k)' => HostSent(k))
      BY <3>1 DEF HostHas, HostSent
    <3>5. \A v \in Worker : InFlight(v) => job[v].issued \in Cred
      BY DEF InFlight, RegistryInv, TypeOK, JobSound, Job
    <3>6. host.pc \in {"save", "enrolled"} => host.id[2] \in Cred
      BY DEF HostTypes, EnrolmentTypeOK, Identity
    <3> SUFFICES ASSUME Durable PROVE EnrolledInv'
      BY <3>2 DEF EnrolledInv
    <3>7. ASSUME NEW v \in Worker, InFlight(v)'
          PROVE  /\ InFlight(v) /\ v # w /\ job'[v] = job[v]
                 /\ ~HostHas(job[v].issued)' /\ ~HostSent(job[v].issued)'
                 /\ IdLive(store, job[v].device, job[v].issued)
                 /\ \A u \in Worker \ {v} : InFlight(u)' => job'[u].issued # job[v].issued
      <4>1. InFlight(v) /\ v # w /\ job'[v] = job[v] /\ job[v].issued \in Cred
        BY <3>1, <3>2, <3>3, <3>5, <3>7
      <4>2. ~HostHas(job[v].issued) /\ ~HostSent(job[v].issued)
            /\ IdLive(store, job[v].device, job[v].issued)
            /\ \A u \in Worker \ {v} : InFlight(u) => job[u].issued # job[v].issued
        BY <1>3, <4>1 DEF EnrolledInv
      <4> QED BY <3>1, <3>2, <3>3, <3>4, <4>1, <4>2
    <3>8. host'.pc \in {"save", "enrolled"} => ~HostSent(host.id[2])'
      BY <1>3, <3>1, <3>4, <3>6 DEF EnrolledInv
    <3> QED BY <1>3, <3>1, <3>7, <3>8 DEF EnrolledInv, ActiveIfLive, IdLive, Live
  <2>6. ASSUME NEW w \in Worker, GetReply(w) \/ ReplyUnheard(w)
        PROVE  EnrolledInv'
    <3>1. /\ UNCHANGED <<clients, creds, wire, store, disk, overlapped, backend>>
          /\ job' = [job EXCEPT ![w] = None] /\ At(w, "reply")
      BY <2>6 DEF GetReply, ReplyUnheard, Reply
    <3>2. job'[w] = None /\ \A v \in Worker \ {w} : job'[v] = job[v]
      BY <3>1 DEF RegistryInv, TypeOK
    <3>3. /\ ~InFlight(w)' /\ (Durable' <=> Durable)
          /\ \A v \in Worker \ {w} : InFlight(v)' <=> InFlight(v)
      BY <3>1, <3>2 DEF InFlight, Durable
    <3>4. \A k : HostSent(k)' => HostSent(k)
      BY <3>1, <3>2 DEF HostSent
    <3> SUFFICES ASSUME Durable PROVE EnrolledInv'
      BY <3>3 DEF EnrolledInv
    <3>5. CASE ReplyUnheard(w)
      <4>1. \A k : HostHas(k)' => HostHas(k)
        BY <3>5 DEF ReplyUnheard, HostHas
      <4>2. host' = host
        BY <3>5 DEF ReplyUnheard
      <4> QED BY <1>3, <3>1, <3>2, <3>3, <3>4, <4>1, <4>2 DEF EnrolledInv, ActiveIfLive, IdLive, Live
    <3>6. CASE GetReply(w)
      <4>1. /\ host' = [host EXCEPT !.pc = "save", !.id = <<job[w].device, job[w].issued>>,
                                    !.registered = host.pc = "register"]
            /\ from[w] # 0 /\ job[w] # None
        BY <3>1, <3>6 DEF GetReply, HostTypes, EnrolmentTypeOK, At
      <4>2. InFlight(w)
        <5>1. job[w].op \in {"register", "refresh"}
          BY <4>1 DEF HostTypes
        <5> QED BY <3>1, <4>1, <5>1 DEF RegistryInv, JobSound, Finished, InFlight
      <4>3. /\ IdLive(store, job[w].device, job[w].issued)
            /\ ~HostHas(job[w].issued) /\ ~HostSent(job[w].issued)
            /\ \A v \in Worker \ {w} : InFlight(v) => job[v].issued # job[w].issued
        BY <1>3, <4>2 DEF EnrolledInv
      <4>4. disk = store
        BY <3>1 DEF RegistryInv, ConfirmedInv, SaveLags
      <4>5. host'.pc = "save" /\ host'.id = <<job[w].device, job[w].issued>>
        BY <4>1 DEF HostTypes, EnrolmentTypeOK
      <4>6. \A k : HostHas(k)' => HostHas(k) \/ k = job[w].issued
        BY <3>1, <4>5 DEF HostHas
      <4>7. ~HostSent(host.id[2])'
        BY <3>4, <4>3, <4>5
      <4>8. /\ \A v \in Worker : InFlight(v)' =>
                  /\ InFlight(v) /\ v # w /\ job'[v] = job[v]
                  /\ ~HostHas(job[v].issued)' /\ ~HostSent(job[v].issued)'
                  /\ IdLive(store, job[v].device, job[v].issued)
                  /\ \A u \in Worker \ {v} : InFlight(u)' => job'[u].issued # job[v].issued
        BY <1>3, <3>2, <3>3, <3>4, <4>3, <4>6 DEF EnrolledInv
      <4> QED BY <1>3, <3>1, <4>3, <4>4, <4>5, <4>7, <4>8 DEF EnrolledInv, ActiveIfLive, IdLive, Live
    <3> QED BY <2>6, <3>5, <3>6
  <2>7. CASE Server /\ UNCHANGED <<clients, host, creds, wire, from>>
    <3>1. ASSUME NEW w \in Worker, ServeStep(w) \/ RequestFails(w), UNCHANGED backend
          PROVE  EnrolledInv'
      BY <2>7, <3>1, ServeActs, EnrolledActs DEF Acts
    <3>2. CASE ServerRestarts /\ UNCHANGED backend
      <4>1. /\ job' = [w \in Worker |-> None] /\ store' = disk /\ disk' = disk
            /\ overlapped' = overlapped
        BY <3>2 DEF ServerRestarts, Restart, Reconnect, RegistryInv
      <4>2. (Durable' <=> Durable) /\ \A w \in Worker : ~InFlight(w)'
        BY <3>2, <4>1 DEF Durable, InFlight
      <4>3. \A k : HostSent(k)' => HostSent(k)
        BY <2>7, <4>1 DEF HostSent
      <4> QED BY <1>3, <2>7, <4>1, <4>2, <4>3 DEF EnrolledInv, ActiveIfLive, IdLive, Live
    <3> QED BY <2>7, <3>1, <3>2 DEF Server
  <2> QED BY <1>3, <2>1, <2>2, <2>3, <2>4, <2>5, <2>6, <2>7 DEF HostNext, RefuseRequest
<1> QED BY <1>1, <1>2, <1>3 DEF EnrolmentNext

-----------------------------------------------------------------------------
\* The server serves a host that has lost nothing: it never refuses.
LEMMA FaultFreeServed ==
    ASSUME RegistryInv, ConfirmedInv, HostTypes, EnrolledInv, FaultFreeInv,
           NEW w \in Worker, Serves(w), UNCHANGED <<clients, host, creds, wire, from, fault, backend>>
    PROVE  FaultFreeInv'
<1>1. Acts(w)
  BY DEF Acts
<1>2. /\ \A v \in Worker \ {w} : job'[v] = job[v]
      /\ job[w] # None /\ (Durable' => Durable)
      /\ job'[w] # None => /\ job'[w].op = job[w].op /\ job'[w].cred = job[w].cred
                           /\ job'[w].device = job[w].device
  BY <1>1, ActsOnOne DEF Durable
<1> SUFFICES ASSUME clients = "host", Durable, ~fault PROVE FaultFreeInv'
  BY <1>2 DEF FaultFreeInv
<1>3. disk' = disk \/ disk' = store'
  BY <1>1, DiskFollows
<1>4. job[w].op # "delete" /\ (~Served(w) => job[w].op = "touch")
  BY <1>2 DEF HostTypes, Served
<1>5. ~Refuses(w) /\ job'[w] # None
  <2>1. ASSUME Refuses(w) PROVE FALSE
    <3>1. CASE job[w].op = "refresh" /\ job[w].then = 1
               /\ ~(Live(store, job[w].cred) /\ store.devices[job[w].device] = "active")
      <4>1. creds = <<job[w].device, job[w].cred>> /\ IdLive(store, creds[1], creds[2])
        BY <1>4, <3>1 DEF FaultFreeInv
      <4> QED BY <3>1, <4>1 DEF IdLive
    <3>2. CASE At(w, "rename") /\ tmp = None /\ backend = "file"
      BY <3>2 DEF ConfirmedInv, SaveLags, RegistryInv, TypeOK
    <3> QED BY <2>1, <3>1, <3>2 DEF Refuses
  <2>2. CASE Mutates(w)
    <3>1. PICK i : MovesOn(w, i)
      BY <2>2 DEF Mutates
    <3> QED BY <2>1, <3>1 DEF MovesOn, Moved
  <2>3. ASSUME NEW a \in Stage, NEW c \in Store \cup {None}, Stages(w, a, c)
        PROVE  job'[w] # None
    BY <2>3 DEF Stages, Moved
  <2> QED BY <2>1, <2>2, <2>3, ServesMutates
<1>6. /\ \A v \in Worker : Served(v)' <=> Served(v)
      /\ \A v \in Worker : Served(v) => /\ job'[v].op = job[v].op /\ job'[v].cred = job[v].cred
                                        /\ job'[v].device = job[v].device
  BY <1>2, <1>5 DEF Served
<1>7. OneRequest /\ OneDevice(store) /\ OneDevice(disk)
  BY DEF FaultFreeInv
<1>8. OneRequest'
  BY <1>6, <1>7 DEF OneRequest, Waiting
<1>9. \/ store' = store /\ \E a \in Stage, c \in Store \cup {None} : Stages(w, a, c)
      \/ Mutates(w)
  BY <1>5, ServesMutates DEF Stages
<1>10. /\ \A d \in Device : store'.devices[d] # store.devices[d] =>
              Served(w) /\ d = job[w].device
       /\ ~Served(w) => \A k \in Cred : Live(store, k) =>
              Live(store', k) /\ store'.credentials[k].device = store.credentials[k].device
  BY <1>4, <1>9 DEF Mutates, Effects, Live, Has
<1>11. ~Served(w) => \A d \in Device, k \in Cred : IdLive(store, d, k) => IdLive(store', d, k)
  BY <1>10 DEF IdLive
<1>12. creds \notin {None, Torn} => creds[1] \in Device /\ creds[2] \in Cred
  BY DEF HostTypes, EnrolmentTypeOK, Identity
<1>13. /\ creds # Torn
       /\ host.pc = "refresh" => creds # None
  BY DEF FaultFreeInv
<1>14. OneDevice(store)'
  <2>1. CASE Served(w)
    <3>1. /\ Waiting /\ wire = {} /\ job[w].op = host.pc /\ OnlyDevice(store, job[w].device)
      BY <1>7, <2>1 DEF OneRequest, OneDevice
    <3>2. OnlyDevice(store', job[w].device)
      BY <1>10, <3>1 DEF OnlyDevice
    <3>3. \A v \in Worker : Served(v) => v = w
      BY <1>7, <2>1 DEF OneRequest
    <3>4. host.pc = "refresh" => creds[1] = job[w].device
      BY <2>1, <3>1 DEF FaultFreeInv
    <3>5. \A v \in Worker : Served(v)' => OnlyDevice(store', job'[v].device)
      BY <1>6, <3>2, <3>3
    <3>6. host.pc \in {"refresh", "register"}
      BY <3>1 DEF Waiting
    <3> QED BY <3>1, <3>2, <3>4, <3>5, <3>6 DEF OneDevice, OnlyDevice
  <2>2. CASE ~Served(w)
    <3>1. \A d \in Device : store'.devices[d] = store.devices[d]
      BY <1>10, <2>2
    <3>2. (NoDevice(store) => NoDevice(store')) /\ \A d : OnlyDevice(store, d) => OnlyDevice(store', d)
      BY <3>1 DEF NoDevice, OnlyDevice
    <3>3. \A v \in Worker : Served(v)' => OnlyDevice(store', job'[v].device)
      BY <1>6, <1>7, <3>2 DEF OneDevice
    <3>4. /\ host.pc = "down" => IF creds = None THEN NoDevice(store')
                                 ELSE OnlyDevice(store', creds[1]) /\ IdLive(store', creds[1], creds[2])
          /\ host.pc = "refresh" => /\ OnlyDevice(store', creds[1])
                                    /\ wire # {} => IdLive(store', creds[1], creds[2])
      BY <1>7, <1>11, <1>12, <1>13, <2>2, <3>2 DEF OneDevice
    <3>5. /\ host.pc = "register" /\ wire # {} => NoDevice(store')
          /\ host.pc \in {"save", "enrolled"} => OnlyDevice(store', host.id[1])
      BY <1>7, <3>2 DEF OneDevice
    <3> QED BY <3>3, <3>4, <3>5 DEF OneDevice, OnlyDevice, NoDevice, IdLive, Live
  <2> QED BY <2>1, <2>2
<1>15. OneDevice(disk)'
  <2>1. CASE disk' = store'
    BY <1>14, <2>1 DEF OneDevice, OnlyDevice, NoDevice, IdLive, Live
  <2>2. CASE disk' = disk
    BY <1>6, <1>7, <2>2 DEF OneDevice, OnlyDevice, NoDevice, IdLive, Live
  <2> QED BY <1>3, <2>1, <2>2
<1>16. ASSUME NEW v \in Worker, Served(v)', job'[v].op = "refresh"
       PROVE  /\ creds = <<job'[v].device, job'[v].cred>>
              /\ job'[v].then = 1 => IdLive(store', creds[1], creds[2])
  <2>1. /\ Served(v) /\ creds = <<job[v].device, job[v].cred>>
        /\ job[v].then = 1 => IdLive(store, creds[1], creds[2])
    BY <1>6, <1>16 DEF FaultFreeInv
  <2>2. CASE v # w
    <3>1. ~Served(w)
      BY <1>7, <2>1, <2>2 DEF OneRequest
    <3>2. creds \notin {None, Torn}
      <4>1. host.pc = "refresh"
        BY <1>6, <1>7, <1>16, <2>1 DEF OneRequest
      <4> QED BY <1>13, <4>1
    <3> QED BY <1>2, <1>11, <1>12, <2>1, <2>2, <3>1, <3>2
  <2>3. CASE v = w
    <3>1. CASE Mutates(w)
      <4>1. PICK i : MovesOn(w, i)
        BY <3>1 DEF Mutates
      <4>2. job'[w].then # 1
        BY <4>1, MovedOn DEF Job
      <4> QED BY <1>6, <2>1, <2>3, <4>2
    <3>2. ASSUME NEW a \in Stage, NEW c \in Store \cup {None}, Stages(w, a, c), store' = store
          PROVE  job'[w].then = 1 => IdLive(store', creds[1], creds[2])
      BY <2>1, <2>3, <3>2 DEF Stages, Moved
    <3> QED BY <1>6, <1>9, <2>1, <2>3, <3>1, <3>2
  <2> QED BY <2>2, <2>3
<1> QED BY <1>8, <1>13, <1>14, <1>15, <1>16 DEF FaultFreeInv, IdLive, Live

\* A host that has lost nothing sends a request, saves or is started again.
LEMMA FaultFreeSends ==
    ASSUME RegistryInv, HostTypes, EnrolledInv, FaultFreeInv, clients = "host", Durable, ~fault',
           LoadCreds \/ NoCreds \/ RequestRefused \/ RequestTimesOut \/ SaveCreds
               \/ SaveCredsFails \/ HostStops
    PROVE  FaultFreeInv'
<1>1. /\ host.pc \in Phase /\ host.attempt \in Nat /\ fault \in BOOLEAN
      /\ creds \in Identity \cup {None, Torn} /\ host.id \in Identity \cup {None}
      /\ from \in [Worker -> 0 .. MaxAttempts]
  BY DEF HostTypes, EnrolmentTypeOK
<1>2. ~fault /\ UNCHANGED <<clients, vars, from, fault>>
  BY <1>1 DEF LoadCreds, NoCreds, RequestRefused, RequestTimesOut, SaveCreds, SaveCredsFails, HostStops
<1>3. /\ host.pc # "failed" /\ creds # Torn
      /\ host.pc = "enrolled" => creds = host.id
      /\ OneRequest /\ OneDevice(store) /\ OneDevice(disk)
  BY <1>2 DEF FaultFreeInv
<1>4. \A w \in Worker : Served(w)' <=> Served(w)
  BY <1>2 DEF Served, vars
<1>5. ~Waiting => wire = {} /\ \A w \in Worker : ~Served(w)
  BY <1>3 DEF OneRequest
<1>6. CASE LoadCreds
  <2>1. /\ host.pc = "down" /\ creds # None /\ creds[2] \in Cred /\ creds' = creds
        /\ Send("refresh", creds[2])
    BY <1>1, <1>3, <1>6 DEF LoadCreds, Identity
  <2>2. /\ host'.pc = "refresh" /\ host'.attempt = host.attempt + 1
        /\ wire = {} /\ \A w \in Worker : ~Served(w)
        /\ \A m \in wire' : m \in wire \/ (m.attempt = host.attempt + 1 /\ m.cred = creds[2])
        /\ \E m \in wire' : TRUE
    BY <1>5, <2>1, SendIs DEF Waiting, Phase
  <2>3. OneRequest'
    BY <1>4, <2>1, <2>2 DEF OneRequest, Waiting
  <2>4. \A S \in {store, disk} : OnlyDevice(S, creds[1]) /\ IdLive(S, creds[1], creds[2])
    BY <1>3, <2>1 DEF OneDevice
  <2>5. (\A S \in {store, disk} : OneDevice(S))'
    BY <1>2, <1>4, <2>1, <2>2, <2>4 DEF OneDevice, OnlyDevice, IdLive, Live, vars
  <2> QED BY <1>3, <1>4, <2>1, <2>2, <2>3, <2>5 DEF FaultFreeInv
<1>7. CASE NoCreds
  <2>1. host.pc = "down" /\ creds = None /\ creds' = creds /\ Send("register", None)
    BY <1>1, <1>3, <1>7 DEF NoCreds
  <2>2. /\ host'.pc = "register" /\ host'.attempt = host.attempt + 1
        /\ wire = {} /\ \A w \in Worker : ~Served(w)
        /\ \A m \in wire' : m \in wire \/ (m.attempt = host.attempt + 1 /\ m.cred = None)
        /\ \E m \in wire' : TRUE
    BY <1>5, <2>1, SendIs DEF Waiting, Phase
  <2>3. OneRequest'
    BY <1>4, <2>1, <2>2 DEF OneRequest, Waiting
  <2>4. \A S \in {store, disk} : NoDevice(S)
    BY <1>3, <2>1 DEF OneDevice
  <2>5. (\A S \in {store, disk} : OneDevice(S))'
    BY <1>2, <1>4, <2>1, <2>2, <2>4 DEF OneDevice, NoDevice, vars
  <2> QED BY <1>3, <1>4, <2>1, <2>2, <2>3, <2>5 DEF FaultFreeInv
<1>8. CASE RequestRefused
  <2>1. Waiting /\ ~Outstanding
    BY <1>8 DEF RequestRefused
  <2> QED BY <1>3, <2>1 DEF Outstanding, OneRequest, Served
<1>9. CASE RequestTimesOut \/ SaveCredsFails
  BY <1>9 DEF RequestTimesOut, SaveCredsFails
<1>10. CASE SaveCreds
  <2>1. /\ host.pc = "save" /\ host'.pc = "enrolled" /\ host'.id = host.id /\ creds' = host.id
        /\ wire' = wire /\ host.id # None
    BY <1>10 DEF SaveCreds, HostTypes, EnrolmentTypeOK
  <2>2. host.id # Torn
    <3>1. PICK d \in Device, k \in Cred : host.id = <<d, k>>
      BY <1>1, <2>1 DEF Identity
    <3>2. 1 \in DOMAIN host.id /\ 1 \notin DOMAIN <<>>
      BY <3>1
    <3> QED BY <3>2 DEF Torn
  <2>3. wire = {} /\ \A w \in Worker : ~Served(w)
    BY <1>5, <2>1 DEF Waiting
  <2>4. OneRequest'
    BY <1>4, <2>1, <2>3 DEF OneRequest, Waiting
  <2>5. \A S \in {store, disk} : OnlyDevice(S, host.id[1])
    BY <1>3, <2>1 DEF OneDevice
  <2>6. (\A S \in {store, disk} : OneDevice(S))'
    BY <1>2, <1>4, <2>1, <2>3, <2>5 DEF OneDevice, OnlyDevice, vars
  <2> QED BY <1>4, <2>1, <2>2, <2>3, <2>4, <2>6 DEF FaultFreeInv
<1>11. CASE HostStops
  <2>1. /\ host.pc = "enrolled" /\ host'.pc = "down" /\ creds' = creds /\ wire' = wire
    BY <1>1, <1>2, <1>3, <1>11 DEF HostStops, Waiting, Phase, HostTypes, EnrolmentTypeOK
  <2>2. creds = host.id /\ host.id # None
    BY <1>3, <2>1 DEF HostTypes
  <2>3. wire = {} /\ \A w \in Worker : ~Served(w)
    BY <1>5, <2>1 DEF Waiting
  <2>4. OneRequest'
    BY <1>4, <2>1, <2>3 DEF OneRequest, Waiting
  <2>5. \A S \in {store, disk} : OnlyDevice(S, creds[1]) /\ IdLive(S, creds[1], creds[2])
    BY <1>3, <2>1, <2>2 DEF OneDevice, EnrolledInv
  <2>6. (\A S \in {store, disk} : OneDevice(S))'
    BY <1>2, <1>4, <2>1, <2>2, <2>3, <2>5 DEF OneDevice, OnlyDevice, IdLive, Live, vars
  <2> QED BY <1>3, <1>4, <2>1, <2>3, <2>4, <2>6 DEF FaultFreeInv
<1> QED BY <1>6, <1>7, <1>8, <1>9, <1>10, <1>11

\* Its request reaches the server, or its hello.
LEMMA FaultFreeArrives ==
    ASSUME RegistryInv, HostTypes, FaultFreeInv, clients = "host", Durable, ~fault',
           NEW w \in Worker, Hello(w) \/ \E m \in wire : ReceiveRequest(w, m)
    PROVE  FaultFreeInv'
<1>1. /\ from \in [Worker -> 0 .. MaxAttempts] /\ creds \in Identity \cup {None, Torn}
      /\ wire \subseteq [attempt : 1 .. MaxAttempts, cred : Cred \cup {None}]
  BY DEF HostTypes, EnrolmentTypeOK
<1>2. ~fault /\ UNCHANGED <<clients, host, creds, store, disk>>
  BY DEF Hello, ReceiveRequest, StartTouch, StartRegister, StartWith
<1>3. /\ host.pc # "failed" /\ creds # Torn
      /\ host.pc = "refresh" => creds # None
      /\ host.pc = "register" => creds = None
      /\ host.pc = "enrolled" => creds = host.id
      /\ OneRequest /\ OneDevice(store) /\ OneDevice(disk)
  BY <1>2 DEF FaultFreeInv
<1>4. CASE Hello(w)
  <2>1. host.pc = "enrolled" /\ host.id[1] \in Device /\ StartTouch(w, host.id[1])
    BY <1>4 DEF Hello, HostTypes, EnrolmentTypeOK, Identity
  <2>2. /\ wire' = wire /\ wire = {} /\ \A v \in Worker : ~Served(v)
    BY <1>3, <1>4, <2>1 DEF Hello, OneRequest, Waiting
  <2>3. \A v \in Worker \ {w} : job'[v] = job[v] /\ from'[v] = from[v]
    BY <1>1, <1>4, <2>1, BeginIs DEF StartTouch, Hello, RegistryInv, Op
  <2>4. from'[w] = 0
    BY <1>1, <1>4 DEF Hello
  <2>5. \A v \in Worker : ~Served(v)'
    BY <2>2, <2>3, <2>4 DEF Served
  <2>6. OneRequest'
    BY <1>2, <2>1, <2>2, <2>5 DEF OneRequest, Waiting
  <2>7. (\A S \in {store, disk} : OneDevice(S))'
    BY <1>2, <1>3, <2>1, <2>5 DEF OneDevice, OnlyDevice
  <2> QED BY <1>2, <1>3, <2>5, <2>6, <2>7 DEF FaultFreeInv
<1>5. ASSUME NEW m \in wire, ReceiveRequest(w, m) PROVE FaultFreeInv'
  <2>1. /\ Waiting /\ m.attempt = host.attempt /\ m.attempt # 0
        /\ m.cred = IF host.pc = "refresh" THEN creds[2] ELSE None
        /\ \A v \in Worker : ~Served(v)
    BY <1>1, <1>3 DEF OneRequest
  <2>2. wire' = {} /\ from' = [from EXCEPT ![w] = m.attempt]
    <3>1. \A n \in wire : n = m
      <4> SUFFICES ASSUME NEW n \in wire PROVE n = m
        OBVIOUS
      <4>1. n.attempt = m.attempt /\ n.cred = m.cred
        BY <1>3, <2>1 DEF OneRequest
      <4> QED BY <1>1, <4>1
    <3> QED BY <1>5, <3>1 DEF ReceiveRequest
  <2>3. CASE host.pc = "register"
    <3>1. PICK d \in Device : StartRegister(w, d)
      BY <1>5, <2>1, <2>3 DEF ReceiveRequest
    <3>2. /\ \A v \in Worker \ {w} : job'[v] = job[v] /\ from'[v] = from[v]
          /\ job'[w] # None /\ job'[w].op = "register" /\ from'[w] = host.attempt
      BY <1>1, <2>1, <2>2, <3>1, BeginIs DEF StartRegister, RegistryInv, Op
    <3>3. \A v \in Worker : Served(v)' <=> v = w
      BY <2>1, <3>2 DEF Served
    <3>4. OneRequest'
      BY <1>2, <2>1, <2>2, <2>3, <3>2, <3>3 DEF OneRequest, Waiting
    <3>5. \A S \in {store, disk} : OnlyDevice(S, job'[w].device)
      BY <1>3, <2>3 DEF OneDevice, NoDevice, OnlyDevice
    <3>6. (\A S \in {store, disk} : OneDevice(S))'
      BY <1>2, <2>2, <2>3, <3>3, <3>5 DEF OneDevice, OnlyDevice
    <3> QED BY <1>2, <1>3, <2>3, <3>2, <3>3, <3>4, <3>6 DEF FaultFreeInv
  <2>4. CASE host.pc = "refresh"
    <3>1. creds \in Identity /\ m.cred = creds[2] /\ creds[2] \in Cred /\ creds = <<creds[1], creds[2]>>
      BY <1>1, <1>3, <2>1, <2>4 DEF Identity
    <3>2. /\ IdLive(store, creds[1], creds[2])
          /\ \A S \in {store, disk} : OnlyDevice(S, creds[1])
      BY <1>3, <2>4 DEF OneDevice
    <3>3. StartWith(w, "refresh", creds[2]) /\ store.credentials[creds[2]].device = creds[1]
          /\ creds[1] \in Device
      BY <1>5, <3>1, <3>2 DEF ReceiveRequest, IdLive, Identity
    <3>4. /\ \A v \in Worker \ {w} : job'[v] = job[v] /\ from'[v] = from[v]
          /\ job'[w] # None /\ job'[w].op = "refresh" /\ from'[w] = host.attempt
          /\ job'[w].device = creds[1] /\ job'[w].cred = creds[2]
      BY <1>1, <2>1, <2>2, <3>1, <3>3, BeginIs DEF StartWith, RegistryInv, Op
    <3>5. \A v \in Worker : Served(v)' <=> v = w
      BY <2>1, <3>4 DEF Served
    <3>6. OneRequest'
      BY <1>2, <2>1, <2>2, <2>4, <3>4, <3>5 DEF OneRequest, Waiting
    <3>7. (\A S \in {store, disk} : OneDevice(S))'
      BY <1>2, <2>2, <2>4, <3>2, <3>4, <3>5 DEF OneDevice, OnlyDevice
    <3> QED BY <1>2, <1>3, <2>4, <3>1, <3>2, <3>4, <3>5, <3>6, <3>7 DEF FaultFreeInv, IdLive, Live
  <2> QED BY <2>1, <2>3, <2>4 DEF Waiting
<1> QED BY <1>4, <1>5

\* A reply reaches it, or one that was not for it ends.
LEMMA FaultFreeReply ==
    ASSUME RegistryInv, ConfirmedInv, HostTypes, FaultFreeInv, clients = "host", Durable, ~fault',
           NEW w \in Worker, GetReply(w) \/ ReplyUnheard(w)
    PROVE  FaultFreeInv'
<1>1. /\ fault \in BOOLEAN /\ from \in [Worker -> 0 .. MaxAttempts]
      /\ host \in [pc : Phase, attempt : 0 .. MaxAttempts, id : Identity \cup {None},
                   registered : BOOLEAN]
  BY DEF HostTypes, EnrolmentTypeOK
<1>2. /\ ~fault /\ UNCHANGED <<clients, creds, wire, store, disk>>
      /\ job' = [job EXCEPT ![w] = None] /\ from' = [from EXCEPT ![w] = 0] /\ At(w, "reply")
  BY <1>1 DEF GetReply, ReplyUnheard, Reply
<1>3. /\ job'[w] = None
      /\ \A v \in Worker \ {w} : job'[v] = job[v] /\ from'[v] = from[v]
  BY <1>1, <1>2 DEF RegistryInv, TypeOK
<1>4. /\ host.pc # "failed" /\ creds # Torn
      /\ OneRequest /\ OneDevice(store) /\ OneDevice(disk)
  BY <1>2 DEF FaultFreeInv
<1>5. /\ ~Served(w)'
      /\ \A v \in Worker \ {w} : Served(v)' <=> Served(v)
  BY <1>3 DEF Served
<1>6. CASE ReplyUnheard(w)
  <2>1. host' = host /\ ~Served(w)
    BY <1>1, <1>6 DEF ReplyUnheard, Served
  <2>2. \A v \in Worker : (Served(v)' <=> Served(v)) /\ (Served(v) => job'[v] = job[v] /\ from'[v] = from[v])
    BY <1>3, <1>5, <2>1
  <2>3. OneRequest'
    BY <1>2, <1>4, <2>1, <2>2 DEF OneRequest, Waiting
  <2>4. (\A S \in {store, disk} : OneDevice(S))'
    BY <1>2, <1>4, <2>1, <2>2 DEF OneDevice, OnlyDevice, NoDevice, IdLive, Live
  <2> QED BY <1>2, <2>1, <2>2, <2>3, <2>4 DEF FaultFreeInv, IdLive, Live
<1>7. CASE GetReply(w)
  <2>1. /\ host' = [host EXCEPT !.pc = "save", !.id = <<job[w].device, job[w].issued>>,
                                !.registered = host.pc = "register"]
        /\ from[w] = host.attempt /\ host.attempt >= 1 /\ job[w] # None
    BY <1>2, <1>7 DEF GetReply, HostTypes, At
  <2>2. host'.pc = "save" /\ host'.id[1] = job[w].device
    BY <1>1, <2>1
  <2>3. Served(w)
    BY <1>1, <2>1 DEF Served
  <2>4. wire = {} /\ \A v \in Worker : ~Served(v)'
    BY <1>4, <1>5, <2>3 DEF OneRequest
  <2>5. OneRequest'
    BY <1>2, <2>2, <2>4 DEF OneRequest, Waiting
  <2>6. \A S \in {store, disk} : OnlyDevice(S, job[w].device)
    BY <1>4, <2>3 DEF OneDevice
  <2>7. (\A S \in {store, disk} : OneDevice(S))'
    BY <1>2, <2>2, <2>4, <2>6 DEF OneDevice, OnlyDevice
  <2> QED BY <1>2, <1>4, <2>2, <2>4, <2>5, <2>7 DEF FaultFreeInv
<1> QED BY <1>6, <1>7

\* Once requests have overlapped they have.
LEMMA DurableStays ==
    ASSUME RegistryInv, RegistryStep, Durable'
    PROVE  Durable
<1> USE DEF RegistryStep
<1>1. ASSUME NEW w \in Worker, Arrive(w) PROVE overlapped => overlapped'
  BY <1>1 DEF Arrive, StartRegister, StartTouch, StartWith, Begin
<1>2. ASSUME NEW w \in Worker, ServeStep(w) \/ RequestFails(w) PROVE overlapped => overlapped'
  BY <1>2, ServeActs, ActsOnOne DEF Acts
<1>3. ASSUME (\E w \in Worker : Reply(w)) \/ ServerRestarts \/ UNCHANGED vars
      PROVE  overlapped => overlapped'
  BY <1>3 DEF Reply, ServerRestarts, Restart, Reconnect, vars
<1> QED BY <1>1, <1>2, <1>3 DEF Durable

\* Whatever happens to a host that loses nothing.
LEMMA FaultFreeStep ==
    ASSUME RegistryInv, ConfirmedInv, HostTypes, EnrolledInv, FaultFreeInv,
           [EnrolmentNext]_<<vars, backend, hvars>>
    PROVE  FaultFreeInv'
<1>1. CASE UNCHANGED <<vars, backend, hvars>>
  BY <1>1 DEF vars, hvars, FaultFreeInv, Durable, OneRequest, OneDevice, Served, Waiting,
              OnlyDevice, NoDevice, IdLive, Live
<1>2. CASE clients = "any" /\ AnyNext
  BY <1>2 DEF AnyNext, hvars, FaultFreeInv
<1>3. CASE clients = "host" /\ HostNext
  <2> SUFFICES ASSUME Durable', ~fault' PROVE FaultFreeInv'
    BY DEF FaultFreeInv
  <2>1. Durable
    BY StepIsRegistryStep, DurableStays
  <2>2. CASE LoadCreds \/ NoCreds \/ RequestRefused \/ RequestTimesOut \/ SaveCreds
             \/ SaveCredsFails \/ HostStops
    BY <1>3, <2>1, <2>2, FaultFreeSends
  <2>3. ASSUME NEW m \in wire, LoseRequest(m) PROVE FALSE
    BY <2>3 DEF LoseRequest
  <2>4. ASSUME NEW m \in wire, RefuseRequest(m) PROVE FALSE
    <3>1. ~fault /\ m.cred # None /\ ~Usable(m.cred)
      BY <2>4 DEF RefuseRequest
    <3>2. /\ m.cred # None /\ m.cred = IF host.pc = "refresh" THEN creds[2] ELSE None
          /\ OneDevice(store)
      BY <1>3, <2>1, <2>4, <3>1 DEF RefuseRequest, FaultFreeInv, OneRequest
    <3>3. IdLive(store, creds[1], m.cred)
      BY <3>2 DEF OneDevice
    <3> QED BY <3>1, <3>3 DEF Usable, IdLive
  <2>5. ASSUME NEW w \in Worker, Hello(w) \/ \E m \in wire : ReceiveRequest(w, m)
        PROVE  FaultFreeInv'
    BY <1>3, <2>1, <2>5, FaultFreeArrives
  <2>6. ASSUME NEW w \in Worker, GetReply(w) \/ ReplyUnheard(w)
        PROVE  FaultFreeInv'
    BY <1>3, <2>1, <2>6, FaultFreeReply
  <2>7. CASE Server /\ UNCHANGED <<clients, host, creds, wire, from>>
    <3>1. ASSUME NEW w \in Worker, ServeStep(w), UNCHANGED <<fault, backend>>
          PROVE  FaultFreeInv'
      BY <2>7, <3>1, ServeActs, FaultFreeServed
    <3>2. CASE ServerRestarts /\ UNCHANGED backend
               /\ fault' = (fault \/ \E w \in Worker : job[w] # None /\ from[w] # 0)
      <4>1. /\ job' = [w \in Worker |-> None] /\ store' = disk /\ disk' = disk
        BY <3>2 DEF ServerRestarts, Restart, Reconnect, RegistryInv
      <4>2. ~fault /\ \A w \in Worker : ~Served(w) /\ ~Served(w)'
        BY <3>2, <4>1 DEF Served, HostTypes, EnrolmentTypeOK
      <4>3. OneRequest /\ OneDevice(disk)
        BY <1>3, <2>1, <4>2 DEF FaultFreeInv
      <4>4. OneRequest'
        BY <2>7, <4>2, <4>3 DEF OneRequest, Waiting
      <4>5. (\A S \in {store, disk} : OneDevice(S))'
        BY <2>7, <4>1, <4>2, <4>3 DEF OneDevice, OnlyDevice, NoDevice, IdLive, Live
      <4> QED BY <1>3, <2>1, <2>7, <4>2, <4>4, <4>5 DEF FaultFreeInv
    <3> QED BY <2>7, <3>1, <3>2 DEF Server
  <2> QED BY <1>3, <2>2, <2>3, <2>4, <2>5, <2>6, <2>7 DEF HostNext
<1> QED BY <1>1, <1>2, <1>3 DEF EnrolmentNext

\* All of it in every reachable state.
LEMMA EnrolmentInvHolds == EnrolmentSpec => []EnrolmentInv
<1>1. EnrolmentInit => EnrolmentInv
  <2> SUFFICES ASSUME EnrolmentInit PROVE EnrolmentInv
    OBVIOUS
  <2>1. RegistryInv /\ HostTypes
    BY RegistryInvInit
  <2>2. /\ store = EmptyStore /\ disk = EmptyStore /\ acked = {} /\ job = [w \in Worker |-> None]
        /\ host.pc = "down" /\ creds = None /\ wire = {}
    BY DEF EnrolmentInit, Init
  <2>3. /\ \A k \in Cred : EmptyStore.credentials[k] = None
        /\ \A d \in Device : EmptyStore.devices[d] = "absent"
    BY DEF EmptyStore
  <2>4. ConfirmedInv
    BY <2>2 DEF ConfirmedInv, Claims, ToConfirm, SaveLags, At
  <2>5. EnrolledInv
    BY <2>2, <2>3 DEF EnrolledInv, ActiveIfLive, Live, InFlight
  <2>6. FaultFreeInv
    BY <2>2, <2>3 DEF FaultFreeInv, OneRequest, OneDevice, NoDevice, Served, Waiting, Torn
  <2> QED BY <2>1, <2>4, <2>5, <2>6 DEF EnrolmentInv
<1>2. EnrolmentInv /\ [EnrolmentNext]_<<vars, backend, hvars>> => EnrolmentInv'
  <2> SUFFICES ASSUME EnrolmentInv, [EnrolmentNext]_<<vars, backend, hvars>> PROVE EnrolmentInv'
    OBVIOUS
  <2>1. RegistryInv /\ ConfirmedInv /\ HostTypes /\ EnrolledInv /\ FaultFreeInv
    BY DEF EnrolmentInv
  <2>2. RegistryStep
    BY <2>1, StepIsRegistryStep
  <2>3. RegistryInv' /\ ConfirmedInv'
    BY <2>1, <2>2, RegistryInvStep, ConfirmedInvStep
  <2>4. HostTypes' /\ EnrolledInv' /\ FaultFreeInv'
    BY <2>1, HostTypesStep, EnrolledInvStep, FaultFreeStep
  <2> QED BY <2>3, <2>4 DEF EnrolmentInv
<1> QED BY <1>1, <1>2, PTL DEF EnrolmentSpec

\* What the server has confirmed survives its restart at any step and the
\* token given in stays dead, so a host keeps its id and a credential that
\* works: on Postgres always, with the registry file as long as requests
\* come one after the other.
THEOREM ConfirmedCorrect == EnrolmentSpec => []ConfirmedDurable
<1>1. EnrolmentInv => ConfirmedDurable
  <2> SUFFICES ASSUME EnrolmentInv PROVE ConfirmedDurable
    OBVIOUS
  <2>1. EnrolmentTypeOK
    BY DEF EnrolmentInv, HostTypes
  <2> SUFFICES ASSUME Durable
               PROVE  /\ ConfirmedSurvives /\ RotatedStaysDead /\ EnrolledIsLive
                      /\ clients = "host" => RestartKeepsId
    BY <2>1 DEF ConfirmedDurable
  <2>2. ConfirmedSurvives /\ RotatedStaysDead
    BY DEF EnrolmentInv, ConfirmedInv, Claims, ConfirmedSurvives, RotatedStaysDead
  <2>3. clients \in {"any", "host"}
    BY <2>1 DEF EnrolmentTypeOK
  <2>4. EnrolledIsLive
    BY <2>3 DEF EnrolmentInv, HostTypes, EnrolledInv, EnrolledIsLive, IdLive
  <2>5. ASSUME clients = "host", ~fault, NEW d \in Device, NEW e \in Device,
               store.devices[d] # "absent", store.devices[e] # "absent"
        PROVE  d = e
    <3>1. host.pc \in Phase \ {"failed"} /\ OneRequest /\ OneDevice(store)
      BY <2>1, <2>5 DEF EnrolmentInv, FaultFreeInv, EnrolmentTypeOK
    <3>2. CASE host.pc \in {"down", "save", "enrolled", "refresh"}
      BY <2>5, <3>1, <3>2 DEF OneDevice, NoDevice, OnlyDevice
    <3>3. CASE host.pc = "register" /\ wire # {}
      BY <2>5, <3>1, <3>3 DEF OneDevice, NoDevice
    <3>4. CASE host.pc = "register" /\ \E w \in Worker : Served(w)
      BY <2>5, <3>1, <3>4 DEF OneDevice, OnlyDevice
    <3> QED BY <3>1, <3>2, <3>3, <3>4 DEF OneRequest, Waiting, Phase
  <2> QED BY <2>2, <2>4, <2>5 DEF RestartKeepsId
<1> QED BY <1>1, EnrolmentInvHolds, PTL
=============================================================================
