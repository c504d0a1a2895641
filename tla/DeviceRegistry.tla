--------------------------- MODULE DeviceRegistry ---------------------------
(***************************************************************************)
(* Device enrolment and token rotation (apps/server/src/routes/devices.rs) *)
(* over the file-backed repository (repo/memory.rs); PostgresRegistry puts *)
(* the same requests over the database.                                    *)
(*                                                                         *)
(* HTTP requests run concurrently.  Every repository mutation changes the  *)
(* maps under the store's mutex, releases it and then saves: it locks      *)
(* again to copy the maps, and without any lock writes the copy to a       *)
(* temporary file and renames that over the registry file.  A request that *)
(* mutates twice (register, delete) saves twice.                           *)
(*                                                                         *)
(* Secrets are random: a credential, once minted, is never minted again.   *)
(* Expiry, rate limits and lockouts refuse a request before it changes the *)
(* store: here such a request never starts.  AccessGates models limits and *)
(* lockouts, HostEnrolment what a host does that was refused.              *)
(***************************************************************************)
EXTENDS Naturals, FiniteSets

CONSTANTS
    Device,     \* public ids that may be drawn
    Cred,       \* credentials (access and refresh token of one issue)
    Worker,     \* requests being served at the same time
    None,
    MayCrash    \* whether the process may stop and restart

VARIABLES
    store,      \* the maps in memory
    disk,       \* the registry file
    tmp,        \* the temporary file, None if absent
    job,        \* [Worker -> Job \cup {None}]
    minted,     \* devices and credentials ever drawn
    acked,      \* what clients were told: <<"registered" | "deleted", device>>
                \* and <<"rotated", credential>> (history)
    overlapped  \* whether two requests were ever served at once (history)

vars == <<store, disk, tmp, job, minted, acked, overlapped>>

Status == {"absent", "active", "deleted"}
Credential == [device : Device, revoked : BOOLEAN]
Store == [devices : [Device -> Status], credentials : [Cred -> Credential \cup {None}]]
EmptyStore == [devices |-> [d \in Device |-> "absent"],
               credentials |-> [k \in Cred |-> None]]

Op == {"register", "refresh", "delete", "touch"}
\* The last two are statements of the Postgres repository (PostgresRegistry).
Stage == {"mutate", "snapshot", "write", "rename", "reply", "locked", "update"}

\* cred: the credential presented; issued: the one to be given in the reply;
\* then: the operation's mutation still to do, 1 being the first.
Job == [op : Op, device : Device, cred : Cred \cup {None}, at : Stage,
        then : 1 .. 3, copy : Store \cup {None}, issued : Cred \cup {None}]

ASSUME RegistryAssumption ==
    None \notin Device \cup Cred \cup Credential \cup Store \cup Job

\* Every map, file, request and record of what clients were told has its
\* type; in particular no request takes more mutations than it has.
TypeOK ==
    /\ store \in Store /\ disk \in Store
    /\ tmp \in Store \cup {None}
    /\ job \in [Worker -> Job \cup {None}]
    /\ minted \subseteq Device \cup Cred
    /\ acked \subseteq ({"registered", "deleted"} \X Device) \cup ({"rotated"} \X Cred)
    /\ overlapped \in BOOLEAN

Init ==
    /\ store = EmptyStore /\ disk = EmptyStore /\ tmp = None
    /\ job = [w \in Worker |-> None]
    /\ minted = {}
    /\ acked = {}
    /\ overlapped = FALSE

-----------------------------------------------------------------------------
Live(st, k) == st.credentials[k] # None /\ ~st.credentials[k].revoked

NewJob(op, d, k) == [op |-> op, device |-> d, cred |-> k, at |-> "mutate",
                     then |-> 1, copy |-> None, issued |-> None]

\* A mutation under the lock, to be saved next, with credential k to be given
\* in the reply.
MutateIssuing(w, st, k) ==
    /\ store' = st
    /\ job' = [job EXCEPT ![w].at = "snapshot", ![w].then = @ + 1, ![w].issued = k]
    /\ UNCHANGED <<disk, tmp, acked, overlapped>>

Mutate(w, st) == MutateIssuing(w, st, job[w].issued)

Fail(w) ==
    /\ job' = [job EXCEPT ![w] = None]
    /\ UNCHANGED <<store, disk, tmp, minted, acked, overlapped>>

Begin(w, j) ==
    /\ job[w] = None
    /\ job' = [job EXCEPT ![w] = j]
    /\ overlapped' = (overlapped \/ \E v \in Worker : job[v] # None)

\* POST /v1/devices/register draws an unused public id.
StartRegister(w, d) ==
    /\ d \notin minted
    /\ minted' = minted \cup {d}
    /\ Begin(w, NewJob("register", d, None))
    /\ UNCHANGED <<store, disk, tmp, acked>>

\* The lookups that refresh and delete do before they change anything: the
\* credential presented is live and its device is active.
StartWith(w, op, k) ==
    /\ Live(store, k)
    /\ store.devices[store.credentials[k].device] = "active"
    /\ Begin(w, NewJob(op, store.credentials[k].device, k))
    /\ UNCHANGED <<store, disk, tmp, minted, acked>>

\* A host's hello updates last_seen and saves; no field kept here changes.
StartTouch(w, d) ==
    /\ store.devices[d] # "absent"
    /\ Begin(w, NewJob("touch", d, None))
    /\ UNCHANGED <<store, disk, tmp, minted, acked>>

Doing(w, op, n) ==
    /\ job[w] # None
    /\ job[w].op = op /\ job[w].at = "mutate" /\ job[w].then = n

CreateDevice(w) ==
    /\ Doing(w, "register", 1)
    /\ Mutate(w, [store EXCEPT !.devices[job[w].device] = "active"])
    /\ UNCHANGED minted

InsertCredential(w, k) ==
    /\ Doing(w, "register", 2)
    /\ k \notin minted
    /\ minted' = minted \cup {k}
    /\ MutateIssuing(w, [store EXCEPT !.credentials[k] =
                             [device |-> job[w].device, revoked |-> FALSE]], k)

\* Mutant: rotation trusts the lookup made before the lock was taken.
CanRotateStale(w) == store.devices[job[w].device] = "active"

\* rotate_refresh looks the token up again under the lock: a credential
\* revoked in the meantime, or a device no longer active, is stale.
CanRotate(w) == /\ Live(store, job[w].cred)
                /\ store.devices[job[w].device] = "active"

RotateRefresh(w, k) ==
    /\ Doing(w, "refresh", 1)
    /\ k \notin minted
    /\ CanRotate(w)
    /\ minted' = minted \cup {k}
    /\ MutateIssuing(w, [store EXCEPT
           !.credentials[job[w].cred] = [device |-> job[w].device, revoked |-> TRUE],
           !.credentials[k] = [device |-> job[w].device, revoked |-> FALSE]], k)

RotateStale(w) ==
    /\ Doing(w, "refresh", 1)
    /\ ~CanRotate(w)
    /\ Fail(w)

RevokeAllForDevice(w) ==
    /\ Doing(w, "delete", 1)
    /\ Mutate(w, [store EXCEPT !.credentials =
           [k \in Cred |-> IF Live(store, k) /\ store.credentials[k].device = job[w].device
                           THEN [store.credentials[k] EXCEPT !.revoked = TRUE]
                           ELSE store.credentials[k]]])
    /\ UNCHANGED minted

\* A device somebody else has deleted meanwhile is reported deleted, unsaved.
AlreadyDeleted(w) ==
    /\ Doing(w, "delete", 2)
    /\ store.devices[job[w].device] = "deleted"
    /\ job' = [job EXCEPT ![w].at = "reply"]
    /\ UNCHANGED <<store, disk, tmp, minted, acked, overlapped>>

SoftDelete(w) ==
    /\ Doing(w, "delete", 2)
    /\ store.devices[job[w].device] # "deleted"
    /\ Mutate(w, [store EXCEPT !.devices[job[w].device] = "deleted"])
    /\ UNCHANGED minted

TouchLastSeen(w) ==
    /\ Doing(w, "touch", 1)
    /\ Mutate(w, store)
    /\ UNCHANGED minted

-----------------------------------------------------------------------------
\* save()

At(w, stage) == job[w] # None /\ job[w].at = stage

SaveSnapshot(w) ==
    /\ At(w, "snapshot")
    /\ job' = [job EXCEPT ![w].copy = store, ![w].at = "write"]
    /\ UNCHANGED <<store, disk, tmp, minted, acked, overlapped>>

SaveWrite(w) ==
    /\ At(w, "write")
    /\ tmp' = job[w].copy
    /\ job' = [job EXCEPT ![w].copy = None, ![w].at = "rename"]
    /\ UNCHANGED <<store, disk, minted, acked, overlapped>>

LastMutation(op) == IF op \in {"register", "delete"} THEN 3 ELSE 2

\* The rename moves whatever the temporary file holds now; it fails when
\* another request has already renamed it away.
SaveRename(w) ==
    /\ At(w, "rename")
    /\ tmp # None
    /\ disk' = tmp
    /\ tmp' = None
    /\ job' = [job EXCEPT ![w].at =
                  IF job[w].then = LastMutation(job[w].op) THEN "reply" ELSE "mutate"]
    /\ UNCHANGED <<store, minted, acked, overlapped>>

SaveRenameFails(w) ==
    /\ At(w, "rename")
    /\ tmp = None
    /\ Fail(w)

\* The temporary file cannot be written, or not renamed: the request fails and
\* the maps stay changed.  (What a write that stops halfway leaves behind is
\* not modelled: the next save replaces it.)
SaveFails(w) ==
    /\ At(w, "write") \/ At(w, "rename")
    /\ Fail(w)

Reply(w) ==
    /\ At(w, "reply")
    /\ acked' = acked \cup
           CASE job[w].op = "register" -> {<<"registered", job[w].device>>}
             [] job[w].op = "delete" -> {<<"deleted", job[w].device>>}
             [] job[w].op = "refresh" -> {<<"rotated", job[w].cred>>}
             [] job[w].op = "touch" -> {}
    /\ job' = [job EXCEPT ![w] = None]
    /\ UNCHANGED <<store, disk, tmp, minted, overlapped>>

\* The process stops; the restarted one loads the registry file.  A temporary
\* file left behind is forgotten: nothing reads it, and every rename follows
\* a write that replaces it.
Restart ==
    /\ MayCrash
    /\ store' = disk
    /\ tmp' = None
    /\ job' = [w \in Worker |-> None]
    /\ UNCHANGED <<disk, minted, acked, overlapped>>

\* A request of some client.
Arrive(w) ==
    \/ \E d \in Device : StartRegister(w, d) \/ StartTouch(w, d)
    \/ \E k \in Cred, op \in {"refresh", "delete"} : StartWith(w, op, k)

Serve(w) ==
    \/ CreateDevice(w)
    \/ \E k \in Cred : InsertCredential(w, k) \/ RotateRefresh(w, k)
    \/ RotateStale(w)
    \/ RevokeAllForDevice(w) \/ SoftDelete(w) \/ AlreadyDeleted(w)
    \/ TouchLastSeen(w)
    \/ SaveSnapshot(w) \/ SaveWrite(w) \/ SaveRename(w) \/ SaveRenameFails(w)

-----------------------------------------------------------------------------
\* A deleted device has no usable credential, in memory and in the registry
\* file, although deletion revokes and deletes in two steps and refreshes of
\* the same device run meanwhile (devices.rs delete_device, refresh_token).
DeletedHasNoCredential ==
    \A st \in {store, disk} : \A k \in Cred :
        Live(st, k) => st.devices[st.credentials[k].device] = "active"

\* A device has at most one usable credential: of several refreshes with the
\* same token exactly one succeeds ("concurrent double-refresh -> one
\* StaleCredential").
OneLiveCredential ==
    \A st \in {store, disk} : \A k, l \in Cred :
        Live(st, k) /\ Live(st, l) /\ st.credentials[k].device = st.credentials[l].device
            => k = l

\* What a client was told has happened is still so after a restart: its
\* device exists, or is deleted (repo/memory.rs: "mutations are written to a
\* JSON file so IDs survive process restart").
ConfirmedSurvives ==
    \A d \in Device :
        /\ <<"registered", d>> \in acked => store.devices[d] # "absent"
        /\ <<"deleted", d>> \in acked => store.devices[d] = "deleted"

\* A confirmed rotation: the refresh token given in stays dead.
RotatedStaysDead == \A k \in Cred : <<"rotated", k>> \in acked => ~Live(store, k)
=============================================================================
