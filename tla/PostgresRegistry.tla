-------------------------- MODULE PostgresRegistry --------------------------
(***************************************************************************)
(* The requests of DeviceRegistry over either repository: the registry     *)
(* file, or Postgres (apps/server/src/repo/postgres.rs).                   *)
(*                                                                         *)
(* On Postgres every repository call is one statement that commits by      *)
(* itself, except rotate_refresh, a transaction that locks the row of the  *)
(* old credential and nothing of the device.  The database itself is       *)
(* external: it runs at its default isolation (the code sets none), so a   *)
(* statement sees the rows committed when it began, waits for a row that   *)
(* another transaction has locked, and then looks at that row again, but   *)
(* never at rows inserted while it waited.                                 *)
(*                                                                         *)
(* store and disk are the committed tables; a transaction's own changes    *)
(* are invisible until it commits, so they are made in its last step.      *)
(***************************************************************************)
EXTENDS DeviceRegistry

CONSTANT Backend        \* the repositories the server may be started with

VARIABLE backend        \* the one it was started with

ASSUME BackendAssumption == Backend \subseteq {"file", "postgres"}

-----------------------------------------------------------------------------
\* A statement committed by itself: the tables are changed and durable, and
\* the request goes on, with credential k to be given in the reply.
StatementIssuing(w, st, k) ==
    /\ store' = st
    /\ disk' = st
    /\ job' = [job EXCEPT ![w].copy = None,
                          ![w].issued = k,
                          ![w].then = @ + 1,
                          ![w].at = IF job[w].then + 1 = LastMutation(job[w].op)
                                    THEN "reply" ELSE "mutate"]
    /\ UNCHANGED <<tmp, acked, overlapped>>

Statement(w, st) == StatementIssuing(w, st, job[w].issued)

\* What a lookup by token hash gives: nothing if the credential is revoked,
\* else the credential joined with its device.
FindByHash(k) == {c \in {store.credentials[k]} : Live(store, k)}

JoinRow(c) == [device |-> c.device, status |-> store.devices[c.device]]

\* A transaction has locked the row of credential k.
Locked(k) == \E v \in Worker : At(v, "locked") /\ job[v].cred = k

InsertDeviceRow(w) ==
    /\ Doing(w, "register", 1)
    /\ Statement(w, [store EXCEPT !.devices[job[w].device] = "active"])
    /\ UNCHANGED minted

InsertCredentialRow(w, k) ==
    /\ Doing(w, "register", 2)
    /\ k \notin minted
    /\ minted' = minted \cup {k}
    /\ StatementIssuing(w, [store EXCEPT !.credentials[k] =
                                [device |-> job[w].device, revoked |-> FALSE]], k)

\* rotate_refresh begins: SELECT ... FOR UPDATE OF c, once no other
\* transaction holds the row.
SelectForUpdate(w) ==
    /\ Doing(w, "refresh", 1)
    /\ ~Locked(job[w].cred)
    /\ \E c \in FindByHash(job[w].cred) : JoinRow(c).status = "active"
    /\ job' = [job EXCEPT ![w].at = "locked"]
    /\ UNCHANGED <<store, disk, tmp, minted, acked, overlapped>>

\* No such row any more, or its device is not active: rolled back.
StaleRow(w) ==
    /\ Doing(w, "refresh", 1)
    /\ ~Locked(job[w].cred)
    /\ \A c \in FindByHash(job[w].cred) : JoinRow(c).status # "active"
    /\ Fail(w)

\* The old row is revoked, the new one inserted, the device's last_seen set,
\* all with the commit.  The UPDATE's own revoked_at IS NULL cannot fail:
\* whoever revokes the row needs its lock.
CommitRotation(w, k) ==
    /\ At(w, "locked")
    /\ k \notin minted
    /\ minted' = minted \cup {k}
    /\ StatementIssuing(w, [store EXCEPT
           !.credentials[job[w].cred] = [device |-> job[w].device, revoked |-> TRUE],
           !.credentials[k] = [device |-> job[w].device, revoked |-> FALSE]], k)

\* revoke_all_for_device begins: its UPDATE will visit the rows it sees now.
BeginRevokeAll(w) ==
    /\ Doing(w, "delete", 1)
    /\ job' = [job EXCEPT ![w].at = "update", ![w].copy = store]
    /\ UNCHANGED <<store, disk, tmp, minted, acked, overlapped>>

\* The rows the UPDATE saw, revoked unless they were meanwhile; it waits for
\* those that are locked.
RevokeAllRows(w) ==
    LET seen == {k \in Cred : /\ Live(job[w].copy, k)
                              /\ job[w].copy.credentials[k].device = job[w].device}
    IN  /\ At(w, "update")
        /\ \A k \in seen : ~Locked(k)
        /\ Statement(w, [store EXCEPT !.credentials =
               [k \in Cred |-> IF k \in seen THEN [@[k] EXCEPT !.revoked = TRUE] ELSE @[k]]])
        /\ UNCHANGED minted

\* Deleting a device that is deleted already also reports TRUE.
SoftDeleteRow(w) ==
    /\ Doing(w, "delete", 2)
    /\ Statement(w, [store EXCEPT !.devices[job[w].device] = "deleted"])
    /\ UNCHANGED minted

TouchRow(w) ==
    /\ Doing(w, "touch", 1)
    /\ Statement(w, store)
    /\ UNCHANGED minted

\* The connection or the database fails a statement: the request fails and
\* its open transaction is rolled back, or was committed and only the answer
\* is lost.
StatementFails(w) ==
    /\ job[w] # None
    /\ Fail(w)

\* The server process stops and connects again; transactions are rolled back.
Reconnect ==
    /\ MayCrash
    /\ job' = [w \in Worker |-> None]
    /\ UNCHANGED <<store, disk, tmp, minted, acked, overlapped>>

PostgresServe(w) ==
    \/ InsertDeviceRow(w)
    \/ \E k \in Cred : InsertCredentialRow(w, k) \/ CommitRotation(w, k)
    \/ SelectForUpdate(w) \/ StaleRow(w)
    \/ BeginRevokeAll(w) \/ RevokeAllRows(w) \/ SoftDeleteRow(w)
    \/ TouchRow(w)

\* The server, whichever repository it runs on: it serves a request, a
\* request or the process fails.
ServeStep(w) == IF backend = "file" THEN Serve(w) ELSE PostgresServe(w)
RequestFails(w) == IF backend = "file" THEN SaveFails(w) ELSE StatementFails(w)
ServerRestarts == IF backend = "file" THEN Restart ELSE Reconnect

-----------------------------------------------------------------------------
\* The credentials a device can be used with, whatever requests overlap: of
\* several refreshes with one token one succeeds, on both repositories, and
\* a deleted device has no credential left.  On Postgres the latter is so
\* only while requests do not overlap: a delete that waits for the row lock
\* of a refresh does not see the row the refresh inserted.
CredentialsSound ==
    /\ TypeOK
    /\ backend \in Backend
    /\ OneLiveCredential
    /\ backend = "file" \/ ~overlapped => DeletedHasNoCredential

\* The repository loses nothing it has confirmed: Postgres never does, the
\* registry file only when requests overlap.
Durable == backend = "postgres" \/ ~overlapped
=============================================================================
