---------------------------- MODULE AccessGates ----------------------------
(***************************************************************************)
(* What stands in front of the signaling server's routes: token buckets    *)
(* (security/rate_limit.rs), the lockout after failed logins               *)
(* (auth_attempts.rs), the key a client is counted under (client_ip.rs),   *)
(* the hosts' block lists (blocklist.rs) and the audit log (audit.rs).     *)
(*                                                                         *)
(* A login is several steps: each lockout key is looked up under the       *)
(* tracker's mutex, the repository is awaited, and each key's failure is   *)
(* recorded under the mutex again; other requests run in between.  An      *)
(* intent's block-list check takes the list's mutex once per subject, and  *)
(* an audit event is stamped before it is pushed.                          *)
(*                                                                         *)
(* Time is counted in ticks.  An address is <<form, machine>>: "v4" is its *)
(* own text, "mapped" the IPv4-mapped IPv6 text of the same address.       *)
(***************************************************************************)
EXTENDS Integers, Sequences, FiniteSets, SequencesExt

CONSTANTS
    Machine,          \* machines clients run on
    Dev,              \* registered devices
    Traffic,          \* requests that are rate limited: [route, machine, device]
    Logins,           \* [Caller -> logins it serves]: [route, machine, device]
    Blockable,        \* subjects owners block
    Viewers,          \* who sends intents: <<machine, device or NoReq>>
    Caller,           \* requests being served at the same time
    NoReq,
    Gates,            \* gates to drive
    MaxEvents, Per,   \* a bucket allows MaxEvents every Per ticks
    MaxFailures, BaseLockout, MaxLockout, FailureWindow,  \* AuthAttemptConfig
    MaxFlight,        \* bound on the ticks a request is in flight
    MaxClock,         \* bound on time, for each gate
    MaxEntries,       \* bound on block-list entries ever added
    MaxAudit,         \* bound on audit events, for each gate
    Page              \* events list_audit returns at most (100 in the code)

ASSUME GatesAssumption ==
    /\ MaxEvents \in Nat /\ Per \in Nat \ {0}
    /\ {MaxFailures, BaseLockout, MaxLockout, FailureWindow} \subseteq Nat \ {0}
    /\ MaxFlight \in Nat /\ MaxFlight <= FailureWindow   \* no login takes 15 minutes
    /\ Traffic \subseteq [route : {"register", "admin", "refresh", "intent"},
                          machine : Machine, device : Dev]
    /\ \A t \in Caller : Logins[t] \subseteq [route : {"hello", "admin", "refresh"},
                                             machine : Machine, device : Dev]
    /\ Viewers \subseteq Machine \X (Dev \cup {NoReq})
    /\ Page \in 1 .. 500

\* What compute_lockout's shift does, of the shifts it takes (at most 20).
ASSUME PowersAssumption == \A n \in 0 .. 20 : 2 ^ n \in Nat /\ 2 ^ (n + 1) = 2 * 2 ^ n

VARIABLES
    gate,       \* which of them this behaviour drives: "limit", "lockout",
                \* "block" or "audit"
    trust_proxy,
    clock,
    call,       \* [Caller -> its request or NoReq]
    buckets,    \* [key -> [tokens, last_refill]], a partial function
    served,     \* [traffic -> when a request of it was let through] (history)
    records,    \* [key -> attempt record], a partial function
    streak,     \* [key -> [n, last, until]]: failures in a row, the last one, and
                \* the end of the longest back-off since a success (history)
    early,      \* keys under which a login got through sooner (history)
    blame,      \* machines and devices a failed login was about (history)
    entries, index, next_id,   \* the block list
    wanted,     \* [device -> subjects its owner was told are blocked] (history)
    verdicts,   \* wrong answers of the block-list check (history)
    events,     \* the audit log in push order
    next_event

lvars == <<buckets, served>>
avars == <<records, streak, early, blame>>
bvars == <<entries, index, next_id, wanted, verdicts>>
gvars == <<gate, trust_proxy, clock, call, lvars, avars, bvars, events, next_event>>

Empty == [k \in {} |-> 0]
With(f, k, v) == [x \in DOMAIN f \cup {k} |-> IF x = k THEN v ELSE f[x]]
Without(f, k) == [x \in DOMAIN f \ {k} |-> f[x]]
Least(a, b) == IF a < b THEN a ELSE b
Most(a, b) == IF a > b THEN a ELSE b
-----------------------------------------------------------------------------
(* The key a client is counted under *)

\* ip_key: IPv4-mapped addresses and plain ones have one text.
IpKey(a) == <<"v4", a[2]>>

\* A header's first hop is taken as it is written if it reads as an address.
NoHop == <<>>
Garbage == <<"not an address">>
Plausible(hop) == Len(hop) = 2
ProxyClientIp(h) == IF Plausible(h.forwarded) THEN h.forwarded ELSE h.real

ResolveClientIp(h, peer) ==
    IF trust_proxy /\ Plausible(ProxyClientIp(h)) THEN ProxyClientIp(h) ELSE IpKey(peer)

Headers == [forwarded : {NoHop, Garbage} \cup ({"v4"} \X Machine), real : {NoHop}]

\* How a machine's request can arrive: directly, with any header; or
\* through a proxy that overwrites X-Forwarded-For with the machine's address.
Arrivals(m) ==
    IF trust_proxy
    THEN {[h |-> [forwarded |-> <<"v4", m>>, real |-> NoHop], peer |-> <<"v4", "proxy">>],
          [h |-> [forwarded |-> Garbage, real |-> <<"v4", m>>], peer |-> <<"v4", "proxy">>]}
    ELSE {[h |-> h, peer |-> <<form, m>>] : h \in Headers, form \in {"v4", "mapped"}}
ClientIps(m) == {ResolveClientIp(a.h, a.peer) : a \in Arrivals(m)}
-----------------------------------------------------------------------------
(* Token buckets.  A token is Per units; a tick refills MaxEvents units.   *)

Capacity == MaxEvents * Per

\* Mutant: the time of the last refill stays that of the first.
RefillFromFirst(b) ==
    [b EXCEPT !.tokens = Least(@ + (clock - b.last_refill) * MaxEvents, Capacity)]

Refill(b) ==
    [tokens |-> Least(b.tokens + (clock - b.last_refill) * MaxEvents, Capacity),
     last_refill |-> clock]

\* RateLimiter::check: the bucket it leaves under the key, and whether the
\* request passes.
FullBucket == [tokens |-> Capacity, last_refill |-> clock]
Bucket(k) == IF k \in DOMAIN buckets THEN buckets[k] ELSE FullBucket
Check(k) ==
    LET b == Refill(Bucket(k)) IN
    IF b.tokens >= Per THEN [ok |-> TRUE, b |-> [b EXCEPT !.tokens = @ - Per]]
    ELSE [ok |-> FALSE, b |-> b]

\* The buckets a route charges: refresh_token and session_intent the
\* address's and then the device's, register_device and force_disconnect the
\* address's alone.  A request the device's refuses has paid its address's.
Charges(r, ip) ==
    IF r.route \in {"register", "admin"} THEN <<<<r.route, ip>>>>
    ELSE <<<<r.route, ip>>, <<r.route, r.device>>>>

Passes(ks) == \A i \in DOMAIN ks : Check(ks[i]).ok
Paid(ks) == {ks[i] : i \in {n \in DOMAIN ks : \A p \in 1 .. n - 1 : Check(ks[p]).ok}}

Charge(r) ==
    \E ip \in ClientIps(r.machine) :
        LET ks == Charges(r, ip) IN
        /\ buckets' = [k \in DOMAIN buckets \cup Paid(ks) |->
                         IF k \in Paid(ks) THEN Check(k).b ELSE buckets[k]]
        /\ served' = IF Passes(ks) THEN [served EXCEPT ![r] = Append(@, clock)] ELSE served

LimiterNext ==
    /\ gate = "limit"
    /\ \E r \in Traffic : Charge(r)
    /\ UNCHANGED <<gate, trust_proxy, clock, call, avars, bvars, events, next_event>>
-----------------------------------------------------------------------------
(* Lockout after failed logins *)

KeyIp(ip) == <<"ip", ip>>
KeyDevice(d) == <<"device", d>>
KeyDeviceIp(d, ip) == <<"device_ip", d, ip>>

Addresses == {<<"v4", m>> : m \in Machine}
LockKeys == {KeyIp(ip) : ip \in Addresses} \cup {KeyIp(<<"admin", ip>>) : ip \in Addresses}
            \cup {KeyDevice(d) : d \in Dev} \cup {KeyDeviceIp(d, ip) : d \in Dev, ip \in Addresses}

\* compute_lockout: base * 2^over, capped.
ComputeLockout(over) == Most(1, Least(BaseLockout * 2 ^ Least(over, 20), MaxLockout))

NoLock == -1
NewRecord == [failures |-> 0, last_failure |-> clock, locked_until |-> NoLock]
Quiet(r) == clock - r.last_failure > FailureWindow
LockedOut(k) == k \in DOMAIN records /\ records[k].locked_until > clock

\* AuthAttemptTracker::record_failure.
Failed(r) ==
    LET n == IF Quiet(r) THEN 1 ELSE r.failures + 1
        until == IF Quiet(r) THEN NoLock ELSE r.locked_until
    IN [failures |-> n, last_failure |-> clock,
        locked_until |-> IF n >= MaxFailures THEN clock + ComputeLockout(n - MaxFailures)
                         ELSE IF clock < until THEN until ELSE NoLock]

\* AuthAttemptTracker::check on a key that is not locked: a count gone
\* quiet is dropped, an expired lock is taken off and its count kept.
Passed(k) ==
    IF k \notin DOMAIN records THEN records
    ELSE IF records[k].locked_until = NoLock /\ Quiet(records[k]) THEN Without(records, k)
    ELSE With(records, k, [records[k] EXCEPT !.locked_until = NoLock])

\* The history of a key after one more failure: a gap longer than the
\* failure window starts the count again.
NoStreak == [n |-> 0, last |-> 0, until |-> 0]
Extended(h) ==
    LET n == IF h.n > 0 /\ clock - h.last <= FailureWindow THEN h.n + 1 ELSE 1
    IN [n |-> n, last |-> clock,
        until |-> IF n < MaxFailures THEN h.until
                  ELSE Most(h.until, clock + ComputeLockout(n - MaxFailures))]

\* The keys a route looks up before it looks at the credential.
CheckKeys(route, d, ip) ==
    CASE route = "hello" -> <<KeyIp(ip)>>
      [] route = "admin" -> <<KeyIp(<<"admin", ip>>)>>
      [] route = "refresh" -> <<KeyIp(ip), KeyDeviceIp(d, ip), KeyDevice(d)>>

\* AuthFailureScope: only a refusal that involved a credential of the
\* device itself counts against the device.
FailureKeys(route, d, ip, outcome) ==
    IF route # "refresh" THEN CheckKeys(route, d, ip)
    ELSE IF outcome = "credential_bound" THEN <<KeyIp(ip), KeyDevice(d), KeyDeviceIp(d, ip)>>
    ELSE <<KeyIp(ip), KeyDeviceIp(d, ip)>>

StartLogin(t, route, m, d) ==
    /\ call[t] = NoReq
    /\ next_event + Cardinality({u \in Caller : call[u] # NoReq}) < MaxAudit[gate]
    /\ \E ip \in ClientIps(m) :
        call' = [call EXCEPT ![t] =
            [at |-> "check", route |-> route, machine |-> m, device |-> d, ip |-> ip,
             todo |-> CheckKeys(route, d, ip), began |-> clock]]
    /\ UNCHANGED <<avars, events, next_event>>

\* One key looked up; a locked one answers 429.
CheckKey(t) ==
    /\ call[t] # NoReq /\ call[t].at = "check"
    /\ LET k == Head(call[t].todo) IN
        \/ /\ LockedOut(k)
           /\ call' = [call EXCEPT ![t] = NoReq]
           /\ UNCHANGED avars
        \/ /\ ~LockedOut(k)
           /\ records' = Passed(k)
           /\ call' = [call EXCEPT
                  ![t].todo = Tail(@),
                  ![t].at = IF Len(call[t].todo) = 1 THEN "verify" ELSE "check"]
           /\ early' = IF clock < streak[k].until THEN early \cup {k} ELSE early
           /\ UNCHANGED <<streak, blame>>
    /\ UNCHANGED <<events, next_event>>

\* The repository, or the comparison with the admin token, has answered.
VerifyFails(t, outcome) ==
    /\ call[t] # NoReq /\ call[t].at = "verify"
    /\ call[t].route # "refresh" => outcome = "ip_only"
    /\ call' = [call EXCEPT ![t].at = "record",
           ![t].todo = FailureKeys(call[t].route, call[t].device, call[t].ip, outcome)]
    /\ blame' = blame \cup {call[t].machine}
                \cup IF outcome = "credential_bound" THEN {call[t].device} ELSE {}
    /\ UNCHANGED <<records, streak, early, events, next_event>>

\* One key's failure recorded; after the last the failure is audited (here
\* counted; what is kept of an event is below).
RecordFailure(t) ==
    /\ call[t] # NoReq /\ call[t].at = "record"
    /\ LET k == Head(call[t].todo) IN
        /\ records' = With(records, k, Failed(IF k \in DOMAIN records THEN records[k]
                                              ELSE NewRecord))
        /\ streak' = [streak EXCEPT ![k] = Extended(@)]
        /\ IF Len(call[t].todo) = 1
           THEN /\ call' = [call EXCEPT ![t] = NoReq]
                /\ next_event' = next_event + 1
           ELSE /\ call' = [call EXCEPT ![t].todo = Tail(@)]
                /\ UNCHANGED next_event
    /\ UNCHANGED <<early, blame, events>>

\* record_success on every key the route looked up.
Succeed(t) ==
    /\ call[t] # NoReq /\ call[t].at = "verify"
    /\ LET ks == Range(CheckKeys(call[t].route, call[t].device, call[t].ip)) IN
        /\ records' = [k \in DOMAIN records \ ks |-> records[k]]
        /\ streak' = [k \in LockKeys |-> IF k \in ks THEN NoStreak ELSE streak[k]]
    /\ call' = [call EXCEPT ![t] = NoReq]
    /\ UNCHANGED <<early, blame, events, next_event>>

LoginNext ==
    /\ gate = "lockout"
    /\ \E t \in Caller :
        \/ \E r \in Logins[t] : StartLogin(t, r.route, r.machine, r.device)
        \/ CheckKey(t)
        \/ \E outcome \in {"ip_only", "credential_bound"} : VerifyFails(t, outcome)
        \/ RecordFailure(t)
        \/ Succeed(t)
    /\ UNCHANGED <<gate, trust_proxy, clock, lvars, bvars>>
-----------------------------------------------------------------------------
(* Block lists.  A subject is <<type, text>>, kept as a hash of the text.  *)

Subjects == ({"ip"} \X ({"v4", "mapped"} \X Machine))
            \cup ({"device", "viewer_fingerprint"} \X Dev)
ASSUME BlockableAssumption == Blockable \subseteq Subjects

TokenStates == {"live", "expired", "unknown"}

\* The owner's routes need a live access token of the device in the path.
AuthorizeDeviceOwner(token, path) == token.state = "live" /\ token.device = path

Indexed(host, subject) == \E id \in 1 .. next_id : <<host, subject, id>> \in index
Listed(host, subject) == \E e \in entries : e.host = host /\ e.subject = subject

\* Requests whose intent is being checked learn what was listed meanwhile.
Ever(host, subject) ==
    [t \in Caller |-> IF call[t] # NoReq /\ call[t].host = host /\ subject \in call[t].subjects
                    THEN [call[t] EXCEPT !.ever = TRUE] ELSE call[t]]
NoLonger(host, subject) ==
    [t \in Caller |-> IF call[t] # NoReq /\ call[t].host = host
                    THEN [call[t] EXCEPT !.throughout = @ \ {subject}] ELSE call[t]]

BlocklistEntry(id, host, subject) == [id |-> id, host |-> host, subject |-> subject]

\* add_blocklist; a subject already blocked for the host is a conflict.
AddBlocklist(token, path, subject) ==
    /\ AuthorizeDeviceOwner(token, path)
    /\ ~Indexed(path, subject)
    /\ next_id < MaxEntries
    /\ next_id' = next_id + 1
    /\ index' = index \cup {<<path, subject, next_id'>>}
    /\ entries' = entries \cup {BlocklistEntry(next_id', path, subject)}
    /\ wanted' = [wanted EXCEPT ![token.device] = @ \cup {subject}]
    /\ call' = Ever(path, subject)
    /\ UNCHANGED verdicts

\* Mutant: the entry goes and the index keeps it.
RemoveEntryOnly(token, path, id) ==
    /\ AuthorizeDeviceOwner(token, path)
    /\ \E e \in entries :
        /\ e.id = id /\ e.host = path
        /\ entries' = entries \ {e}
        /\ wanted' = [wanted EXCEPT ![token.device] = @ \ {e.subject}]
        /\ call' = NoLonger(e.host, e.subject)
    /\ UNCHANGED <<index, next_id, verdicts>>

\* remove_blocklist; another host's entry is not found.
RemoveBlocklist(token, path, id) ==
    /\ AuthorizeDeviceOwner(token, path)
    /\ \E e \in entries :
        /\ e.id = id /\ e.host = path
        /\ entries' = entries \ {e}
        /\ index' = {x \in index : x[1] # e.host \/ x[2] # e.subject}
        /\ wanted' = [wanted EXCEPT ![token.device] = @ \ {e.subject}]
        /\ call' = NoLonger(e.host, e.subject)
    /\ UNCHANGED <<next_id, verdicts>>

\* session_intent asks for the viewer's address and, of a viewer that logged
\* in with a device, its public id as device and as fingerprint.
IntentSubjects(ip, viewer) ==
    <<<<"ip", ip>>>> \o IF viewer = NoReq THEN <<>>
                        ELSE <<<<"device", viewer>>, <<"viewer_fingerprint", viewer>>>>

StartIntent(t, m, viewer, host) ==
    /\ call[t] = NoReq
    /\ \E ip \in ClientIps(m) :
        LET ss == IntentSubjects(ip, viewer) IN
        call' = [call EXCEPT ![t] =
            [at |-> "blocklist", host |-> host, todo |-> ss, subjects |-> Range(ss),
             ever |-> \E s \in Range(ss) : Listed(host, s),
             throughout |-> {s \in Range(ss) : Listed(host, s)}, began |-> clock]]
    /\ UNCHANGED bvars

\* any_blocked, one subject under the list's mutex.
CheckSubject(t) ==
    /\ call[t] # NoReq /\ call[t].at = "blocklist"
    /\ LET r == call[t] hit == Indexed(r.host, Head(r.todo)) last == Len(r.todo) = 1 IN
        /\ call' = [call EXCEPT ![t] = IF hit \/ last THEN NoReq ELSE [r EXCEPT !.todo = Tail(@)]]
        /\ verdicts' = verdicts
               \cup (IF hit /\ ~r.ever THEN {"refused_unlisted"} ELSE {})
               \cup (IF ~hit /\ last /\ r.throughout # {} THEN {"admitted_listed"} ELSE {})
    /\ UNCHANGED <<entries, index, next_id, wanted>>

BlocklistNext ==
    /\ gate = "block"
    /\ \/ \E d, path \in Dev, st \in TokenStates :
            LET token == [device |-> d, state |-> st] IN
            \/ \E s \in Blockable : AddBlocklist(token, path, s)
            \/ \E id \in 1 .. next_id : RemoveBlocklist(token, path, id)
       \/ \E t \in Caller :
            \/ \E v \in Viewers, host \in Dev : StartIntent(t, v[1], v[2], host)
            \/ CheckSubject(t)
    /\ UNCHANGED <<gate, trust_proxy, clock, lvars, avars, events, next_event>>
-----------------------------------------------------------------------------
(* The audit log *)

\* MemoryAuditStore::append: an id is drawn, the event is stamped, pushed.
AppendId(t, d) ==
    /\ call[t] = NoReq
    /\ next_event < MaxAudit[gate]
    /\ next_event' = next_event + 1
    /\ call' = [call EXCEPT ![t] = [at |-> "stamp", id |-> next_event', device |-> d,
                                    began |-> clock]]
    /\ UNCHANGED events

AppendStamp(t) ==
    /\ call[t] # NoReq /\ call[t].at = "stamp"
    /\ call' = [call EXCEPT ![t] = [at |-> "push", id |-> @.id, device |-> @.device,
                                    created_at |-> clock, began |-> @.began]]
    /\ UNCHANGED <<events, next_event>>

AuditEvent(req) == [id |-> req.id, device |-> req.device, created_at |-> req.created_at]

AppendPush(t) ==
    /\ call[t] # NoReq /\ call[t].at = "push"
    /\ events' = Append(events, AuditEvent(call[t]))
    /\ call' = [call EXCEPT ![t] = NoReq]
    /\ UNCHANGED next_event

Newer(a, b) == a.created_at > b.created_at \/ (a.created_at = b.created_at /\ a.id > b.id)
Clamp500(n) == Most(1, Least(n, 500))

\* Mutant: the events pushed last, without the sort.
ListPushedLast(d, limit) ==
    LET mine == SelectSeq(events, LAMBDA e : e.device = d)
        n == Least(Len(mine), Clamp500(limit))
    IN SubSeq(mine, Len(mine) - n + 1, Len(mine))

NewestFirst(S) ==
    CHOOSE s \in [1 .. Cardinality(S) -> S] :
        Range(s) = S /\ \A i, j \in DOMAIN s : i < j => Newer(s[i], s[j])

\* list_for_device: newest first, cut off.
ListForDevice(d, limit) ==
    LET mine == NewestFirst({e \in Range(events) : e.device = d})
    IN SubSeq(mine, 1, Least(Len(mine), Clamp500(limit)))

AuditNext ==
    /\ gate = "audit"
    /\ \E t \in Caller : (\E d \in Dev : AppendId(t, d)) \/ AppendStamp(t) \/ AppendPush(t)
    /\ UNCHANGED <<gate, trust_proxy, clock, lvars, avars, bvars>>
-----------------------------------------------------------------------------
GatesInit ==
    /\ gate \in Gates
    /\ trust_proxy \in BOOLEAN
    /\ gate # "limit" => ~trust_proxy
    /\ clock = 0
    /\ call = [t \in Caller |-> NoReq]
    /\ buckets = Empty /\ served = [r \in Traffic |-> <<>>]
    /\ records = Empty /\ streak = [k \in LockKeys |-> NoStreak] /\ early = {} /\ blame = {}
    /\ entries = {} /\ index = {} /\ next_id = 0
    /\ wanted = [d \in Dev |-> {}] /\ verdicts = {}
    /\ events = <<>> /\ next_event = 0

GatesTick ==
    /\ clock < MaxClock[gate]
    /\ \A t \in Caller : call[t] # NoReq => clock - call[t].began < MaxFlight
    /\ clock' = clock + 1
    /\ UNCHANGED <<gate, trust_proxy, call, lvars, avars, bvars, events, next_event>>

GatesNext == LimiterNext \/ LoginNext \/ BlocklistNext \/ AuditNext \/ GatesTick

GatesSpec == GatesInit /\ [][GatesNext]_gvars
-----------------------------------------------------------------------------
\* However a machine's requests are spelled and spread over time, and
\* whatever headers it adds, no interval of length L lets more than
\* MaxEvents + L * MaxEvents / Per of its requests to a route through
\* (rate_limit.rs check and refill, client_ip.rs resolve_client_ip).
LimiterBound ==
    \A r \in Traffic : \A i, j \in DOMAIN served[r] :
        i <= j => (j - i + 1) * Per <= Capacity + (served[r][j] - served[r][i]) * MaxEvents

\* After MaxFailures failures in a row under a key, every request that looks
\* the key up and is let through comes only after the whole back-off of
\* every failure before it since the last success, however many requests
\* were already past their own look-up when the key was locked and recorded
\* their failure late (auth_attempts.rs check, record_failure,
\* compute_lockout).
BackOffHolds == early = {}

\* Nobody is locked out by strangers: a key is locked only if a login of that
\* machine failed, and a device's own key only if one of its credentials was
\* refused (devices.rs AuthFailureScope: "Never increments bare
\* device:{public_id}").
StrangersLockNobody ==
    \A k \in LockKeys : LockedOut(k) =>
        CASE k[1] = "device" -> k[2] \in blame
          [] k[1] = "device_ip" -> k[3][2] \in blame
          [] k[1] = "ip" -> \E m \in blame : k[2] \in {<<"v4", m>>, <<"admin", <<"v4", m>>>>}

\* What an owner was told is blocked is what its list holds, and is what the
\* check goes by: an intent is let through only if none of its subjects was
\* listed all the while, and refused only if one was listed at some time
\* (blocklist.rs entries and index, any_blocked).
BlocklistExact ==
    /\ \A d \in Dev : wanted[d] = {e.subject : e \in {x \in entries : x.host = d}}
    /\ verdicts = {}

\* The gates in front of the routes let nobody through too often, too soon or
\* against the owner's list, and keep nobody out for another's failures.
GatesHold == LimiterBound /\ BackOffHolds /\ StrangersLockNobody /\ BlocklistExact

\* A page of the audit log is the newest events of the device there are,
\* although concurrent appends push them out of order (audit.rs append,
\* list_for_device).
AuditPageNewest ==
    \A d \in Dev :
        LET page == ListForDevice(d, Page)
            mine == {e \in Range(events) : e.device = d}
        IN /\ Len(page) = Least(Page, Cardinality(mine))
           /\ \A e \in mine \ Range(page) : \A f \in Range(page) : Newer(f, e)
=============================================================================
