----------------------- MODULE SignalingServerProofs -----------------------
(***************************************************************************)
(* Proofs about the server: AccessGates, SessionRegistry, and              *)
(* SignalingServer, which puts the handlers before the registry.           *)
(*                                                                         *)
(* AccessGates, for any machines, devices, callers and limits: a bucket    *)
(* never holds more than what the requests it let through have left of it  *)
(* (BucketInv).  A key's record and the failures in a row it stands for    *)
(* keep in step, and a request that looked a key up before it was locked   *)
(* records its failure soon enough to find the count as it was             *)
(* (LockoutInv).  The block list's index is that of its entries, and an    *)
(* intent being checked still has every subject to come that was listed    *)
(* all the while (BlockInv).  Audit events are pushed out of order, each   *)
(* with an id of its own (AuditInv), and listed in order.                  *)
(*                                                                         *)
(* The registry and its handlers, for any sets of connections, hosts and   *)
(* session ids, any u64::MAX, any number of attempts and any lifetimes:    *)
(* what the registry promises it still promises under its handlers, and    *)
(* one-time codes are bounded in guesses and spent as they should be.      *)
(***************************************************************************)
EXTENDS SignalingServer, AccessGates, SequenceTheorems, FiniteSetTheorems,
        WellFoundedInduction, TLAPS

-----------------------------------------------------------------------------
\* Token buckets.

\* A machine has one text, whichever way its requests come (client_ip.rs
\* resolve_client_ip).
LEMMA OneText ==
    ASSUME NEW m \in Machine, NEW ip \in ClientIps(m) PROVE ip = <<"v4", m>>
  <1> DEFINE text == <<"v4", m>>
  <1>1. Plausible(text) /\ ~Plausible(NoHop) /\ ~Plausible(Garbage)
    BY DEF Plausible, NoHop, Garbage
  <1>2. PICK a \in Arrivals(m) : ip = ResolveClientIp(a.h, a.peer)
    BY DEF ClientIps
  <1>3. CASE trust_proxy
    <2>1. ProxyClientIp(a.h) = text
      BY <1>1, <1>2, <1>3 DEF Arrivals, ProxyClientIp
    <2> QED
      BY <1>1, <1>2, <1>3, <2>1 DEF ResolveClientIp
  <1>4. CASE ~trust_proxy
    <2>1. a.peer[2] = m
      BY <1>2, <1>4 DEF Arrivals
    <2> QED
      BY <1>2, <1>4, <2>1 DEF ResolveClientIp, IpKey
  <1> QED
    BY <1>3, <1>4

\* The bucket of a route and a machine.
OwnKey(r) == <<r.route, <<"v4", r.machine>>>>

\* What the requests let through since the i-th have cost, and what is left.
Times(a, b) == a * b
Spent(r, i) == Times(Len(served[r]) - i + 1, Per)
Refilled(r, i) == Times(buckets[OwnKey(r)].last_refill - served[r][i], MaxEvents)

BucketOk(b) == /\ b \in [tokens : Nat, last_refill : Nat]
               /\ b.tokens <= Capacity /\ b.last_refill <= clock
PaidFor(r, i) ==
    /\ OwnKey(r) \in DOMAIN buckets
    /\ Spent(r, i) + buckets[OwnKey(r)].tokens <= Capacity + Refilled(r, i)

BucketInv ==
    /\ clock \in Nat
    /\ \A k \in DOMAIN buckets : BucketOk(buckets[k])
    /\ served \in [Traffic -> Seq(Nat)]
    /\ \A r \in Traffic : \A i \in 1 .. Len(served[r]) : PaidFor(r, i)
    /\ LimiterBound

\* Products.
LEMMA TimesFacts ==
    /\ \A a, b \in Nat : Times(a, b) \in Nat
    /\ \A a, b \in Int : Times(a, b) \in Int
    /\ \A a, b, c \in Int : Times(a + b, c) = Times(a, c) + Times(b, c)
    /\ \A a \in Int : Times(1, a) = a /\ Times(0, a) = 0
  BY DEF Times

\* The capacity of a bucket.
LEMMA CapacityNat == Capacity \in Nat /\ Per \in Nat /\ Per > 0 /\ MaxEvents \in Nat
  BY GatesAssumption, TimesFacts DEF Capacity, Times

\* A refill adds what the time since the last one is worth, or less.
LEMMA RefillFacts ==
    ASSUME NEW k, clock \in Nat, k \in DOMAIN buckets => BucketOk(buckets[k])
    PROVE  /\ BucketOk(Refill(Bucket(k))) /\ Refill(Bucket(k)).last_refill = clock
           /\ k \in DOMAIN buckets =>
                Refill(Bucket(k)).tokens
                    <= buckets[k].tokens + Times(clock - buckets[k].last_refill, MaxEvents)
  <1> DEFINE b == Bucket(k)
             gain == Times(clock - b.last_refill, MaxEvents)
  <1>1. BucketOk(b)
    BY CapacityNat DEF Bucket, FullBucket, BucketOk
  <1>2. b.tokens \in Nat /\ b.last_refill \in Nat /\ clock - b.last_refill \in Nat
    BY <1>1 DEF BucketOk
  <1>3. gain \in Nat
    BY <1>2, CapacityNat, TimesFacts
  <1>4. Refill(b) = [tokens |-> Least(b.tokens + gain, Capacity), last_refill |-> clock]
    BY DEF Refill, Times
  <1>5. k \in DOMAIN buckets => b = buckets[k]
    BY DEF Bucket
  <1> HIDE DEF b
  <1> DEFINE tokens == Least(b.tokens + gain, Capacity)
  <1>6. tokens \in Nat /\ tokens <= Capacity /\ tokens <= b.tokens + gain
    BY <1>2, <1>3, CapacityNat DEF Least
  <1>7. Refill(b).tokens = tokens /\ Refill(b).last_refill = clock
    BY <1>4
  <1>8. BucketOk(Refill(b))
    BY <1>4, <1>6 DEF BucketOk
  <1> HIDE DEF tokens, gain
  <1> QED
    BY <1>5, <1>6, <1>7, <1>8 DEF b, gain

\* A request that passes leaves a token less than the refill.
LEMMA CheckFacts ==
    ASSUME NEW k, clock \in Nat, k \in DOMAIN buckets => BucketOk(buckets[k])
    PROVE  LET before == Refill(Bucket(k)) after == Check(k).b IN
           /\ BucketOk(after) /\ after.last_refill = clock
           /\ after.tokens <= before.tokens
           /\ Check(k).ok => after.tokens + Per = before.tokens
  <1> DEFINE before == Refill(Bucket(k))
  <1>1. BucketOk(before) /\ before.last_refill = clock
    BY RefillFacts
  <1> HIDE DEF before
  <1>2. Check(k) = IF before.tokens >= Per
                   THEN [ok |-> TRUE, b |-> [before EXCEPT !.tokens = @ - Per]]
                   ELSE [ok |-> FALSE, b |-> before]
    BY DEF Check, before
  <1>3. before \in [tokens : Nat, last_refill : Nat] /\ before.tokens <= Capacity
    BY <1>1 DEF BucketOk
  <1>4. CASE before.tokens >= Per
    <2> DEFINE after == [before EXCEPT !.tokens = @ - Per]
    <2>1. /\ after \in [tokens : Nat, last_refill : Nat] /\ after.last_refill = clock
          /\ after.tokens + Per = before.tokens /\ after.tokens <= before.tokens
          /\ after.tokens <= Capacity
      BY <1>1, <1>3, <1>4, CapacityNat
    <2>2. Check(k).b = after /\ Check(k).ok
      BY <1>2, <1>4
    <2> HIDE DEF after
    <2> QED
      BY <2>1, <2>2 DEF BucketOk, before
  <1>5. CASE ~(before.tokens >= Per)
    <2>1. Check(k).b = before /\ ~Check(k).ok
      BY <1>2, <1>5
    <2> QED
      BY <1>1, <1>3, <2>1 DEF before
  <1> QED
    BY <1>4, <1>5

\* A request charged leaves the buckets sound, and its cost is paid.
LEMMA ChargeKeeps ==
    ASSUME BucketInv, NEW r \in Traffic, Charge(r), UNCHANGED clock
    PROVE  BucketInv'
  <1>1. PICK ip \in ClientIps(r.machine) :
          LET ks == Charges(r, ip) IN
          /\ buckets' = [k \in DOMAIN buckets \cup Paid(ks) |->
                           IF k \in Paid(ks) THEN Check(k).b ELSE buckets[k]]
          /\ served' = IF Passes(ks) THEN [served EXCEPT ![r] = Append(@, clock)] ELSE served
    BY DEF Charge
  <1> DEFINE ks == Charges(r, ip)
             paid == Paid(ks)
             own == OwnKey(r)
  <1>2. own \in paid /\ (Passes(ks) => Check(own).ok)
    <2>1. r.machine \in Machine
      BY GatesAssumption
    <2>2. ip = <<"v4", r.machine>>
      BY <2>1, OneText
    <2>3. ks[1] = own /\ 1 \in DOMAIN ks
      BY <2>2 DEF Charges, OwnKey
    <2>4. \A p \in 1 .. 1 - 1 : FALSE
      OBVIOUS
    <2> HIDE DEF ks, own
    <2> QED
      BY <2>3, <2>4 DEF Paid, Passes
  <1>3. /\ DOMAIN buckets' = DOMAIN buckets \cup paid
        /\ \A k \in paid : buckets'[k] = Check(k).b
        /\ \A k \in DOMAIN buckets \ paid : buckets'[k] = buckets[k]
    BY <1>1
  <1>4. served' = IF Passes(ks) THEN [served EXCEPT ![r] = Append(@, clock)] ELSE served
    BY <1>1
  <1>5. clock \in Nat /\ clock' = clock /\ served \in [Traffic -> Seq(Nat)]
    BY DEF BucketInv
  <1> HIDE DEF ks, paid, own
  <1>6. \A k \in DOMAIN buckets' : BucketOk(buckets'[k])
    BY <1>3, <1>5, CheckFacts DEF BucketInv
  <1> DEFINE cost(k) == IF k = own /\ Passes(ks) THEN Per ELSE 0
  <1>7. \A k \in DOMAIN buckets : \* no bucket gains more than time is worth
            /\ k \in DOMAIN buckets' /\ BucketOk(buckets[k]) /\ BucketOk(buckets'[k])
            /\ buckets'[k].tokens + cost(k) <= buckets[k].tokens
                   + Times(buckets'[k].last_refill - buckets[k].last_refill, MaxEvents)
    <2> TAKE k \in DOMAIN buckets
    <2> DEFINE b == buckets[k]   after == buckets'[k]
               gain == Times(after.last_refill - b.last_refill, MaxEvents)
    <2>1. BucketOk(b) /\ BucketOk(after) /\ k \in DOMAIN buckets'
      BY <1>3, <1>6 DEF BucketInv
    <2>2. CASE k \in paid
      <3>1. /\ after.last_refill = clock
            /\ after.tokens <= Refill(Bucket(k)).tokens
            /\ Check(k).ok => after.tokens + Per = Refill(Bucket(k)).tokens
        BY <1>3, <1>5, <2>1, <2>2, CheckFacts
      <3>2. BucketOk(Refill(Bucket(k))) /\ Refill(Bucket(k)).tokens <= b.tokens + gain
        BY <1>5, <2>1, <3>1, RefillFacts
      <3>3. gain \in Int
        BY <2>1, CapacityNat DEF BucketOk, Times
      <3>4. k = own /\ Passes(ks) => Check(k).ok
        BY <1>2
      <3> HIDE DEF gain
      <3>5. after.tokens + cost(k) <= b.tokens + gain
        BY <2>1, <3>1, <3>2, <3>3, <3>4, CapacityNat DEF BucketOk
      <3> QED
        BY <2>1, <3>5 DEF gain
    <2>3. CASE k \notin paid
      <3>1. after = b /\ k # own
        BY <1>2, <1>3, <2>3
      <3>2. gain = 0
        BY <2>1, <3>1, CapacityNat DEF BucketOk, Times
      <3>3. b.tokens \in Nat
        BY <2>1 DEF BucketOk
      <3> HIDE DEF gain
      <3> QED
        BY <2>1, <3>1, <3>2, <3>3 DEF gain
    <2> QED
      BY <2>2, <2>3
  <1>8. Passes(ks) => /\ own \in DOMAIN buckets' /\ BucketOk(buckets'[own])
                      /\ buckets'[own].last_refill = clock
                      /\ buckets'[own].tokens + Per <= Capacity
    <2> SUFFICES ASSUME Passes(ks)
                 PROVE  /\ own \in DOMAIN buckets' /\ BucketOk(buckets'[own])
                        /\ buckets'[own].last_refill = clock
                        /\ buckets'[own].tokens + Per <= Capacity
      OBVIOUS
    <2>1. own \in DOMAIN buckets => BucketOk(buckets[own])
      BY DEF BucketInv
    <2>2. /\ buckets'[own].last_refill = clock
          /\ buckets'[own].tokens + Per = Refill(Bucket(own)).tokens
      BY <1>2, <1>3, <1>5, <2>1, CheckFacts
    <2>3. BucketOk(Refill(Bucket(own)))
      BY <1>5, <2>1, RefillFacts
    <2> QED
      BY <1>2, <1>3, <1>6, <2>2, <2>3 DEF BucketOk
  <1>9. \A q \in Traffic : /\ q # r \/ ~Passes(ks) => served'[q] = served[q]
                           /\ q = r /\ Passes(ks) => served'[q] = Append(served[q], clock)
    BY <1>4, <1>5
  <1>10. ASSUME NEW q \in Traffic, NEW i \in 1 .. Len(served[q])
         PROVE  /\ OwnKey(q) \in DOMAIN buckets'
                /\ Spent(q, i) + cost(OwnKey(q)) + buckets'[OwnKey(q)].tokens
                     <= Capacity
                        + Times(buckets'[OwnKey(q)].last_refill - served[q][i], MaxEvents)
    <2> DEFINE k == OwnKey(q)
               b == buckets[k]
               after == buckets'[k]
               s == served[q][i]
               gain == Times(after.last_refill - b.last_refill, MaxEvents)
               old == Times(b.last_refill - s, MaxEvents)
               all == Times(after.last_refill - s, MaxEvents)
               spent == Spent(q, i)
    <2>1. k \in DOMAIN buckets /\ spent + b.tokens <= Capacity + old
      BY DEF BucketInv, PaidFor, Refilled
    <2>2. /\ k \in DOMAIN buckets' /\ BucketOk(b) /\ BucketOk(after)
          /\ after.tokens + cost(k) <= b.tokens + gain
      BY <1>7, <2>1
    <2>3. s \in Nat /\ i \in Int /\ Len(served[q]) \in Int
      BY <1>5, ElementOfSeq
    <2>4. all = gain + old /\ all \in Int /\ gain \in Int /\ old \in Int
      <3> DEFINE x == after.last_refill - b.last_refill   y == b.last_refill - s
      <3>1. x \in Int /\ y \in Int /\ after.last_refill - s = x + y
        BY <2>2, <2>3 DEF BucketOk
      <3> HIDE DEF x, y
      <3>2. all = Times(x + y, MaxEvents) /\ gain = Times(x, MaxEvents) /\ old = Times(y, MaxEvents)
        BY <3>1 DEF x, y
      <3>3. Times(x + y, MaxEvents) = Times(x, MaxEvents) + Times(y, MaxEvents)
        BY <3>1, CapacityNat, TimesFacts
      <3> QED
        BY <3>1, <3>2, <3>3, CapacityNat, TimesFacts
    <2>5. spent \in Int /\ cost(k) \in Int
      BY <2>3, CapacityNat DEF Spent, Times
    <2> HIDE DEF gain, old, all, spent, cost
    <2>6. spent + cost(k) + after.tokens <= Capacity + all
      BY <2>1, <2>2, <2>4, <2>5, CapacityNat DEF BucketOk
    <2> QED
      BY <2>2, <2>6 DEF spent, all
  <1>11. ASSUME NEW q \in Traffic, NEW i \in 1 .. Len(served'[q]) PROVE PaidFor(q, i)'
    <2>1. CASE q # r \/ ~Passes(ks)
      <3>1. served'[q] = served[q]
        BY <1>9, <2>1
      <3> DEFINE k == OwnKey(q)   after == buckets'[k]
                 all == Times(after.last_refill - served[q][i], MaxEvents)
                 spent == Spent(q, i)
      <3>2. i \in 1 .. Len(served[q]) /\ served[q][i] \in Nat
        BY <1>5, <3>1, ElementOfSeq
      <3>3. k \in DOMAIN buckets' /\ spent + cost(k) + after.tokens <= Capacity + all
        BY <1>10, <3>2
      <3>4. BucketOk(after)
        BY <1>6, <3>3
      <3>5. cost(k) \in Nat /\ spent \in Int /\ all \in Int /\ after.tokens \in Int
        BY <1>5, <3>2, <3>4, CapacityNat DEF Spent, Times, BucketOk
      <3> HIDE DEF spent, all, cost
      <3>6. spent + after.tokens <= Capacity + all
        BY <3>3, <3>5, CapacityNat
      <3> QED
        BY <3>1, <3>3, <3>6 DEF PaidFor, Refilled, Spent, spent, all
    <2>2. CASE q = r /\ Passes(ks) /\ i \in 1 .. Len(served[q])
      <3> DEFINE k == OwnKey(q)   after == buckets'[k]   n == Len(served[q])
                 all == Times(after.last_refill - served[q][i], MaxEvents)
                 spent == Spent(q, i)
      <3>1. served[q] \in Seq(Nat) /\ n \in Nat /\ served'[q] = Append(served[q], clock)
        BY <1>5, <1>9, <2>2
      <3>2. Len(served'[q]) = n + 1 /\ served'[q][i] = served[q][i] /\ served[q][i] \in Nat
        BY <1>5, <2>2, <3>1, AppendProperties, ElementOfSeq
      <3>3. k \in DOMAIN buckets' /\ spent + cost(k) + after.tokens <= Capacity + all
        BY <1>10, <2>2
      <3>4. cost(k) = Per
        BY <2>2 DEF own
      <3>5. Spent(q, i)' = spent + Per
        <4> DEFINE x == n - i + 1
        <4>1. x \in Int /\ n + 1 - i + 1 = x + 1 /\ Spent(q, i)' = Times(n + 1 - i + 1, Per)
          BY <3>1, <3>2 DEF Spent
        <4> HIDE DEF x
        <4>2. Times(x + 1, Per) = Times(x, Per) + Times(1, Per) /\ Times(1, Per) = Per
          BY <4>1, CapacityNat, TimesFacts
        <4> QED
          BY <4>1, <4>2 DEF Spent, x
      <3> HIDE DEF spent, cost
      <3>6. spent + Per + after.tokens <= Capacity + all
        BY <3>3, <3>4
      <3> QED
        BY <3>2, <3>3, <3>5, <3>6 DEF PaidFor, Refilled
    <2>3. CASE q = r /\ Passes(ks) /\ i \notin 1 .. Len(served[q])
      <3> DEFINE k == OwnKey(q)   after == buckets'[k]   n == Len(served[q])
      <3>1. served[q] \in Seq(Nat) /\ n \in Nat /\ served'[q] = Append(served[q], clock)
        BY <1>5, <1>9, <2>3
      <3>2. Len(served'[q]) = n + 1 /\ i = n + 1 /\ served'[q][i] = clock
        BY <1>5, <2>3, <3>1, AppendProperties
      <3>3. /\ k \in DOMAIN buckets' /\ BucketOk(after) /\ after.last_refill = clock
            /\ after.tokens + Per <= Capacity
        BY <1>8, <2>3 DEF own
      <3>4. Spent(q, i)' = Per
        <4> DEFINE x == Len(served'[q]) - i + 1
        <4>1. x = 1 /\ Spent(q, i)' = Times(x, Per)
          BY <3>1, <3>2 DEF Spent
        <4> HIDE DEF x
        <4>2. Spent(q, i)' = Times(1, Per)
          BY <4>1
        <4> QED
          BY <4>2, CapacityNat, TimesFacts
      <3>5. Refilled(q, i)' = 0
        <4>1. after.last_refill - served'[q][i] = 0
          BY <1>5, <3>2, <3>3
        <4> QED
          BY <4>1, CapacityNat, TimesFacts DEF Refilled
      <3>6. Per + after.tokens <= Capacity + 0
        BY <3>3, CapacityNat DEF BucketOk
      <3> QED
        BY <3>3, <3>4, <3>5, <3>6 DEF PaidFor
    <2> QED
      BY <2>1, <2>2, <2>3
  <1>12. served' \in [Traffic -> Seq(Nat)]
    BY <1>4, <1>5, AppendProperties
  <1>13. LimiterBound'
    <2> SUFFICES ASSUME NEW q \in Traffic, NEW i \in DOMAIN served'[q], NEW j \in DOMAIN served'[q],
                        i <= j
                 PROVE  (j - i + 1) * Per
                            <= Capacity + (served'[q][j] - served'[q][i]) * MaxEvents
      BY DEF LimiterBound, Capacity
    <2>1. DOMAIN served'[q] = 1 .. Len(served'[q]) /\ served'[q] \in Seq(Nat)
      BY <1>12
    <2>2. CASE i \in DOMAIN served[q] /\ j \in DOMAIN served[q]
      <3>1. served'[q][i] = served[q][i] /\ served'[q][j] = served[q][j]
        <4>1. served[q] \in Seq(Nat) /\ DOMAIN served[q] = 1 .. Len(served[q])
          BY <1>5
        <4>2. CASE served'[q] = served[q]
          BY <4>2
        <4>3. CASE served'[q] = Append(served[q], clock)
          BY <1>5, <2>2, <4>1, <4>3, AppendProperties
        <4> QED
          BY <1>9, <4>2, <4>3
      <3> QED
        BY <2>2, <3>1 DEF BucketInv, LimiterBound, Capacity
    <2>3. CASE ~(i \in DOMAIN served[q] /\ j \in DOMAIN served[q])
      <3> DEFINE n == Len(served[q])   k == OwnKey(q)   after == buckets'[k]
      <3>1. served[q] \in Seq(Nat) /\ DOMAIN served[q] = 1 .. n /\ n \in Nat
        BY <1>5
      <3>2. q = r /\ Passes(ks) /\ served'[q] = Append(served[q], clock)
        BY <1>9, <2>3
      <3>3. Len(served'[q]) = n + 1 /\ served'[q][n + 1] = clock
        BY <1>5, <3>1, <3>2, AppendProperties
      <3>4. j = n + 1 /\ i \in 1 .. n + 1 /\ served'[q][j] = clock
        <4>1. i \in 1 .. n + 1 /\ j \in 1 .. n + 1
          BY <2>1, <3>3
        <4>2. j \notin 1 .. n
          <5>1. j \in 1 .. n => i \in 1 .. n
            BY <3>1, <4>1
          <5> QED
            BY <2>3, <3>1, <5>1
        <4> QED
          BY <3>1, <3>3, <4>1, <4>2
      <3>5. PaidFor(q, i)'
        BY <1>11, <2>1
      <3>6. BucketOk(after) /\ after.last_refill = clock /\ k = own
        BY <1>8, <3>2 DEF own
      <3> DEFINE lhs == (j - i + 1) * Per
                 rhs == (served'[q][j] - served'[q][i]) * MaxEvents
      <3>7. Spent(q, i)' = lhs /\ Refilled(q, i)' = rhs
        BY <3>3, <3>4, <3>6 DEF Spent, Refilled, Times
      <3>8. lhs \in Int /\ rhs \in Int
        <4>1. served'[q][i] \in Nat /\ i \in Int /\ j \in Int
          BY <2>1, <3>1, <3>4, ElementOfSeq
        <4> QED
          BY <1>5, <3>4, <4>1, CapacityNat
      <3> HIDE DEF lhs, rhs
      <3>9. lhs + after.tokens <= Capacity + rhs /\ after.tokens \in Nat
        BY <3>5, <3>6, <3>7, CapacityNat DEF PaidFor, BucketOk, Capacity
      <3>10. lhs <= Capacity + rhs
        BY <3>8, <3>9, CapacityNat
      <3> QED
        BY <3>10 DEF lhs, rhs
    <2> QED
      BY <2>2, <2>3
  <1>14. \A k \in DOMAIN buckets' : BucketOk(buckets[k])'
    BY <1>5, <1>6 DEF BucketOk, Capacity
  <1> QED
    BY <1>5, <1>11, <1>12, <1>13, <1>14 DEF BucketInv

-----------------------------------------------------------------------------
\* Lockout after failed logins.

\* The back-off grows with the failures (auth_attempts.rs compute_lockout).
LEMMA LockoutGrows ==
    \A m \in Nat : ComputeLockout(m) \in Nat /\ ComputeLockout(m) <= ComputeLockout(m + 1)
  <1> TAKE m \in Nat
  <1>1. Least(m, 20) \in 0 .. 20 /\ Least(m + 1, 20) \in {Least(m, 20), Least(m, 20) + 1}
    BY DEF Least
  <1> DEFINE x == 2 ^ Least(m, 20)   y == 2 ^ Least(m + 1, 20)
  <1>2. x \in Nat /\ (y = x \/ y = 2 * x)
    BY <1>1, PowersAssumption
  <1> HIDE DEF x, y
  <1>3. BaseLockout * x \in Nat /\ BaseLockout * (2 * x) = 2 * (BaseLockout * x)
    BY <1>2, GatesAssumption
  <1>4. BaseLockout * y \in Nat /\ BaseLockout * x <= BaseLockout * y
    BY <1>2, <1>3
  <1>5. /\ ComputeLockout(m) = Most(1, Least(BaseLockout * x, MaxLockout))
        /\ ComputeLockout(m + 1) = Most(1, Least(BaseLockout * y, MaxLockout))
    BY DEF ComputeLockout, x, y
  <1> QED
    BY <1>3, <1>4, <1>5, GatesAssumption DEF Least, Most

Route == {"hello", "admin", "refresh"}
AttemptRecord == [failures : Nat, last_failure : Nat, locked_until : Int]
Streak == [n : Nat, last : Nat, until : Nat]
Login == [at : {"check", "verify", "record"}, route : Route, machine : Machine, device : Dev,
          ip : Addresses, todo : Seq(LockKeys), began : Nat]

\* A failed login was about the machine or device of the key.
Blamed(k) ==
    CASE k[1] = "device" -> k[2] \in blame
      [] k[1] = "device_ip" -> k[3][2] \in blame
      [] k[1] = "ip" -> \E m \in blame : k[2] \in {<<"v4", m>>, <<"admin", <<"v4", m>>>>}

\* A key's record is its failures in a row, and its lock covers their back-off.
StreakOk(k) ==
    LET h == streak[k] r == records[k] IN
    /\ h.last <= clock
    /\ k \in DOMAIN records => h.n > 0 /\ r.failures = h.n /\ r.last_failure = h.last
    /\ k \notin DOMAIN records => h.n = 0 \/ clock - h.last > FailureWindow
    /\ h.until > clock =>
        /\ k \in DOMAIN records /\ r.locked_until >= h.until
        /\ h.n >= MaxFailures /\ h.until <= h.last + ComputeLockout(h.n - MaxFailures)

\* A login that looked the key up began before the failure that locked it.
Clear(c, k) == streak[k].until > clock => c.began <= streak[k].last

LoginOk(c) ==
    /\ c \in Login /\ c.ip = <<"v4", c.machine>>
    /\ c.began <= clock /\ clock - c.began <= MaxFlight
    /\ c.at \in {"check", "record"} => c.todo # <<>>
    /\ c.at = "check" =>
        \A k \in Range(CheckKeys(c.route, c.device, c.ip)) : k \in Range(c.todo) \/ Clear(c, k)
    /\ c.at = "verify" => \A k \in Range(CheckKeys(c.route, c.device, c.ip)) : Clear(c, k)
    /\ c.at = "record" => \A k \in Range(c.todo) : Clear(c, k) /\ Blamed(k)

\* The keys' records, their histories and the locks.
KeysInv ==
    /\ clock \in Nat
    /\ DOMAIN records \subseteq LockKeys
    /\ \A k \in DOMAIN records : records[k] \in AttemptRecord /\ Blamed(k)
    /\ streak \in [LockKeys -> Streak]
    /\ \A k \in LockKeys : StreakOk(k)
    /\ early = {}

LockoutInv ==
    /\ KeysInv
    /\ gate = "lockout" => DOMAIN call = Caller
    /\ gate = "lockout" => \A t \in Caller : call[t] # NoReq => LoginOk(call[t])

\* The keys a login looks up, and those its failure is recorded under.
LEMMA KeysFacts ==
    ASSUME NEW route \in Route, NEW d \in Dev, NEW ip \in Addresses, NEW outcome
    PROVE  /\ CheckKeys(route, d, ip) \in Seq(LockKeys) /\ CheckKeys(route, d, ip) # <<>>
           /\ FailureKeys(route, d, ip, outcome) \in Seq(LockKeys)
           /\ FailureKeys(route, d, ip, outcome) # <<>>
           /\ Range(FailureKeys(route, d, ip, outcome)) \subseteq Range(CheckKeys(route, d, ip))
  <1>1. /\ KeyIp(ip) \in LockKeys /\ KeyIp(<<"admin", ip>>) \in LockKeys
        /\ KeyDevice(d) \in LockKeys /\ KeyDeviceIp(d, ip) \in LockKeys
    BY DEF LockKeys
  <1> HIDE DEF LockKeys
  <1>2. CASE route = "hello"
    BY <1>1, <1>2 DEF CheckKeys, FailureKeys
  <1>3. CASE route = "admin"
    BY <1>1, <1>3 DEF CheckKeys, FailureKeys
  <1>4. CASE route = "refresh"
    <2>1. CheckKeys(route, d, ip) = <<KeyIp(ip), KeyDeviceIp(d, ip), KeyDevice(d)>>
      BY <1>4 DEF CheckKeys
    <2>2. FailureKeys(route, d, ip, outcome) \in
              {<<KeyIp(ip), KeyDevice(d), KeyDeviceIp(d, ip)>>, <<KeyIp(ip), KeyDeviceIp(d, ip)>>}
      BY <1>4 DEF FailureKeys
    <2>3. Range(<<KeyIp(ip), KeyDeviceIp(d, ip), KeyDevice(d)>>)
              = {KeyIp(ip), KeyDeviceIp(d, ip), KeyDevice(d)}
      BY DEF Range
    <2>4. /\ Range(<<KeyIp(ip), KeyDevice(d), KeyDeviceIp(d, ip)>>)
              = {KeyIp(ip), KeyDeviceIp(d, ip), KeyDevice(d)}
          /\ Range(<<KeyIp(ip), KeyDeviceIp(d, ip)>>) = {KeyIp(ip), KeyDeviceIp(d, ip)}
      BY DEF Range
    <2>5. Range(FailureKeys(route, d, ip, outcome)) \subseteq Range(CheckKeys(route, d, ip))
      BY <2>1, <2>2, <2>3, <2>4
    <2>6. /\ FailureKeys(route, d, ip, outcome) \in Seq(LockKeys)
          /\ FailureKeys(route, d, ip, outcome) # <<>>
      <3> DEFINE three == <<KeyIp(ip), KeyDevice(d), KeyDeviceIp(d, ip)>>
                 two == <<KeyIp(ip), KeyDeviceIp(d, ip)>>
      <3>1. three \in Seq(LockKeys) /\ three # <<>>
        BY <1>1
      <3>2. two \in Seq(LockKeys) /\ two # <<>>
        BY <1>1
      <3> HIDE DEF three, two
      <3>3. FailureKeys(route, d, ip, outcome) \in {three, two}
        BY <2>2 DEF three, two
      <3> QED
        BY <3>1, <3>2, <3>3
    <2> QED
      BY <1>1, <2>1, <2>5, <2>6
  <1> QED
    BY <1>2, <1>3, <1>4 DEF Route

\* A queue of keys is its head and the rest.
LEMMA QueueFacts ==
    ASSUME NEW S, NEW q \in Seq(S), q # <<>>
    PROVE  /\ Head(q) \in S /\ Head(q) \in Range(q) /\ Tail(q) \in Seq(S)
           /\ \A x \in Range(q) : x = Head(q) \/ x \in Range(Tail(q))
           /\ Range(Tail(q)) \subseteq Range(q)
           /\ Len(q) = 1 => Range(Tail(q)) = {}
           /\ Len(q) # 1 => Tail(q) # <<>>
  <1>1. /\ Len(q) \in Nat /\ Len(q) > 0 /\ Head(q) = q[1] /\ Head(q) \in S
        /\ Tail(q) \in Seq(S) /\ Len(Tail(q)) = Len(q) - 1
        /\ \A i \in 1 .. Len(q) - 1 : Tail(q)[i] = q[i + 1]
    BY HeadTailProperties, EmptySeq
  <1>2. /\ DOMAIN q = 1 .. Len(q) /\ DOMAIN Tail(q) = 1 .. Len(q) - 1
        /\ 1 \in 1 .. Len(q)
    BY <1>1
  <1>3. ASSUME NEW x \in Range(q) PROVE x = Head(q) \/ x \in Range(Tail(q))
    <2>1. PICK i \in 1 .. Len(q) : x = q[i]
      BY <1>2 DEF Range
    <2>2. CASE i = 1
      BY <1>1, <2>1, <2>2
    <2>3. CASE i # 1
      <3>1. i - 1 \in 1 .. Len(q) - 1 /\ i - 1 + 1 = i
        BY <1>1, <2>3
      <3>2. Tail(q)[i - 1] = q[i]
        BY <1>1, <3>1
      <3> QED
        BY <1>2, <2>1, <3>1, <3>2 DEF Range
    <2> QED
      BY <2>2, <2>3
  <1>4. Range(Tail(q)) \subseteq Range(q)
    <2>1. \A i \in 1 .. Len(q) - 1 : i + 1 \in 1 .. Len(q)
      BY <1>1
    <2> QED
      BY <1>1, <1>2, <2>1 DEF Range
  <1>5. Len(q) = 1 => Range(Tail(q)) = {}
    BY <1>1, <1>2 DEF Range
  <1>6. Len(q) # 1 => Tail(q) # <<>>
    <2> SUFFICES ASSUME Tail(q) = <<>> PROVE Len(q) = 1
      OBVIOUS
    <2> DEFINE rest == Tail(q)
    <2>1. rest \in Seq(S) /\ rest = <<>> /\ Len(rest) = Len(q) - 1
      BY <1>1
    <2> HIDE DEF rest
    <2>2. Len(rest) = 0
      BY <2>1, EmptySeq
    <2> QED
      BY <1>1, <2>1, <2>2
  <1> QED
    BY <1>1, <1>2, <1>3, <1>4, <1>5, <1>6 DEF Range

\* The limits of the lockout.
LEMMA LimitsNat == /\ MaxFailures \in Nat /\ MaxFailures > 0 /\ FailureWindow \in Nat
                   /\ FailureWindow > 0 /\ MaxFlight \in Nat /\ MaxFlight <= FailureWindow
  BY GatesAssumption

\* Recording a failure keeps a key's record in step with its failures in a row.
LEMMA FailureKeeps ==
    ASSUME LockoutInv, NEW c, NEW k \in LockKeys, c.began \in Nat, c.began <= clock,
           clock - c.began <= MaxFlight, Clear(c, k),
           records' = With(records, k, Failed(IF k \in DOMAIN records THEN records[k]
                                              ELSE NewRecord)),
           streak' = [streak EXCEPT ![k] = Extended(@)], clock' = clock
    PROVE  /\ DOMAIN records' = DOMAIN records \cup {k}
           /\ \A x \in DOMAIN records' : records'[x] \in AttemptRecord
           /\ streak' \in [LockKeys -> Streak]
           /\ \A x \in LockKeys : StreakOk(x)'
           /\ \A x \in LockKeys \ {k} : streak'[x] = streak[x]
           /\ streak'[k].last = clock
  <1> DEFINE h == streak[k]   h2 == Extended(h)
             r == IF k \in DOMAIN records THEN records[k] ELSE NewRecord
             r2 == Failed(r)
  <1>1. /\ clock \in Nat /\ h \in Streak /\ r \in AttemptRecord /\ h.last <= clock
        /\ clock - r.last_failure \in Int
    BY DEF LockoutInv, KeysInv, StreakOk, NewRecord, AttemptRecord, Streak, NoLock
  <1>2. Quiet(r) <=> k \in DOMAIN records /\ clock - h.last > FailureWindow
    <2>1. CASE k \in DOMAIN records
      BY <2>1 DEF LockoutInv, KeysInv, StreakOk, Quiet
    <2>2. CASE k \notin DOMAIN records
      BY <1>1, <2>2, LimitsNat DEF Quiet, NewRecord
    <2> QED
      BY <2>1, <2>2
  <1> DEFINE n == IF h.n > 0 /\ clock - h.last <= FailureWindow THEN h.n + 1 ELSE 1
             lock == clock + ComputeLockout(n - MaxFailures)
  <1>3. n \in Nat /\ n > 0
    BY <1>1 DEF Streak
  <1>4. r2.failures = n /\ r2.last_failure = clock
    <2>1. r2.failures = IF Quiet(r) THEN 1 ELSE r.failures + 1
      BY DEF Failed
    <2>2. CASE k \in DOMAIN records
      <3>1. h.n > 0 /\ r.failures = h.n
        BY <2>2 DEF LockoutInv, KeysInv, StreakOk
      <3> QED
        BY <1>1, <1>2, <2>1, <2>2, <3>1, LimitsNat DEF Failed, Streak
    <2>3. CASE k \notin DOMAIN records
      <3>1. h.n = 0 \/ clock - h.last > FailureWindow
        BY <2>3 DEF LockoutInv, KeysInv, StreakOk
      <3>2. r.failures = 0
        BY <2>3 DEF NewRecord
      <3> QED
        BY <1>1, <1>2, <2>1, <2>3, <3>1, <3>2, LimitsNat DEF Failed, Streak
    <2> QED
      BY <2>2, <2>3
  <1>5. h.until > clock => /\ k \in DOMAIN records /\ records[k].locked_until >= h.until
                           /\ n = h.n + 1 /\ n >= MaxFailures /\ h.until <= lock
    <2> SUFFICES ASSUME h.until > clock
                 PROVE  /\ k \in DOMAIN records /\ records[k].locked_until >= h.until
                        /\ n = h.n + 1 /\ n >= MaxFailures /\ h.until <= lock
      OBVIOUS
    <2>1. /\ k \in DOMAIN records /\ records[k].locked_until >= h.until /\ h.n > 0
          /\ h.n >= MaxFailures /\ h.until <= h.last + ComputeLockout(h.n - MaxFailures)
      BY DEF LockoutInv, KeysInv, StreakOk
    <2>2. clock - h.last <= FailureWindow
      <3>1. c.began <= h.last
        BY DEF Clear
      <3> QED
        BY <1>1, <3>1, LimitsNat DEF Streak
    <2>3. n = h.n + 1
      BY <2>1, <2>2
    <2> DEFINE m == h.n - MaxFailures
    <2>4. m \in Nat /\ n - MaxFailures = m + 1
      BY <1>1, <2>1, <2>3, LimitsNat DEF Streak
    <2> HIDE DEF m
    <2>5. /\ ComputeLockout(m) \in Nat /\ ComputeLockout(m) <= ComputeLockout(m + 1)
          /\ ComputeLockout(m + 1) \in Nat
      BY <2>4, LockoutGrows
    <2>6. h.until <= h.last + ComputeLockout(m)
      BY <2>1 DEF m
    <2>7. lock = clock + ComputeLockout(m + 1)
      BY <2>4
    <2>8. h.until <= lock
      <3> HIDE DEF lock
      <3> QED
        BY <1>1, <2>5, <2>6, <2>7 DEF Streak
    <2> QED
      BY <1>1, <2>1, <2>3, <2>8, LimitsNat DEF Streak
  <1>6. n >= MaxFailures => lock \in Nat /\ lock >= clock
    <2> SUFFICES ASSUME n >= MaxFailures PROVE lock \in Nat /\ lock >= clock
      OBVIOUS
    <2>1. n - MaxFailures \in Nat
      BY <1>3, LimitsNat
    <2>2. ComputeLockout(n - MaxFailures) \in Nat
      BY <2>1, LockoutGrows
    <2> QED
      BY <1>1, <2>2
  <1>7. h2 = [n |-> n, last |-> clock,
              until |-> IF n < MaxFailures THEN h.until ELSE Most(h.until, lock)]
    BY DEF Extended
  <1>8. r2.locked_until = IF n >= MaxFailures THEN lock
                          ELSE IF clock < (IF Quiet(r) THEN NoLock ELSE r.locked_until)
                               THEN (IF Quiet(r) THEN NoLock ELSE r.locked_until) ELSE NoLock
    <2>1. n = IF Quiet(r) THEN 1 ELSE r.failures + 1
      BY <1>4 DEF Failed
    <2> HIDE DEF n, r
    <2> QED
      BY <2>1 DEF Failed
  <1> HIDE DEF n, lock
  <1>9. h2 \in Streak /\ (n >= MaxFailures => h2.until = lock)
    <2>1. h.until \in Nat
      BY <1>1 DEF Streak
    <2>2. CASE n >= MaxFailures
      <3>1. Most(h.until, lock) = lock
        BY <1>1, <1>5, <1>6, <2>1, <2>2 DEF Most
      <3> QED
        BY <1>1, <1>3, <1>6, <1>7, <2>2, <3>1, LimitsNat DEF Streak
    <2>3. CASE ~(n >= MaxFailures)
      BY <1>1, <1>3, <1>7, <2>1, <2>3, LimitsNat DEF Streak
    <2> QED
      BY <2>2, <2>3
  <1>10. h2.until > clock =>
             /\ r2.locked_until >= h2.until /\ h2.n >= MaxFailures
             /\ h2.until <= h2.last + ComputeLockout(h2.n - MaxFailures)
    <2>1. CASE n >= MaxFailures
      <3>1. h2.until = lock /\ r2.locked_until = lock /\ h2.n = n /\ h2.last = clock
        BY <1>7, <1>8, <1>9, <2>1
      <3> QED
        BY <1>6, <2>1, <3>1 DEF lock
    <2>2. CASE ~(n >= MaxFailures)
      <3>1. h2.until = h.until
        BY <1>3, <1>7, <2>2, LimitsNat
      <3> QED
        BY <1>5, <2>2, <3>1
    <2> QED
      BY <2>1, <2>2
  <1>11. r2 \in AttemptRecord
    <2>1. r2.locked_until \in Int
      BY <1>1, <1>6, <1>8 DEF NoLock, AttemptRecord
    <2>2. r2 = [failures |-> r2.failures, last_failure |-> r2.last_failure,
                locked_until |-> r2.locked_until]
      BY DEF Failed
    <2> HIDE DEF r2
    <2> QED
      BY <1>1, <1>3, <1>4, <2>1, <2>2 DEF AttemptRecord
  <1>12. /\ DOMAIN records' = DOMAIN records \cup {k} /\ records'[k] = r2
         /\ \A x \in DOMAIN records \ {k} : records'[x] = records[x]
    BY DEF With
  <1>13. streak' = [streak EXCEPT ![k] = h2]
    OBVIOUS
  <1>14. h2.n = n /\ h2.last = clock
    BY <1>7
  <1> HIDE DEF h, h2, r, r2
  <1>15. /\ streak' \in [LockKeys -> Streak] /\ streak'[k] = h2
         /\ \A x \in LockKeys \ {k} : streak'[x] = streak[x]
    BY <1>9, <1>13 DEF LockoutInv, KeysInv
  <1>16. ASSUME NEW x \in LockKeys PROVE StreakOk(x)'
    <2>1. CASE x = k
      BY <1>1, <1>3, <1>4, <1>10, <1>12, <1>14, <1>15, <2>1 DEF StreakOk
    <2>2. CASE x # k
      <3>1. /\ streak'[x] = streak[x] /\ (x \in DOMAIN records' <=> x \in DOMAIN records)
            /\ x \in DOMAIN records => records'[x] = records[x]
        BY <1>12, <1>15, <2>2
      <3>2. StreakOk(x)
        BY DEF LockoutInv, KeysInv
      <3> QED
        BY <3>1, <3>2 DEF StreakOk
    <2> QED
      BY <2>1, <2>2
  <1> QED
    BY <1>11, <1>12, <1>14, <1>15, <1>16 DEF LockoutInv, KeysInv

\* What a login says of the keys stays true while failures are recorded.
StreaksForward ==
    \A k \in LockKeys : \/ streak'[k] = streak[k]
                        \/ streak'[k].last = clock
                        \/ streak'[k].until = 0

\* Blame is not taken back.
LEMMA BlameStays ==
    ASSUME NEW k \in LockKeys, Blamed(k), blame \subseteq blame' PROVE Blamed(k)'
  <1>1. CASE k[1] = "device"
    BY <1>1 DEF Blamed
  <1>2. CASE k[1] = "device_ip"
    BY <1>2 DEF Blamed
  <1>3. CASE k[1] = "ip"
    BY <1>3 DEF Blamed
  <1>4. k[1] \in {"device", "device_ip", "ip"}
    BY DEF LockKeys, KeyIp, KeyDevice, KeyDeviceIp
  <1> QED
    BY <1>1, <1>2, <1>3, <1>4

\* Another login is not disturbed.
LEMMA LoginStays ==
    ASSUME LockoutInv, NEW c, LoginOk(c), clock' = clock, blame \subseteq blame', StreaksForward
    PROVE  LoginOk(c)'
  <1>1. /\ c \in Login /\ c.began \in Nat /\ c.began <= clock /\ clock \in Nat
        /\ c.route \in Route /\ c.device \in Dev /\ c.ip \in Addresses /\ c.todo \in Seq(LockKeys)
    BY DEF LoginOk, Login, LockoutInv, KeysInv
  <1>2. ASSUME NEW k \in LockKeys, Clear(c, k) PROVE Clear(c, k)'
    <2>1. CASE streak'[k] = streak[k]
      BY <1>2, <2>1 DEF Clear
    <2>2. CASE streak'[k].last = clock
      BY <1>1, <2>2 DEF Clear
    <2>3. CASE streak'[k].until = 0
      BY <1>1, <2>3 DEF Clear
    <2> QED
      BY <2>1, <2>2, <2>3 DEF StreaksForward
  <1> DEFINE ks == CheckKeys(c.route, c.device, c.ip)
  <1>3. \A k \in Range(ks) : k \in LockKeys
    <2>1. ks \in Seq(LockKeys)
      BY <1>1, KeysFacts
    <2> HIDE DEF ks
    <2>2. \A i \in 1 .. Len(ks) : ks[i] \in LockKeys
      BY <2>1, ElementOfSeq
    <2> QED
      BY <2>1, <2>2 DEF Range
  <1>4. \A k \in Range(c.todo) : k \in LockKeys
    <2>1. \A i \in 1 .. Len(c.todo) : c.todo[i] \in LockKeys
      BY <1>1, ElementOfSeq
    <2> QED
      BY <1>1, <2>1 DEF Range
  <1> HIDE DEF ks
  <1>5. /\ c.at \in {"check", "record"} => c.todo # <<>>
        /\ c.ip = <<"v4", c.machine>> /\ clock - c.began <= MaxFlight
        /\ c.at = "check" => \A k \in Range(ks) : k \in Range(c.todo) \/ Clear(c, k)
        /\ c.at = "verify" => \A k \in Range(ks) : Clear(c, k)
        /\ c.at = "record" => \A k \in Range(c.todo) : Clear(c, k) /\ Blamed(k)
    BY DEF LoginOk, ks
  <1>6. c.at = "check" => \A k \in Range(ks) : k \in Range(c.todo) \/ Clear(c, k)'
    BY <1>2, <1>3, <1>5
  <1>7. c.at = "verify" => \A k \in Range(ks) : Clear(c, k)'
    BY <1>2, <1>3, <1>5
  <1>8. c.at = "record" => \A k \in Range(c.todo) : Clear(c, k)' /\ Blamed(k)'
    BY <1>2, <1>4, <1>5, BlameStays
  <1> QED
    BY <1>1, <1>5, <1>6, <1>7, <1>8 DEF LoginOk, ks

\* A step of one caller that keeps the keys right and its own login right.
LEMMA CallerKeeps ==
    ASSUME LockoutInv, NEW t \in Caller, NEW c, gate = "lockout", gate' = gate, clock' = clock,
           blame \subseteq blame', StreaksForward,
           call' = [call EXCEPT ![t] = c], c # NoReq => LoginOk(c)'
    PROVE  DOMAIN call' = Caller /\ \A u \in Caller : call'[u] # NoReq => LoginOk(call[u])'
  <1>1. DOMAIN call = Caller
    BY DEF LockoutInv, KeysInv
  <1>2. DOMAIN call' = Caller /\ call'[t] = c
    BY <1>1
  <1>3. ASSUME NEW u \in Caller, call'[u] # NoReq PROVE LoginOk(call[u])'
    <2>1. CASE u = t
      <3>1. call'[u] = c /\ LoginOk(c)'
        BY <1>2, <1>3, <2>1
      <3> QED
        BY <3>1 DEF LoginOk, Clear
    <2>2. CASE u # t
      <3> DEFINE d == call[u]
      <3>1. call'[u] = d /\ LoginOk(d)
        BY <1>1, <1>3, <2>2 DEF LockoutInv, KeysInv
      <3> HIDE DEF d
      <3>2. PICK e : e = d
        OBVIOUS
      <3>3. LoginOk(e)'
        BY <3>1, <3>2, LoginStays
      <3> QED
        BY <3>1, <3>2, <3>3 DEF LoginOk, Clear
    <2> QED
      BY <2>1, <2>2
  <1> QED
    BY <1>2, <1>3

\* The keys are left as they were.
LEMMA KeysStay ==
    ASSUME LockoutInv, UNCHANGED <<clock, records, streak, early>>, blame \subseteq blame'
    PROVE  KeysInv' /\ StreaksForward
  <1>1. \A k \in LockKeys : StreakOk(k)'
    BY DEF LockoutInv, KeysInv, StreakOk
  <1>2. \A k \in DOMAIN records : Blamed(k)'
    BY BlameStays DEF LockoutInv, KeysInv
  <1> QED
    BY <1>1, <1>2 DEF LockoutInv, KeysInv, StreaksForward

\* A login begins.
LEMMA StartKeeps ==
    ASSUME LockoutInv, gate = "lockout", UNCHANGED <<gate, clock>>, NEW t \in Caller,
           NEW r \in Logins[t], StartLogin(t, r.route, r.machine, r.device)
    PROVE  LockoutInv'
  <1>1. r.route \in Route /\ r.machine \in Machine /\ r.device \in Dev
    BY GatesAssumption DEF Route
  <1>2. PICK ip \in ClientIps(r.machine) :
          call' = [call EXCEPT ![t] =
              [at |-> "check", route |-> r.route, machine |-> r.machine, device |-> r.device,
               ip |-> ip, todo |-> CheckKeys(r.route, r.device, ip), began |-> clock]]
    BY DEF StartLogin
  <1>3. UNCHANGED <<records, streak, early, blame>>
    BY DEF StartLogin, avars
  <1>4. ip = <<"v4", r.machine>> /\ ip \in Addresses
    BY <1>1, OneText DEF Addresses
  <1> DEFINE todo == CheckKeys(r.route, r.device, ip)
             c == [at |-> "check", route |-> r.route, machine |-> r.machine,
                   device |-> r.device, ip |-> ip, todo |-> todo, began |-> clock]
  <1>5. todo \in Seq(LockKeys) /\ todo # <<>>
    BY <1>1, <1>4, KeysFacts
  <1>6. clock \in Nat /\ clock' = clock /\ clock - clock <= MaxFlight
    BY LimitsNat DEF LockoutInv, KeysInv
  <1>7. call' = [call EXCEPT ![t] = c]
    BY <1>2
  <1>8. PICK e : e = c
    OBVIOUS
  <1>9. LoginOk(e)'
    <2>1. /\ c.at = "check" /\ c.todo = todo /\ c.ip = ip /\ c.machine = r.machine
          /\ c.began = clock /\ c.todo = CheckKeys(c.route, c.device, c.ip)
      OBVIOUS
    <2>2. c \in Login
      <3> HIDE DEF todo
      <3> QED
        BY <1>1, <1>4, <1>5, <1>6 DEF Login
    <2> HIDE DEF c, todo
    <2> QED
      BY <1>4, <1>5, <1>6, <1>8, <2>1, <2>2 DEF LoginOk
  <1> HIDE DEF c
  <1>10. KeysInv' /\ StreaksForward
    BY <1>3, KeysStay
  <1> QED
    BY <1>3, <1>7, <1>8, <1>9, <1>10, CallerKeeps DEF LockoutInv

\* A login's credential is refused: what is left to record are keys it has
\* looked up, and it is about the machine or device of each.
LEMMA VerifyKeeps ==
    ASSUME LockoutInv, gate = "lockout", UNCHANGED <<gate, clock>>, NEW t \in Caller,
           NEW outcome \in {"ip_only", "credential_bound"}, VerifyFails(t, outcome)
    PROVE  LockoutInv'
  <1> DEFINE c == call[t]
             todo == FailureKeys(c.route, c.device, c.ip, outcome)
             d == [c EXCEPT !.at = "record", !.todo = todo]
  <1>1. LoginOk(c) /\ c.at = "verify" /\ DOMAIN call = Caller
    BY DEF VerifyFails, LockoutInv
  <1>2. UNCHANGED <<records, streak, early>> /\ blame \subseteq blame'
    BY DEF VerifyFails
  <1>3. /\ call' = [call EXCEPT ![t] = d]
        /\ c.machine \in blame'
        /\ outcome = "credential_bound" => c.device \in blame'
    BY <1>1 DEF VerifyFails
  <1>4. /\ c \in Login /\ c.route \in Route /\ c.device \in Dev /\ c.ip \in Addresses
        /\ c.machine \in Machine /\ c.ip = <<"v4", c.machine>> /\ c.began \in Nat
        /\ c.began <= clock /\ clock - c.began <= MaxFlight
    BY <1>1 DEF LoginOk, Login
  <1>5. /\ todo \in Seq(LockKeys) /\ todo # <<>>
        /\ Range(todo) \subseteq Range(CheckKeys(c.route, c.device, c.ip))
    BY <1>4, KeysFacts
  <1>6. \A k \in Range(todo) : Clear(c, k)
    BY <1>1, <1>5 DEF LoginOk
  <1>7. ASSUME NEW k \in Range(todo) PROVE Blamed(k)'
    <2>1. k \in {KeyIp(c.ip), KeyIp(<<"admin", c.ip>>), KeyDeviceIp(c.device, c.ip)}
          \/ (k = KeyDevice(c.device) /\ outcome = "credential_bound")
      <3>1. CASE c.route = "hello"
        BY <3>1 DEF FailureKeys, CheckKeys, Range
      <3>2. CASE c.route = "admin"
        BY <3>2 DEF FailureKeys, CheckKeys, Range
      <3>3. CASE c.route = "refresh" /\ outcome = "credential_bound"
        BY <3>3 DEF FailureKeys, Range
      <3>4. CASE c.route = "refresh" /\ outcome # "credential_bound"
        BY <3>4 DEF FailureKeys, Range
      <3> QED
        BY <1>4, <3>1, <3>2, <3>3, <3>4 DEF Route
    <2> HIDE DEF todo, c
    <2>2. CASE k = KeyIp(c.ip) \/ k = KeyIp(<<"admin", c.ip>>)
      <3>1. k[1] = "ip" /\ k[2] \in {<<"v4", c.machine>>, <<"admin", <<"v4", c.machine>>>>}
        BY <1>4, <2>2 DEF KeyIp
      <3> QED
        BY <1>3, <3>1 DEF Blamed
    <2>3. CASE k = KeyDeviceIp(c.device, c.ip)
      <3>1. k[1] = "device_ip" /\ k[3][2] = c.machine
        BY <1>4, <2>3 DEF KeyDeviceIp
      <3> QED
        BY <1>3, <3>1 DEF Blamed
    <2>4. CASE k = KeyDevice(c.device) /\ outcome = "credential_bound"
      <3>1. k[1] = "device" /\ k[2] = c.device
        BY <2>4 DEF KeyDevice
      <3> QED
        BY <1>3, <2>4, <3>1 DEF Blamed
    <2> QED
      BY <2>1, <2>2, <2>3, <2>4
  <1>8. KeysInv' /\ StreaksForward
    BY <1>2, KeysStay
  <1>9. /\ d.at = "record" /\ d.todo = todo /\ d.ip = c.ip /\ d.machine = c.machine
        /\ d.began = c.began /\ d \in Login
    <2> HIDE DEF todo
    <2> QED
      BY <1>4, <1>5 DEF Login
  <1> HIDE DEF d, c, todo
  <1>10. PICK e : e = d
    OBVIOUS
  <1>11. PICK began : began = c.began
    OBVIOUS
  <1>12. PICK keys : keys = todo
    OBVIOUS
  <1>13. \A k \in Range(keys) : Clear(e, k)'
    BY <1>2, <1>6, <1>9, <1>10, <1>12 DEF Clear
  <1>14. \A k \in Range(keys) : Blamed(k)'
    BY <1>7, <1>12
  <1>15. LoginOk(e)'
    BY <1>4, <1>5, <1>9, <1>10, <1>12, <1>13, <1>14 DEF LoginOk
  <1>16. call' = [call EXCEPT ![t] = e]
    BY <1>3, <1>10
  <1> QED
    BY <1>2, <1>8, <1>15, <1>16, CallerKeeps DEF LockoutInv

\* A key looked up: a locked one ends the login, and one that is not locked
\* has no back-off running.
LEMMA CheckKeeps ==
    ASSUME LockoutInv, gate = "lockout", UNCHANGED <<gate, clock>>, NEW t \in Caller, CheckKey(t)
    PROVE  LockoutInv'
  <1> DEFINE c == call[t]
             k == Head(c.todo)
             r == records[k]
             h == streak[k]
  <1>1. LoginOk(c) /\ c # NoReq /\ c.at = "check" /\ DOMAIN call = Caller
    BY DEF CheckKey, LockoutInv
  <1>2. /\ c \in Login /\ c.route \in Route /\ c.device \in Dev /\ c.ip \in Addresses
        /\ c.todo \in Seq(LockKeys) /\ c.todo # <<>>
    BY <1>1 DEF LoginOk, Login
  <1>3. CASE LockedOut(k)
    <2>1. call' = [call EXCEPT ![t] = NoReq] /\ UNCHANGED <<records, streak, early, blame>>
      BY <1>3 DEF CheckKey, avars
    <2>2. KeysInv' /\ StreaksForward
      BY <2>1, KeysStay
    <2> QED
      BY <2>1, <2>2, CallerKeeps DEF LockoutInv
  <1>4. CASE ~LockedOut(k)
    <2> DEFINE at == IF Len(c.todo) = 1 THEN "verify" ELSE "check"
               d == [c EXCEPT !.todo = Tail(@), !.at = at]
    <2>1. /\ records' = Passed(k) /\ UNCHANGED <<streak, blame>>
          /\ early' = IF clock < h.until THEN early \cup {k} ELSE early
          /\ call' = [call EXCEPT ![t] = d]
      BY <1>1, <1>4 DEF CheckKey
    <2>2. /\ k \in LockKeys /\ Tail(c.todo) \in Seq(LockKeys)
          /\ \A x \in Range(c.todo) : x = k \/ x \in Range(Tail(c.todo))
          /\ Len(c.todo) = 1 => Range(Tail(c.todo)) = {}
          /\ Len(c.todo) # 1 => Tail(c.todo) # <<>>
      BY <1>2, QueueFacts
    <2>3. StreakOk(k) /\ clock \in Nat /\ h \in Streak
      BY <2>2 DEF LockoutInv, KeysInv
    <2>4. ~(h.until > clock)
      <3> SUFFICES ASSUME h.until > clock PROVE FALSE
        OBVIOUS
      <3>1. k \in DOMAIN records /\ r.locked_until >= h.until
        BY <2>3 DEF StreakOk
      <3>2. r \in AttemptRecord
        BY <3>1 DEF LockoutInv, KeysInv
      <3> QED
        BY <1>4, <2>3, <3>1, <3>2 DEF LockedOut, AttemptRecord, Streak
    <2> HIDE DEF k, c
    <2>5. /\ DOMAIN records' \subseteq DOMAIN records
          /\ \A x \in LockKeys \ {k} : /\ x \in DOMAIN records' <=> x \in DOMAIN records
                                       /\ x \in DOMAIN records' => records'[x] = records[x]
          /\ k \in DOMAIN records' =>
                /\ records'[k].failures = r.failures /\ records'[k].last_failure = r.last_failure
                /\ records'[k] \in AttemptRecord
          /\ k \notin DOMAIN records' => k \notin DOMAIN records \/ Quiet(r)
      <3>1. CASE k \notin DOMAIN records
        BY <2>1, <3>1 DEF Passed
      <3>2. CASE k \in DOMAIN records /\ r.locked_until = NoLock /\ Quiet(r)
        BY <2>1, <3>2 DEF Passed, Without
      <3>3. CASE k \in DOMAIN records /\ ~(r.locked_until = NoLock /\ Quiet(r))
        <4>1. records' = With(records, k, [r EXCEPT !.locked_until = NoLock])
          BY <2>1, <3>3 DEF Passed
        <4>2. r \in AttemptRecord
          BY <3>3 DEF LockoutInv, KeysInv
        <4>3. /\ [r EXCEPT !.locked_until = NoLock] \in AttemptRecord
              /\ [r EXCEPT !.locked_until = NoLock].failures = r.failures
              /\ [r EXCEPT !.locked_until = NoLock].last_failure = r.last_failure
          BY <4>2 DEF AttemptRecord, NoLock
        <4> QED
          BY <3>3, <4>1, <4>3 DEF With
      <3> QED
        BY <3>1, <3>2, <3>3
    <2>6. ASSUME NEW x \in LockKeys PROVE StreakOk(x)'
      <3>1. StreakOk(x)
        BY DEF LockoutInv, KeysInv
      <3>2. CASE x # k
        BY <2>1, <2>5, <3>1, <3>2 DEF StreakOk
      <3>3. CASE x = k
        <4>1. k \in DOMAIN records' => k \in DOMAIN records
          BY <2>5
        <4>2. Quiet(r) /\ k \in DOMAIN records => clock - h.last > FailureWindow
          BY <2>3 DEF StreakOk, Quiet
        <4>3. streak'[k] = h
          BY <2>1
        <4> HIDE DEF h, r
        <4>4. k \notin DOMAIN records' => h.n = 0 \/ clock - h.last > FailureWindow
          <5>1. k \notin DOMAIN records => h.n = 0 \/ clock - h.last > FailureWindow
            BY <2>3 DEF StreakOk, h
          <5> QED
            BY <2>5, <4>2, <5>1
        <4>5. k \in DOMAIN records' => /\ h.n > 0 /\ records'[k].failures = h.n
                                       /\ records'[k].last_failure = h.last
          BY <2>3, <2>5, <4>1 DEF StreakOk, h, r
        <4>6. h.last <= clock
          BY <2>3 DEF StreakOk, h
        <4> QED
          BY <2>4, <3>3, <4>3, <4>4, <4>5, <4>6 DEF StreakOk
      <3> QED
        BY <3>2, <3>3
    <2>7. \A x \in DOMAIN records' : records'[x] \in AttemptRecord /\ Blamed(x)'
      <3> TAKE x \in DOMAIN records'
      <3>1. x \in LockKeys /\ x \in DOMAIN records /\ Blamed(x)
        BY <2>5 DEF LockoutInv, KeysInv
      <3>2. Blamed(x)'
        BY <2>1, <3>1 DEF Blamed
      <3>3. x # k => records'[x] \in AttemptRecord
        BY <2>5, <3>1 DEF LockoutInv, KeysInv
      <3> QED
        BY <2>5, <3>2, <3>3
    <2>8. KeysInv' /\ StreaksForward
      <3>1. early' = {}
        BY <2>1, <2>4 DEF LockoutInv, KeysInv
      <3>2. StreaksForward
        BY <2>1 DEF StreaksForward
      <3>3. DOMAIN records' \subseteq LockKeys /\ streak' \in [LockKeys -> Streak]
        BY <2>1, <2>5 DEF LockoutInv, KeysInv
      <3> QED
        BY <2>3, <2>6, <2>7, <3>1, <3>2, <3>3 DEF KeysInv
    <2>9. LoginOk(c)
      BY <1>1 DEF c
    <2>10. /\ d \in Login /\ d.at = at /\ d.todo = Tail(c.todo) /\ d.route = c.route
           /\ d.device = c.device /\ d.ip = c.ip /\ d.began = c.began /\ d.machine = c.machine
      BY <1>2, <2>2 DEF Login, c
    <2>11. \A x \in Range(CheckKeys(d.route, d.device, d.ip)) :
              x \in Range(d.todo) \/ Clear(d, x)
      <3> TAKE x \in Range(CheckKeys(d.route, d.device, d.ip))
      <3>1. x \in Range(c.todo) \/ Clear(c, x)
        BY <1>1, <2>9, <2>10 DEF LoginOk, c
      <3>2. CASE x = k
        BY <2>4, <3>2 DEF Clear
      <3>3. CASE x # k
        BY <2>2, <2>10, <3>1, <3>3 DEF Clear, c
      <3> QED
        BY <3>2, <3>3
    <2>12. at = "verify" => Range(d.todo) = {}
      BY <2>2, <2>10 DEF c
    <2>13. at = "check" => d.todo # <<>>
      BY <2>2, <2>10 DEF c
    <2>14. at \in {"verify", "check"}
      OBVIOUS
    <2>15. d.ip = <<"v4", d.machine>> /\ d.began <= clock /\ clock - d.began <= MaxFlight
      BY <2>9, <2>10 DEF LoginOk
    <2> HIDE DEF d, at
    <2>16. PICK e : e = d
      OBVIOUS
    <2>17. \A x : Clear(e, x)' <=> Clear(d, x)
      BY <2>1, <2>16 DEF Clear
    <2>18. LoginOk(e)'
      BY <2>10, <2>11, <2>12, <2>13, <2>14, <2>15, <2>16, <2>17 DEF LoginOk
    <2> QED
      BY <2>1, <2>8, <2>16, <2>18, CallerKeeps DEF LockoutInv
  <1> QED
    BY <1>3, <1>4

\* A failure recorded, under keys the login had looked up.
LEMMA RecordKeeps ==
    ASSUME LockoutInv, gate = "lockout", UNCHANGED <<gate, clock>>, NEW t \in Caller,
           RecordFailure(t)
    PROVE  LockoutInv'
  <1> DEFINE c == call[t]
             k == Head(c.todo)
  <1>1. LoginOk(c) /\ c # NoReq /\ c.at = "record" /\ DOMAIN call = Caller
    BY DEF RecordFailure, LockoutInv
  <1>2. /\ c \in Login /\ c.todo \in Seq(LockKeys) /\ c.todo # <<>> /\ c.began \in Nat
        /\ c.began <= clock /\ clock - c.began <= MaxFlight
        /\ \A x \in Range(c.todo) : Clear(c, x) /\ Blamed(x)
    BY <1>1 DEF LoginOk, Login
  <1>3. /\ k \in LockKeys /\ k \in Range(c.todo) /\ Tail(c.todo) \in Seq(LockKeys)
        /\ Range(Tail(c.todo)) \subseteq Range(c.todo)
        /\ Len(c.todo) # 1 => Tail(c.todo) # <<>>
    BY <1>2, QueueFacts
  <1>4. /\ records' = With(records, k, Failed(IF k \in DOMAIN records THEN records[k]
                                              ELSE NewRecord))
        /\ streak' = [streak EXCEPT ![k] = Extended(@)] /\ UNCHANGED <<early, blame>>
        /\ \/ call' = [call EXCEPT ![t] = NoReq]
           \/ Len(c.todo) # 1 /\ call' = [call EXCEPT ![t] = [c EXCEPT !.todo = Tail(@)]]
    BY <1>1 DEF RecordFailure
  <1> HIDE DEF k, c
  <1>5. /\ DOMAIN records' = DOMAIN records \cup {k}
        /\ \A x \in DOMAIN records' : records'[x] \in AttemptRecord
        /\ streak' \in [LockKeys -> Streak]
        /\ \A x \in LockKeys : StreakOk(x)'
        /\ \A x \in LockKeys \ {k} : streak'[x] = streak[x]
        /\ streak'[k].last = clock
    BY <1>2, <1>3, <1>4, FailureKeeps
  <1>6. StreaksForward
    BY <1>5 DEF StreaksForward
  <1>7. \A x \in DOMAIN records' : Blamed(x)'
    <2> TAKE x \in DOMAIN records'
    <2>1. Blamed(x)
      BY <1>2, <1>3, <1>5 DEF LockoutInv, KeysInv
    <2> QED
      BY <1>4, <2>1 DEF Blamed
  <1>8. KeysInv'
    BY <1>3, <1>4, <1>5, <1>7 DEF LockoutInv, KeysInv
  <1>9. CASE call' = [call EXCEPT ![t] = NoReq]
    BY <1>4, <1>6, <1>8, <1>9, CallerKeeps DEF LockoutInv
  <1>10. CASE Len(c.todo) # 1 /\ call' = [call EXCEPT ![t] = [c EXCEPT !.todo = Tail(@)]]
    <2> DEFINE d == [c EXCEPT !.todo = Tail(@)]
    <2>1. /\ d \in Login /\ d.at = "record" /\ d.todo = Tail(c.todo) /\ d.began = c.began
          /\ d.ip = c.ip /\ d.machine = c.machine
      BY <1>1, <1>2, <1>3 DEF Login, c
    <2>2. \A x \in Range(d.todo) : x \in LockKeys /\ Clear(d, x) /\ Blamed(x)
      <3>1. \A x \in Range(d.todo) : Clear(c, x) /\ Blamed(x)
        BY <1>2, <1>3, <2>1
      <3>2. \A x \in Range(d.todo) : x \in LockKeys
        <4>1. d.todo \in Seq(LockKeys)
          BY <1>3, <2>1
        <4>2. \A i \in 1 .. Len(d.todo) : d.todo[i] \in LockKeys
          BY <4>1, ElementOfSeq
        <4> QED
          BY <4>1, <4>2 DEF Range
      <3> QED
        BY <2>1, <3>1, <3>2 DEF Clear
    <2>3. d.todo # <<>> /\ d.ip = <<"v4", d.machine>>
      BY <1>1, <1>3, <1>10, <2>1 DEF LoginOk, c
    <2>4. LoginOk(d)
      BY <1>2, <2>1, <2>2, <2>3 DEF LoginOk
    <2>5. call' = [call EXCEPT ![t] = d]
      BY <1>10
    <2> HIDE DEF d
    <2>6. PICK e : e = d
      OBVIOUS
    <2>7. LoginOk(e)'
      BY <1>4, <1>6, <2>4, <2>6, LoginStays
    <2> QED
      BY <1>4, <1>6, <1>8, <2>5, <2>6, <2>7, CallerKeeps DEF LockoutInv
  <1> QED
    BY <1>4, <1>9, <1>10

\* A login succeeds: the keys it looked up start afresh.
LEMMA SuccessKeeps ==
    ASSUME LockoutInv, gate = "lockout", UNCHANGED <<gate, clock>>, NEW t \in Caller, Succeed(t)
    PROVE  LockoutInv'
  <1> DEFINE ks == Range(CheckKeys(call[t].route, call[t].device, call[t].ip))
  <1>1. /\ records' = [k \in DOMAIN records \ ks |-> records[k]]
        /\ streak' = [k \in LockKeys |-> IF k \in ks THEN NoStreak ELSE streak[k]]
        /\ call' = [call EXCEPT ![t] = NoReq] /\ UNCHANGED <<early, blame>>
    BY DEF Succeed
  <1> HIDE DEF ks
  <1>2. clock \in Nat /\ streak \in [LockKeys -> Streak]
    BY DEF LockoutInv, KeysInv
  <1>3. NoStreak \in Streak /\ NoStreak.n = 0 /\ NoStreak.last = 0 /\ NoStreak.until = 0
    BY DEF NoStreak, Streak
  <1>4. ASSUME NEW x \in LockKeys PROVE StreakOk(x)'
    <2>1. CASE x \in ks
      <3>1. x \notin DOMAIN records' /\ streak'[x] = NoStreak
        BY <1>1, <2>1
      <3> QED
        BY <1>2, <1>3, <3>1 DEF StreakOk
    <2>2. CASE x \notin ks
      <3>1. /\ StreakOk(x) /\ streak'[x] = streak[x]
            /\ x \in DOMAIN records' <=> x \in DOMAIN records
            /\ x \in DOMAIN records' => records'[x] = records[x]
        BY <1>1, <2>2 DEF LockoutInv, KeysInv
      <3> QED
        BY <3>1 DEF StreakOk
    <2> QED
      BY <2>1, <2>2
  <1>5. StreaksForward
    BY <1>1, <1>3 DEF StreaksForward
  <1>6. \A x \in DOMAIN records' : /\ x \in LockKeys /\ records'[x] \in AttemptRecord
                                   /\ Blamed(x)'
    BY <1>1 DEF LockoutInv, KeysInv, Blamed
  <1>7. streak' \in [LockKeys -> Streak]
    BY <1>1, <1>2, <1>3
  <1>8. KeysInv'
    BY <1>1, <1>4, <1>6, <1>7 DEF LockoutInv, KeysInv
  <1> QED
    BY <1>1, <1>5, <1>8, CallerKeeps DEF LockoutInv

-----------------------------------------------------------------------------
\* Block lists.

Subject == {"ip", "device", "viewer_fingerprint"} \X (Addresses \cup Dev)
Intent == [at : {"blocklist"}, host : Dev, todo : Seq(Subject), subjects : SUBSET Subject,
           ever : BOOLEAN, throughout : SUBSET Subject, began : Nat]

\* What an intent has been told of is true: a subject listed all the while is
\* still listed and still to be looked up, and one listed now was noticed.
IntentOk(c) ==
    /\ c \in Intent /\ c.todo # <<>>
    /\ Range(c.todo) \subseteq c.subjects
    /\ c.throughout \subseteq Range(c.todo)
    /\ \A s \in c.throughout : Listed(c.host, s)
    /\ \A s \in c.subjects : Listed(c.host, s) => c.ever

\* The index is that of the entries, and a host lists a subject once.
EntriesInv ==
    /\ clock \in Nat /\ next_id \in Nat
    /\ \A e \in entries : e.id \in 1 .. next_id
    /\ index = {<<e.host, e.subject, e.id>> : e \in entries}
    /\ \A e, f \in entries : e.host = f.host /\ e.subject = f.subject => e = f
    /\ DOMAIN wanted = Dev

BlockInv ==
    /\ EntriesInv
    /\ BlocklistExact
    /\ gate = "block" => DOMAIN call = Caller
    /\ gate = "block" => \A t \in Caller : call[t] # NoReq => IntentOk(call[t])

\* The index and the entries answer alike.
LEMMA IndexedIsListed ==
    ASSUME EntriesInv, NEW host, NEW s PROVE Indexed(host, s) <=> Listed(host, s)
  <1>1. ASSUME Indexed(host, s) PROVE Listed(host, s)
    <2>1. PICK id \in 1 .. next_id : <<host, s, id>> \in index
      BY <1>1 DEF Indexed
    <2>2. PICK e \in entries : <<host, s, id>> = <<e.host, e.subject, e.id>>
      BY <2>1 DEF EntriesInv
    <2> QED
      BY <2>2 DEF Listed
  <1>2. ASSUME Listed(host, s) PROVE Indexed(host, s)
    <2>1. PICK e \in entries : e.host = host /\ e.subject = s
      BY <1>2 DEF Listed
    <2>2. e.id \in 1 .. next_id /\ <<host, s, e.id>> \in index
      BY <2>1 DEF EntriesInv
    <2> QED
      BY <2>2 DEF Indexed
  <1> QED
    BY <1>1, <1>2

\* An owner adds a subject.
LEMMA AddKeeps ==
    ASSUME BlockInv, gate = "block", UNCHANGED <<gate, clock>>, NEW token, NEW path \in Dev,
           NEW subject, AddBlocklist(token, path, subject)
    PROVE  BlockInv'
  <1> DEFINE n == next_id + 1
             new == BlocklistEntry(n, path, subject)
  <1>1. /\ token.device = path /\ ~Indexed(path, subject) /\ next_id' = n
        /\ index' = index \cup {<<path, subject, n>>} /\ entries' = entries \cup {new}
        /\ wanted' = [wanted EXCEPT ![path] = @ \cup {subject}]
        /\ call' = Ever(path, subject) /\ UNCHANGED verdicts
    BY DEF AddBlocklist, AuthorizeDeviceOwner
  <1>2. new.id = n /\ new.host = path /\ new.subject = subject
    BY DEF BlocklistEntry
  <1>3. n \in Nat /\ next_id \in Nat /\ n \in 1 .. n /\ \A i \in 1 .. next_id : i \in 1 .. n
    BY DEF BlockInv, EntriesInv
  <1> HIDE DEF n, new
  <1>4. \A e \in entries : ~(e.host = path /\ e.subject = subject)
    BY <1>1, IndexedIsListed DEF BlockInv, Listed
  <1>5. EntriesInv'
    <2>1. index' = {<<e.host, e.subject, e.id>> : e \in entries'}
      BY <1>1, <1>2 DEF BlockInv, EntriesInv
    <2>2. \A e, f \in entries' : e.host = f.host /\ e.subject = f.subject => e = f
      BY <1>1, <1>2, <1>4 DEF BlockInv, EntriesInv
    <2>3. \A e \in entries' : e.id \in 1 .. next_id'
      BY <1>1, <1>2, <1>3 DEF BlockInv, EntriesInv
    <2>4. DOMAIN wanted' = Dev
      BY <1>1 DEF BlockInv, EntriesInv
    <2> QED
      BY <1>1, <1>3, <2>1, <2>2, <2>3, <2>4 DEF BlockInv, EntriesInv
  <1>6. BlocklistExact'
    <2> SUFFICES ASSUME NEW d \in Dev
                 PROVE  wanted'[d] = {e.subject : e \in {x \in entries' : x.host = d}}
      BY <1>1 DEF BlocklistExact, BlockInv
    <2>1. wanted[d] = {e.subject : e \in {x \in entries : x.host = d}}
      BY DEF BlocklistExact, BlockInv
    <2>2. CASE d = path
      <3>1. wanted'[d] = wanted[d] \cup {subject}
        BY <1>1, <2>2 DEF BlockInv, EntriesInv
      <3> QED
        BY <1>1, <1>2, <2>1, <2>2, <3>1
    <2>3. CASE d # path
      <3>1. wanted'[d] = wanted[d]
        BY <1>1, <2>3 DEF BlockInv, EntriesInv
      <3> QED
        BY <1>1, <1>2, <2>1, <2>3, <3>1
    <2> QED
      BY <2>2, <2>3
  <1>7. DOMAIN call' = Caller
    BY <1>1 DEF Ever
  <1>8. \A h, s : Listed(h, s)' <=> Listed(h, s) \/ (h = path /\ s = subject)
    BY <1>1, <1>2 DEF Listed
  <1>9. ASSUME NEW t \in Caller, call'[t] # NoReq PROVE IntentOk(call[t])'
    <2> DEFINE c == call[t]
               told == c.host = path /\ subject \in c.subjects
    <2>1. call'[t] = IF c # NoReq /\ told THEN [c EXCEPT !.ever = TRUE] ELSE c
      BY <1>1 DEF Ever
    <2>2. c # NoReq /\ IntentOk(c)
      BY <1>9, <2>1 DEF BlockInv
    <2> HIDE DEF c
    <2>3. PICK e : e = call'[t]
      OBVIOUS
    <2>4. /\ e \in Intent /\ e.host = c.host /\ e.todo = c.todo /\ e.subjects = c.subjects
          /\ e.throughout = c.throughout /\ (told \/ c.ever => e.ever)
      <3>1. CASE told
        <4>1. e = [c EXCEPT !.ever = TRUE] /\ c \in Intent
          BY <2>1, <2>2, <2>3, <3>1 DEF IntentOk
        <4> QED
          BY <4>1 DEF Intent
      <3>2. CASE ~told
        BY <2>1, <2>2, <2>3, <3>2 DEF IntentOk
      <3> QED
        BY <3>1, <3>2
    <2>5. IntentOk(e)'
      BY <1>8, <2>2, <2>4 DEF IntentOk
    <2> QED
      BY <2>3, <2>5 DEF IntentOk, Listed
  <1> QED
    BY <1>5, <1>6, <1>7, <1>9 DEF BlockInv

\* An owner removes an entry.
LEMMA RemoveKeeps ==
    ASSUME BlockInv, gate = "block", UNCHANGED <<gate, clock>>, NEW token, NEW path \in Dev,
           NEW id, RemoveBlocklist(token, path, id)
    PROVE  BlockInv'
  <1>1. PICK e \in entries :
          /\ e.host = path /\ entries' = entries \ {e}
          /\ index' = {x \in index : x[1] # e.host \/ x[2] # e.subject}
          /\ wanted' = [wanted EXCEPT ![token.device] = @ \ {e.subject}]
          /\ call' = NoLonger(e.host, e.subject)
    BY DEF RemoveBlocklist
  <1>2. token.device = path /\ UNCHANGED <<next_id, verdicts>>
    BY DEF RemoveBlocklist, AuthorizeDeviceOwner
  <1>3. \A f \in entries : f.host = path /\ f.subject = e.subject => f = e
    BY <1>1 DEF BlockInv, EntriesInv
  <1>4. EntriesInv'
    <2>1. index' = {<<f.host, f.subject, f.id>> : f \in entries'}
      <3>1. index = {<<f.host, f.subject, f.id>> : f \in entries}
        BY DEF BlockInv, EntriesInv
      <3>2. ASSUME NEW f \in entries
            PROVE  /\ <<f.host, f.subject, f.id>>[1] = f.host
                   /\ <<f.host, f.subject, f.id>>[2] = f.subject
                   /\ f.host # e.host \/ f.subject # e.subject <=> f # e
        BY <1>1, <1>3
      <3> QED
        BY <1>1, <3>1, <3>2
    <2>2. \A f \in entries' : f \in entries
      BY <1>1
    <2>3. DOMAIN wanted' = Dev
      BY <1>1 DEF BlockInv, EntriesInv
    <2> QED
      BY <1>2, <2>1, <2>2, <2>3 DEF BlockInv, EntriesInv
  <1>5. BlocklistExact'
    <2> SUFFICES ASSUME NEW d \in Dev
                 PROVE  wanted'[d] = {f.subject : f \in {x \in entries' : x.host = d}}
      BY <1>2 DEF BlocklistExact, BlockInv
    <2>1. wanted[d] = {f.subject : f \in {x \in entries : x.host = d}}
      BY DEF BlocklistExact, BlockInv
    <2>2. CASE d = path
      <3>1. wanted'[d] = wanted[d] \ {e.subject}
        BY <1>1, <1>2, <2>2 DEF BlockInv, EntriesInv
      <3>2. \A f \in entries : f.host = d => (f.subject # e.subject <=> f # e)
        BY <1>3, <2>2
      <3> QED
        BY <1>1, <2>1, <3>1, <3>2
    <2>3. CASE d # path
      <3>1. wanted'[d] = wanted[d]
        BY <1>1, <1>2, <2>3 DEF BlockInv, EntriesInv
      <3> QED
        BY <1>1, <2>1, <2>3, <3>1
    <2> QED
      BY <2>2, <2>3
  <1>6. DOMAIN call' = Caller
    BY <1>1 DEF NoLonger
  <1>7. \A h, s : Listed(h, s)' <=> Listed(h, s) /\ ~(h = path /\ s = e.subject)
    BY <1>1, <1>3 DEF Listed
  <1>8. ASSUME NEW t \in Caller, call'[t] # NoReq PROVE IntentOk(call[t])'
    <2> DEFINE c == call[t]
    <2>1. call'[t] = IF c # NoReq /\ c.host = path
                     THEN [c EXCEPT !.throughout = @ \ {e.subject}] ELSE c
      BY <1>1 DEF NoLonger
    <2>2. c # NoReq /\ IntentOk(c)
      BY <1>8, <2>1 DEF BlockInv
    <2> HIDE DEF c
    <2>3. PICK f : f = call'[t]
      OBVIOUS
    <2>4. /\ f \in Intent /\ f.host = c.host /\ f.todo = c.todo /\ f.subjects = c.subjects
          /\ f.throughout \subseteq c.throughout /\ f.ever = c.ever
          /\ c.host = path => e.subject \notin f.throughout
      <3>1. CASE c.host = path
        <4>1. f = [c EXCEPT !.throughout = @ \ {e.subject}] /\ c \in Intent
          BY <2>1, <2>2, <2>3, <3>1 DEF IntentOk
        <4> QED
          BY <4>1 DEF Intent
      <3>2. CASE c.host # path
        BY <2>1, <2>2, <2>3, <3>2 DEF IntentOk
      <3> QED
        BY <3>1, <3>2
    <2>5. IntentOk(f)'
      BY <1>7, <2>2, <2>4 DEF IntentOk
    <2> QED
      BY <2>3, <2>5 DEF IntentOk, Listed
  <1> QED
    BY <1>4, <1>5, <1>6, <1>8 DEF BlockInv

\* An intent is asked about: what it is told of is what is listed now.
LEMMA IntentKeeps ==
    ASSUME BlockInv, gate = "block", UNCHANGED <<gate, clock>>, NEW t \in Caller,
           NEW v \in Viewers, NEW host \in Dev, StartIntent(t, v[1], v[2], host)
    PROVE  BlockInv'
  <1>1. v[1] \in Machine /\ v[2] \in Dev \cup {NoReq}
    BY GatesAssumption
  <1>2. PICK ip \in ClientIps(v[1]) :
          LET ss == IntentSubjects(ip, v[2]) IN
          call' = [call EXCEPT ![t] =
            [at |-> "blocklist", host |-> host, todo |-> ss, subjects |-> Range(ss),
             ever |-> \E s \in Range(ss) : Listed(host, s),
             throughout |-> {s \in Range(ss) : Listed(host, s)}, began |-> clock]]
    BY DEF StartIntent
  <1> DEFINE ss == IntentSubjects(ip, v[2])
             c == [at |-> "blocklist", host |-> host, todo |-> ss, subjects |-> Range(ss),
                   ever |-> \E s \in Range(ss) : Listed(host, s),
                   throughout |-> {s \in Range(ss) : Listed(host, s)}, began |-> clock]
  <1>3. ss \in Seq(Subject) /\ ss # <<>>
    <2>1. ip \in Addresses
      BY <1>1, OneText DEF Addresses
    <2> DEFINE one == <<"ip", ip>>
               two == <<"device", v[2]>>   three == <<"viewer_fingerprint", v[2]>>
               rest == IF v[2] = NoReq THEN <<>> ELSE <<two, three>>
    <2>2. one \in Subject /\ (v[2] # NoReq => two \in Subject /\ three \in Subject)
      BY <1>1, <2>1 DEF Subject
    <2>3. ss = <<one>> \o rest
      BY DEF IntentSubjects
    <2> HIDE DEF one, two, three, ss
    <2>4. <<one>> \in Seq(Subject) /\ rest \in Seq(Subject) /\ Len(<<one>>) = 1
      BY <2>2
    <2> HIDE DEF rest
    <2>5. ss \in Seq(Subject) /\ Len(ss) = 1 + Len(rest) /\ Len(rest) \in Nat
      BY <2>3, <2>4, ConcatProperties
    <2> QED
      BY <2>5
  <1> HIDE DEF ss
  <1>4. Range(ss) \subseteq Subject
    BY <1>3, ElementOfSeq DEF Range
  <1>5. IntentOk(c)
    <2>1. /\ c.host = host /\ c.todo = ss /\ c.subjects = Range(ss)
          /\ c.ever = \E s \in Range(ss) : Listed(host, s)
          /\ c.throughout = {s \in Range(ss) : Listed(host, s)}
      OBVIOUS
    <2>2. c \in Intent
      <3>1. (\E s \in Range(ss) : Listed(host, s)) \in BOOLEAN
        OBVIOUS
      <3>2. clock \in Nat
        BY DEF BlockInv, EntriesInv
      <3>3. {s \in Range(ss) : Listed(host, s)} \subseteq Subject
        BY <1>4
      <3> QED
        BY <1>3, <1>4, <3>1, <3>2, <3>3 DEF Intent
    <2> HIDE DEF c
    <2> QED
      BY <1>3, <2>1, <2>2 DEF IntentOk
  <1>6. call' = [call EXCEPT ![t] = c] /\ UNCHANGED <<entries, index, next_id, wanted, verdicts>>
    BY <1>2 DEF StartIntent, bvars, ss
  <1> HIDE DEF c
  <1>7. PICK d : d = c
    OBVIOUS
  <1>8. IntentOk(d) /\ call' = [call EXCEPT ![t] = d]
    BY <1>5, <1>6, <1>7
  <1> QED
    BY <1>6, <1>8 DEF BlockInv, EntriesInv, BlocklistExact, IntentOk, Listed

\* A subject is looked up: the answer the intent gets is right.
LEMMA LookUpKeeps ==
    ASSUME BlockInv, gate = "block", UNCHANGED <<gate, clock>>, NEW t \in Caller, CheckSubject(t)
    PROVE  BlockInv'
  <1> DEFINE r == call[t]
             s == Head(r.todo)
             hit == Indexed(r.host, s)
             last == Len(r.todo) = 1
             rest == [r EXCEPT !.todo = Tail(@)]
  <1>1. IntentOk(r) /\ DOMAIN call = Caller
    BY DEF CheckSubject, BlockInv
  <1>2. /\ call' = [call EXCEPT ![t] = IF hit \/ last THEN NoReq ELSE rest]
        /\ verdicts' = verdicts
               \cup (IF hit /\ ~r.ever THEN {"refused_unlisted"} ELSE {})
               \cup (IF ~hit /\ last /\ r.throughout # {} THEN {"admitted_listed"} ELSE {})
        /\ UNCHANGED <<entries, index, next_id, wanted>>
    BY DEF CheckSubject
  <1>3. r \in Intent /\ r.todo \in Seq(Subject) /\ r.todo # <<>> /\ Range(r.todo) \subseteq r.subjects
    BY <1>1 DEF IntentOk, Intent
  <1>4. /\ s \in Range(r.todo) /\ Tail(r.todo) \in Seq(Subject)
        /\ \A x \in Range(r.todo) : x = s \/ x \in Range(Tail(r.todo))
        /\ Range(Tail(r.todo)) \subseteq Range(r.todo)
        /\ last => Range(Tail(r.todo)) = {}
        /\ ~last => Tail(r.todo) # <<>>
    BY <1>3, QueueFacts
  <1>5. hit <=> Listed(r.host, s)
    BY IndexedIsListed DEF BlockInv
  <1> HIDE DEF s, r, hit, last
  <1>6. hit => r.ever
    BY <1>1, <1>3, <1>4, <1>5 DEF IntentOk
  <1>7. ~hit => r.throughout \subseteq Range(Tail(r.todo))
    BY <1>1, <1>4, <1>5 DEF IntentOk
  <1>8. verdicts' = verdicts
    BY <1>2, <1>4, <1>6, <1>7
  <1>9. EntriesInv' /\ BlocklistExact'
    BY <1>2, <1>8 DEF BlockInv, EntriesInv, BlocklistExact
  <1>10. ~hit /\ ~last => IntentOk(rest)
    <2> SUFFICES ASSUME ~hit, ~last PROVE IntentOk(rest)
      OBVIOUS
    <2>1. /\ rest \in Intent /\ rest.todo = Tail(r.todo) /\ rest.subjects = r.subjects
          /\ rest.host = r.host /\ rest.throughout = r.throughout /\ rest.ever = r.ever
      BY <1>3, <1>4 DEF Intent
    <2> HIDE DEF rest
    <2> QED
      BY <1>1, <1>3, <1>4, <1>7, <2>1 DEF IntentOk
  <1> HIDE DEF rest
  <1>11. PICK d : d = IF hit \/ last THEN NoReq ELSE rest
    OBVIOUS
  <1>12. call' = [call EXCEPT ![t] = d] /\ (d # NoReq => IntentOk(d))
    BY <1>2, <1>10, <1>11
  <1> QED
    BY <1>1, <1>2, <1>9, <1>12 DEF BlockInv, IntentOk, Listed

-----------------------------------------------------------------------------
\* All of them.

\* Time passes only while no login is at the end of its time.
LEMMA TickKeeps ==
    ASSUME BucketInv, LockoutInv, BlockInv, GatesTick
    PROVE  BucketInv' /\ LockoutInv' /\ BlockInv'
  <1>1. /\ clock' = clock + 1 /\ UNCHANGED <<gate, call, buckets, served>>
        /\ UNCHANGED <<records, streak, early, blame>>
        /\ UNCHANGED <<entries, index, next_id, wanted, verdicts>>
        /\ \A t \in Caller : call[t] # NoReq => clock - call[t].began < MaxFlight
    BY DEF GatesTick, lvars, avars, bvars
  <1>2. clock \in Nat /\ clock' \in Nat
    BY <1>1 DEF BucketInv
  <1>3. BucketInv'
    <2>1. \A k \in DOMAIN buckets' : BucketOk(buckets[k])'
      BY <1>1, <1>2 DEF BucketInv, BucketOk, Capacity
    <2>2. \A r \in Traffic : \A i \in 1 .. Len(served'[r]) : PaidFor(r, i)'
      BY <1>1 DEF BucketInv, PaidFor, Spent, Refilled
    <2>3. LimiterBound'
      BY <1>1 DEF BucketInv, LimiterBound
    <2> QED
      BY <1>1, <1>2, <2>1, <2>2, <2>3 DEF BucketInv
  <1>4. ASSUME NEW k \in LockKeys PROVE StreakOk(k)'
    <2>1. StreakOk(k) /\ streak[k] \in Streak
      BY DEF LockoutInv, KeysInv
    <2> QED
      BY <1>1, <1>2, <2>1, LimitsNat DEF StreakOk, Streak
  <1>5. ASSUME NEW t \in Caller, gate = "lockout", call[t] # NoReq PROVE LoginOk(call[t])'
    <2> DEFINE c == call[t]
    <2>1. LoginOk(c) /\ clock - c.began < MaxFlight /\ c' = c
      BY <1>1, <1>5 DEF LockoutInv
    <2> HIDE DEF c
    <2>2. PICK e : e = c
      OBVIOUS
    <2>3. /\ e \in Login /\ e.began \in Nat /\ e.route \in Route /\ e.device \in Dev
          /\ e.ip \in Addresses /\ e.todo \in Seq(LockKeys)
      BY <2>1, <2>2 DEF LoginOk, Login
    <2>4. \A k \in LockKeys : Clear(e, k) => Clear(e, k)'
      <3> SUFFICES ASSUME NEW k \in LockKeys, Clear(e, k) PROVE Clear(e, k)'
        OBVIOUS
      <3>1. streak[k] \in Streak
        BY DEF LockoutInv, KeysInv
      <3> QED
        BY <1>1, <1>2, <3>1 DEF Clear, Streak
    <2> DEFINE ks == CheckKeys(e.route, e.device, e.ip)
    <2>5. Range(ks) \subseteq LockKeys /\ Range(e.todo) \subseteq LockKeys
      <3>1. ks \in Seq(LockKeys)
        BY <2>3, KeysFacts
      <3> HIDE DEF ks
      <3> QED
        BY <2>3, <3>1, ElementOfSeq DEF Range
    <2>6. \A k \in LockKeys : Blamed(k)' <=> Blamed(k)
      BY <1>1 DEF Blamed
    <2> HIDE DEF ks
    <2>7. e.began <= clock' /\ clock' - e.began <= MaxFlight
      <3>1. e.began <= clock /\ clock - e.began < MaxFlight
        BY <2>1, <2>2 DEF LoginOk
      <3> QED
        BY <1>1, <1>2, <2>3, <3>1, LimitsNat
    <2>8. LoginOk(e)'
      BY <2>1, <2>2, <2>4, <2>5, <2>6, <2>7 DEF LoginOk, ks
    <2> QED
      BY <2>1, <2>2, <2>8 DEF c
  <1>6. \A k \in DOMAIN records : Blamed(k)'
    BY <1>1 DEF LockoutInv, KeysInv, Blamed
  <1>7. KeysInv'
    BY <1>1, <1>2, <1>4, <1>6 DEF LockoutInv, KeysInv
  <1>8. BlockInv'
    BY <1>1, <1>2 DEF BlockInv, EntriesInv, BlocklistExact, IntentOk, Listed
  <1> QED
    BY <1>1, <1>3, <1>5, <1>7, <1>8 DEF LockoutInv

\* What the invariants say together is what the gates promise.
LEMMA GatesPromise == BucketInv /\ LockoutInv /\ BlockInv => GatesHold
  <1> SUFFICES ASSUME BucketInv, LockoutInv, BlockInv PROVE GatesHold
    OBVIOUS
  <1>1. StrangersLockNobody
    <2> SUFFICES ASSUME NEW k \in LockKeys, LockedOut(k)
                 PROVE  CASE k[1] = "device" -> k[2] \in blame
                          [] k[1] = "device_ip" -> k[3][2] \in blame
                          [] k[1] = "ip" -> \E m \in blame :
                                k[2] \in {<<"v4", m>>, <<"admin", <<"v4", m>>>>}
      BY DEF StrangersLockNobody
    <2>1. Blamed(k)
      BY DEF LockedOut, LockoutInv, KeysInv
    <2> QED
      BY <2>1 DEF Blamed
  <1> QED
    BY <1>1 DEF BucketInv, LockoutInv, KeysInv, BlockInv, GatesHold, BackOffHolds

\* At the start no request was let through, no login failed and nothing is
\* blocked.
LEMMA GatesStart == GatesInit => BucketInv /\ LockoutInv /\ BlockInv
  <1> SUFFICES ASSUME GatesInit PROVE BucketInv /\ LockoutInv /\ BlockInv
    OBVIOUS
  <1>1. /\ clock = 0 /\ buckets = Empty /\ served = [r \in Traffic |-> <<>>]
        /\ records = Empty /\ streak = [k \in LockKeys |-> NoStreak] /\ early = {}
        /\ call = [t \in Caller |-> NoReq]
        /\ entries = {} /\ index = {} /\ next_id = 0
        /\ wanted = [d \in Dev |-> {}] /\ verdicts = {}
    BY DEF GatesInit
  <1>2. DOMAIN buckets = {} /\ DOMAIN records = {}
    BY <1>1 DEF Empty
  <1>3. \A r \in Traffic : served[r] = <<>> /\ DOMAIN served[r] = {} /\ 1 .. Len(served[r]) = {}
    BY <1>1
  <1>4. BucketInv
    <2>1. served \in [Traffic -> Seq(Nat)]
      BY <1>1
    <2> QED
      BY <1>1, <1>2, <1>3, <2>1 DEF BucketInv, LimiterBound
  <1>5. NoStreak \in Streak /\ NoStreak.n = 0 /\ NoStreak.last = 0 /\ NoStreak.until = 0
    BY DEF NoStreak, Streak
  <1>6. \A k \in LockKeys : StreakOk(k)
    BY <1>1, <1>2, <1>5 DEF StreakOk
  <1>7. \A t \in Caller : call[t] = NoReq
    BY <1>1
  <1>8. BlockInv
    BY <1>1, <1>7 DEF BlockInv, EntriesInv, BlocklistExact
  <1> QED
    BY <1>1, <1>2, <1>4, <1>5, <1>6, <1>7, <1>8 DEF LockoutInv, KeysInv

\* Every step keeps all three.
LEMMA GatesStep ==
    ASSUME BucketInv, LockoutInv, BlockInv, [GatesNext]_gvars
    PROVE  BucketInv' /\ LockoutInv' /\ BlockInv'
  <1>1. ASSUME UNCHANGED <<clock, lvars>> PROVE BucketInv'
    <2>1. UNCHANGED <<clock, buckets, served>>
      BY <1>1 DEF lvars
    <2>2. \A k \in DOMAIN buckets' : BucketOk(buckets[k])'
      BY <2>1 DEF BucketInv, BucketOk, Capacity
    <2>3. \A r \in Traffic : \A i \in 1 .. Len(served'[r]) : PaidFor(r, i)'
      BY <2>1 DEF BucketInv, PaidFor, Spent, Refilled
    <2>4. LimiterBound'
      BY <2>1 DEF BucketInv, LimiterBound
    <2> QED
      BY <2>1, <2>2, <2>3, <2>4 DEF BucketInv
  <1>2. ASSUME UNCHANGED <<clock, avars>> PROVE KeysInv'
    BY <1>2, KeysStay DEF avars
  <1>3. ASSUME UNCHANGED <<clock, bvars>>, gate' # "block" PROVE BlockInv'
    BY <1>3 DEF BlockInv, EntriesInv, BlocklistExact, bvars
  <1>4. CASE LimiterNext
    <2>1. PICK r \in Traffic : Charge(r)
      BY <1>4 DEF LimiterNext
    <2>2. gate' = "limit" /\ UNCHANGED <<clock, avars, bvars>>
      BY <1>4 DEF LimiterNext
    <2> QED
      BY <1>2, <1>3, <2>1, <2>2, ChargeKeeps DEF LockoutInv
  <1>5. CASE LoginNext
    <2>1. gate = "lockout" /\ UNCHANGED <<gate, clock, lvars, bvars>>
      BY <1>5 DEF LoginNext
    <2>2. PICK t \in Caller :
            \/ \E r \in Logins[t] : StartLogin(t, r.route, r.machine, r.device)
            \/ CheckKey(t)
            \/ \E outcome \in {"ip_only", "credential_bound"} : VerifyFails(t, outcome)
            \/ RecordFailure(t)
            \/ Succeed(t)
      BY <1>5 DEF LoginNext
    <2>3. LockoutInv'
      BY <2>1, <2>2, StartKeeps, CheckKeeps, VerifyKeeps, RecordKeeps, SuccessKeeps
    <2> QED
      BY <1>1, <1>3, <2>1, <2>3
  <1>6. CASE BlocklistNext
    <2>1. gate = "block" /\ UNCHANGED <<gate, clock, lvars, avars>>
      BY <1>6 DEF BlocklistNext
    <2>2. \/ \E d, path \in Dev, st \in TokenStates :
               LET token == [device |-> d, state |-> st] IN
               \/ \E s \in Blockable : AddBlocklist(token, path, s)
               \/ \E id \in 1 .. next_id : RemoveBlocklist(token, path, id)
          \/ \E t \in Caller :
               \/ \E v \in Viewers, host \in Dev : StartIntent(t, v[1], v[2], host)
               \/ CheckSubject(t)
      BY <1>6 DEF BlocklistNext
    <2>3. BlockInv'
      BY <2>1, <2>2, AddKeeps, RemoveKeeps, IntentKeeps, LookUpKeeps
    <2> QED
      BY <1>1, <1>2, <2>1, <2>3 DEF LockoutInv
  <1>7. CASE AuditNext
    <2>1. gate' = "audit" /\ UNCHANGED <<clock, lvars, avars, bvars>>
      BY <1>7 DEF AuditNext
    <2> QED
      BY <1>1, <1>2, <1>3, <2>1 DEF LockoutInv
  <1>8. CASE GatesTick
    BY <1>8, TickKeeps
  <1>9. CASE UNCHANGED gvars
    <2>1. UNCHANGED <<gate, clock, call, lvars, avars, bvars>>
      BY <1>9 DEF gvars
    <2>2. ASSUME NEW t \in Caller, gate' = "lockout", call'[t] # NoReq PROVE LoginOk(call[t])'
      <3>1. LoginOk(call[t]) /\ call' = call
        BY <2>1, <2>2 DEF LockoutInv
      <3>2. /\ UNCHANGED <<clock, streak, blame>>
        BY <2>1 DEF avars
      <3> QED
        BY <3>1, <3>2 DEF LoginOk, Clear, Blamed
    <2>3. BlockInv'
      BY <2>1 DEF BlockInv, EntriesInv, BlocklistExact, IntentOk, Listed, bvars
    <2> QED
      BY <1>1, <1>2, <2>1, <2>2, <2>3 DEF LockoutInv
  <1> QED
    BY <1>4, <1>5, <1>6, <1>7, <1>8, <1>9 DEF GatesNext

\* No machine gets more requests through a limited route than its bucket
\* allows in any interval, whatever its requests say of where they come from;
\* no login gets past a key before the whole back-off of its failures is over,
\* however many logins were already past it; nobody is locked out by
\* strangers; and an intent is refused, or let through, only as its host's
\* list says (rate_limit.rs check, auth_attempts.rs check and record_failure,
\* client_ip.rs resolve_client_ip, devices.rs AuthFailureScope, blocklist.rs
\* any_blocked).
THEOREM GatesCorrect == GatesSpec => []GatesHold
  <1> DEFINE Inv == BucketInv /\ LockoutInv /\ BlockInv
  <1>1. GatesInit => Inv
    BY GatesStart
  <1>2. Inv /\ [GatesNext]_gvars => Inv'
    BY GatesStep
  <1>3. Inv => GatesHold
    BY GatesPromise
  <1> QED
    BY <1>1, <1>2, <1>3, PTL DEF GatesSpec

-----------------------------------------------------------------------------
\* The audit log.

\* A set of positions has a least element.
LEMMA LeastOf ==
    ASSUME NEW T, T \subseteq Nat, T # {}
    PROVE  \E x \in T : \A y \in T : x <= y
  <1>1. PICK x \in T : \A y \in T : ~ (<<y, x>> \in OpToRel(<, Nat))
    BY NatLessThanWellFounded, WFMin
  <1>2. \A y \in T : y < x => <<y, x>> \in OpToRel(<, Nat)
    BY DEF OpToRel
  <1>3. \A y \in T : x <= y
    <2> TAKE y \in T
    <2>1. x \in Nat /\ y \in Nat
      OBVIOUS
    <2>2. ~(y < x)
      BY <1>1, <1>2
    <2> QED BY <2>1, <2>2
  <1> QED BY <1>3

\* What holds of 0, and of every position if of the one before, holds of all.
LEMMA Climb ==
    ASSUME NEW n \in Nat, NEW T, 0 \in T, \A i \in 1 .. n : i - 1 \in T => i \in T
    PROVE  \A i \in 0 .. n : i \in T
  <1> DEFINE U == {i \in 0 .. n : i \notin T}
  <1> SUFFICES U = {}
    OBVIOUS
  <1> SUFFICES ASSUME U # {} PROVE FALSE
    OBVIOUS
  <1>1. PICK x \in U : \A y \in U : x <= y
    <2>1. U \subseteq Nat
      OBVIOUS
    <2> QED
      BY <2>1, LeastOf
  <1>2. x \in 1 .. n /\ x - 1 \in 0 .. n /\ ~(x <= x - 1)
    OBVIOUS
  <1>3. x - 1 \in T
    BY <1>1, <1>2
  <1> QED
    BY <1>2, <1>3

\* What is logged.
Event == [id : Nat, device : Dev, created_at : Nat]

\* Different events have different ids.
OwnIds(S) == S \subseteq Event /\ \A e, f \in S : e.id = f.id => e = f

\* Events with ids of their own have an oldest.
LEMMA OldestOf ==
    ASSUME NEW S, OwnIds(S), S # {}
    PROVE  \E e \in S : \A f \in S \ {e} : Newer(f, e)
  <1> DEFINE T == {e.created_at : e \in S}
  <1>0. \A e \in S : e.created_at \in Nat /\ e.id \in Nat
    BY DEF OwnIds, Event
  <1>1. PICK c \in T : \A d \in T : c <= d
    <2>1. T \subseteq Nat /\ T # {}
      BY <1>0
    <2> HIDE DEF T
    <2> QED
      BY <2>1, LeastOf
  <1> DEFINE I == {e.id : e \in {x \in S : x.created_at = c}}
  <1>2. PICK m \in I : \A n \in I : m <= n
    <2>1. I \subseteq Nat /\ I # {}
      BY <1>0
    <2> HIDE DEF I
    <2> QED
      BY <2>1, LeastOf
  <1>3. PICK e \in S : e.created_at = c /\ e.id = m
    OBVIOUS
  <1>4. ASSUME NEW f \in S \ {e} PROVE Newer(f, e)
    <2>1. f.id # e.id /\ f.created_at >= c /\ f.created_at \in Nat /\ f.id \in Nat /\ e.id \in Nat /\ c \in Nat
      BY <1>0, <1>1, <1>3 DEF OwnIds
    <2>2. f.created_at = c => f.id >= m
      BY <1>2
    <2> QED
      BY <1>3, <2>1, <2>2 DEF Newer
  <1> QED
    BY <1>4

\* s is the set S, newest first.
InOrder(s, S) == /\ s \in [1 .. Cardinality(S) -> S] /\ Range(s) = S
                 /\ \A i, j \in DOMAIN s : i < j => Newer(s[i], s[j])

\* Events with ids of their own can be put in order ...
LEMMA OrderExists ==
    ASSUME NEW S, IsFiniteSet(S), OwnIds(S)
    PROVE  \E s : InOrder(s, S)
  <1> DEFINE n == Cardinality(S)
             T == {k \in 0 .. n : \A R \in SUBSET S : Cardinality(R) = k => \E s : InOrder(s, R)}
  <1>0. n \in Nat
    BY FS_CardinalityType
  <1>1. 0 \in T
    <2> SUFFICES ASSUME NEW R \in SUBSET S, Cardinality(R) = 0 PROVE \E s : InOrder(s, R)
      BY <1>0
    <2>1. R = {}
      BY FS_Subset, FS_EmptySet
    <2>2. InOrder([i \in 1 .. 0 |-> 0], R)
      BY <2>1, FS_EmptySet DEF InOrder, Range
    <2> QED
      BY <2>2
  <1>2. ASSUME NEW k \in 1 .. n, k - 1 \in T PROVE k \in T
    <2> SUFFICES ASSUME NEW R \in SUBSET S, Cardinality(R) = k PROVE \E s : InOrder(s, R)
      BY <1>0
    <2>1. IsFiniteSet(R) /\ R # {} /\ OwnIds(R)
      BY FS_Subset, FS_EmptySet DEF OwnIds
    <2>2. PICK e \in R : \A f \in R \ {e} : Newer(f, e)
      BY <2>1, OldestOf
    <2> DEFINE Q == R \ {e}
    <2>3. Cardinality(Q) = k - 1 /\ Q \in SUBSET S
      BY <2>1, FS_RemoveElement
    <2>4. PICK s : InOrder(s, Q)
      BY <1>2, <2>3
    <2>5. /\ s \in [1 .. k - 1 -> Q] /\ Range(s) = Q
          /\ \A i, j \in 1 .. k - 1 : i < j => Newer(s[i], s[j])
      BY <2>3, <2>4 DEF InOrder
    <2> DEFINE t == [i \in 1 .. k |-> IF i = k THEN e ELSE s[i]]
    <2>6. t[k] = e /\ \A i \in 1 .. k - 1 : t[i] = s[i] /\ t[i] \in Q
      BY <2>5
    <2>7. \A i \in 1 .. k : i = k \/ i \in 1 .. k - 1
      OBVIOUS
    <2>8. t \in [1 .. k -> R]
      BY <2>6, <2>7
    <2>9. Range(t) = R
      <3>1. Range(t) \subseteq R
        BY <2>8 DEF Range
      <3>2. ASSUME NEW f \in R PROVE f \in Range(t)
        <4>1. CASE f = e
          BY <2>6, <4>1 DEF Range
        <4>2. CASE f # e
          <5>1. PICK i \in 1 .. k - 1 : s[i] = f
            BY <2>5, <4>2 DEF Range
          <5>2. i \in 1 .. k /\ t[i] = f
            BY <2>6, <5>1
          <5> QED
            BY <5>2 DEF Range
        <4> QED
          BY <4>1, <4>2
      <3> QED
        BY <3>1, <3>2
    <2> HIDE DEF t
    <2>10. ASSUME NEW i \in 1 .. k, NEW j \in 1 .. k, i < j PROVE Newer(t[i], t[j])
      <3>1. i \in 1 .. k - 1
        BY <2>10
      <3>2. CASE j = k
        BY <2>2, <2>6, <3>1, <3>2
      <3>3. CASE j # k
        BY <2>5, <2>6, <2>7, <2>10, <3>1, <3>3
      <3> QED
        BY <3>2, <3>3
    <2> QED
      BY <2>8, <2>9, <2>10 DEF InOrder
  <1> HIDE DEF T
  <1>3. n \in T
    <2>1. \A k \in 0 .. n : k \in T
      BY <1>0, <1>1, <1>2, Climb
    <2> QED
      BY <1>0, <2>1
  <1> QED
    BY <1>3 DEF T

\* ... so that the list has them all, newest first (audit.rs list_for_device).
LEMMA NewestFirstSorts ==
    ASSUME NEW S, IsFiniteSet(S), OwnIds(S)
    PROVE  /\ NewestFirst(S) \in Seq(S) /\ Len(NewestFirst(S)) = Cardinality(S)
           /\ Range(NewestFirst(S)) = S
           /\ \A i, j \in 1 .. Cardinality(S) :
                 i < j => Newer(NewestFirst(S)[i], NewestFirst(S)[j])
  <1>1. Cardinality(S) \in Nat
    BY FS_CardinalityType
  <1>2. InOrder(NewestFirst(S), S)
    <2>1. PICK s : InOrder(s, S)
      BY OrderExists
    <2> QED
      BY <2>1 DEF NewestFirst, InOrder
  <1> QED
    BY <1>1, <1>2 DEF InOrder

\* A request that appends has an id no event and no other request has.
Appends(c) ==
    /\ c.id \in 1 .. next_event /\ c.device \in Dev
    /\ c.at = "push" => c.created_at \in Nat
    /\ \A i \in 1 .. Len(events) : events[i].id # c.id

\* The log holds every id once, and so do the appends under way.
AuditInv ==
    /\ clock \in Nat /\ next_event \in Nat /\ events \in Seq(Event)
    /\ \A i \in 1 .. Len(events) : events[i].id <= next_event
    /\ \A i, j \in 1 .. Len(events) : events[i].id = events[j].id => i = j
    /\ gate = "audit" =>
          /\ DOMAIN call = Caller
          /\ \A t \in Caller : call[t] # NoReq => Appends(call[t])
          /\ \A t, u \in Caller : t # u /\ call[t] # NoReq /\ call[u] # NoReq
                                    => call[t].id # call[u].id

\* The invariant holds in the beginning.
LEMMA AuditStart == GatesInit => AuditInv
  <1> SUFFICES ASSUME GatesInit PROVE AuditInv
    OBVIOUS
  <1>1. <<>> \in Seq(Event) /\ Len(<<>>) = 0
    OBVIOUS
  <1> QED
    BY <1>1 DEF GatesInit, AuditInv

\* Steps of the other gates push nothing.
LEMMA OthersKeepAudit ==
    ASSUME AuditInv, events' = events, clock' \in Nat, gate' = gate,
           next_event' = next_event \/ next_event' = next_event + 1,
           gate = "audit" => call' = call /\ next_event' = next_event
    PROVE  AuditInv'
  <1>1. next_event' \in Nat /\ next_event <= next_event'
    BY DEF AuditInv
  <1>2. \A i \in 1 .. Len(events) : events[i] \in Event /\ events[i].id <= next_event'
    <2> TAKE i \in 1 .. Len(events)
    <2>1. events[i] \in Event /\ events[i].id <= next_event /\ next_event \in Nat
      BY DEF AuditInv
    <2> QED
      BY <1>1, <2>1 DEF Event
  <1>3. gate' = "audit" => \A t \in Caller : call'[t] # NoReq => Appends(call[t])'
    BY DEF AuditInv, Appends
  <1> QED
    BY <1>1, <1>2, <1>3 DEF AuditInv

\* An append draws an id nobody has ...
LEMMA AppendIdKeeps ==
    ASSUME AuditInv, gate = "audit", gate' = gate, clock' = clock,
           NEW t \in Caller, NEW d \in Dev, AppendId(t, d)
    PROVE  AuditInv'
  <1> DEFINE new == [at |-> "stamp", id |-> next_event + 1, device |-> d, began |-> clock]
  <1>1. /\ next_event' = next_event + 1 /\ events' = events /\ call' = [call EXCEPT ![t] = new]
        /\ next_event \in Nat /\ events \in Seq(Event) /\ DOMAIN call = Caller
    BY DEF AppendId, AuditInv
  <1>2. \A i \in 1 .. Len(events) : events[i] \in Event /\ events[i].id <= next_event
    BY <1>1 DEF AuditInv
  <1>3. new.id = next_event + 1 /\ new.device = d /\ new.at = "stamp"
    OBVIOUS
  <1> HIDE DEF new
  <1>4. DOMAIN call' = Caller /\ call'[t] = new /\ \A u \in Caller : u # t => call'[u] = call[u]
    BY <1>1
  <1>5. /\ new.id \in 1 .. next_event' /\ new.device \in Dev /\ new.at # "push"
        /\ \A i \in 1 .. Len(events') : events'[i].id # new.id
    <2>1. ASSUME NEW i \in 1 .. Len(events) PROVE events[i].id # next_event + 1
      <3>1. events[i].id \in Nat /\ events[i].id <= next_event
        BY <1>2 DEF Event
      <3> QED
        BY <1>1, <3>1
    <2> QED
      BY <1>1, <1>3, <2>1
  <1>6. \A u \in Caller : u # t /\ call[u] # NoReq => Appends(call[u]) /\ call[u].id # new.id
    BY <1>1, <1>3 DEF AuditInv, Appends
  <1>7. \A u \in Caller : u # t /\ call[u] # NoReq => Appends(call[u])'
    BY <1>1, <1>4, <1>6 DEF Appends
  <1>8. ASSUME NEW u \in Caller, NEW v \in Caller, u # v, call'[u] # NoReq, call'[v] # NoReq
        PROVE  call'[u].id # call'[v].id
    BY <1>4, <1>6, <1>8 DEF AuditInv
  <1>9. \A u \in Caller : call'[u] # NoReq => Appends(call[u])'
    <2> SUFFICES ASSUME NEW u \in Caller, call'[u] # NoReq PROVE Appends(call[u])'
      OBVIOUS
    <2>1. CASE u = t
      BY <1>4, <1>5, <2>1 DEF Appends
    <2>2. CASE u # t
      BY <1>4, <1>7, <2>2
    <2> QED
      BY <2>1, <2>2
  <1>10. \A i \in 1 .. Len(events) : events[i].id <= next_event'
    BY <1>1, <1>2 DEF Event
  <1> QED
    BY <1>1, <1>4, <1>8, <1>9, <1>10 DEF AuditInv

\* ... keeps it while it is stamped ...
LEMMA AppendStampKeeps ==
    ASSUME AuditInv, gate = "audit", gate' = gate, clock' = clock, NEW t \in Caller, AppendStamp(t)
    PROVE  AuditInv'
  <1> DEFINE c == call[t]
             new == [at |-> "push", id |-> c.id, device |-> c.device,
                     created_at |-> clock, began |-> c.began]
  <1>1. /\ UNCHANGED <<events, next_event>> /\ call' = [call EXCEPT ![t] = new] /\ c # NoReq
        /\ clock \in Nat /\ DOMAIN call = Caller
    BY DEF AppendStamp, AuditInv
  <1>2. Appends(c)
    BY <1>1 DEF AuditInv
  <1>3. new.id = c.id /\ new.device = c.device /\ new.created_at = clock
    OBVIOUS
  <1> HIDE DEF new
  <1>4. DOMAIN call' = Caller /\ call'[t] = new /\ \A u \in Caller : u # t => call'[u] = call[u]
    BY <1>1
  <1> HIDE DEF c
  <1>5. \A u \in Caller : call'[u] # NoReq => Appends(call[u])'
    <2> SUFFICES ASSUME NEW u \in Caller, call'[u] # NoReq PROVE Appends(call[u])'
      OBVIOUS
    <2>1. CASE u = t
      BY <1>1, <1>2, <1>3, <1>4, <2>1 DEF Appends
    <2>2. CASE u # t
      BY <1>1, <1>4, <2>2 DEF Appends, AuditInv
    <2> QED
      BY <2>1, <2>2
  <1>6. ASSUME NEW u \in Caller, NEW v \in Caller, u # v, call'[u] # NoReq, call'[v] # NoReq
        PROVE  call'[u].id # call'[v].id
    BY <1>1, <1>3, <1>4, <1>6 DEF AuditInv, c
  <1> QED
    BY <1>1, <1>4, <1>5, <1>6 DEF AuditInv

\* ... and pushes it once.
LEMMA AppendPushKeeps ==
    ASSUME AuditInv, gate = "audit", gate' = gate, clock' = clock, NEW t \in Caller, AppendPush(t)
    PROVE  AuditInv'
  <1> DEFINE c == call[t]
             e == AuditEvent(c)
             n == Len(events)
  <1>1. /\ next_event' = next_event /\ call' = [call EXCEPT ![t] = NoReq] /\ c # NoReq
        /\ events' = Append(events, e) /\ c.at = "push"
        /\ clock \in Nat /\ next_event \in Nat /\ DOMAIN call = Caller /\ events \in Seq(Event)
    BY DEF AppendPush, AuditInv
  <1>2. Appends(c)
    BY <1>1 DEF AuditInv
  <1>3. e \in Event /\ e.id = c.id /\ e.id <= next_event
    BY <1>1, <1>2 DEF Appends, AuditEvent, Event
  <1> HIDE DEF e
  <1>4. /\ events' \in Seq(Event) /\ Len(events') = n + 1 /\ events'[n + 1] = e /\ n \in Nat
        /\ \A i \in 1 .. n : events'[i] = events[i]
    BY <1>1, <1>3, AppendProperties
  <1>5. \A i \in 1 .. n + 1 : i = n + 1 \/ i \in 1 .. n
    BY <1>4
  <1>6. \A i \in 1 .. n : events[i].id # e.id /\ events[i].id <= next_event
    BY <1>2, <1>3 DEF Appends, AuditInv
  <1> HIDE DEF n
  <1>7. \A u \in Caller : u # t /\ call[u] # NoReq => Appends(call[u]) /\ call[u].id # e.id
    BY <1>1, <1>3 DEF AuditInv
  <1> HIDE DEF c
  <1>8. /\ DOMAIN call' = Caller /\ \A u \in Caller : call'[u] # NoReq => u # t /\ call'[u] = call[u]
    BY <1>1
  <1>9. ASSUME NEW u \in Caller, call'[u] # NoReq PROVE Appends(call[u])'
    <2>1. u # t /\ call'[u] = call[u] /\ Appends(call[u]) /\ call[u].id # e.id
      BY <1>7, <1>8, <1>9
    <2>2. \A i \in 1 .. n + 1 : events'[i].id # call'[u].id
      BY <1>4, <1>5, <2>1 DEF Appends, n
    <2> QED
      BY <1>1, <1>4, <2>1, <2>2 DEF Appends
  <1>10. \A i \in 1 .. Len(events') : events'[i].id <= next_event'
    BY <1>1, <1>3, <1>4, <1>5, <1>6
  <1>11. \A i, j \in 1 .. Len(events') : events'[i].id = events'[j].id => i = j
    BY <1>4, <1>5, <1>6 DEF AuditInv, n
  <1>12. ASSUME NEW u \in Caller, NEW v \in Caller, u # v, call'[u] # NoReq, call'[v] # NoReq
         PROVE  call'[u].id # call'[v].id
    BY <1>8, <1>12 DEF AuditInv
  <1> QED
    BY <1>1, <1>4, <1>8, <1>9, <1>10, <1>11, <1>12 DEF AuditInv

\* Every step keeps the invariant.
LEMMA AuditStep == AuditInv /\ [GatesNext]_gvars => AuditInv'
  <1> SUFFICES ASSUME AuditInv, [GatesNext]_gvars PROVE AuditInv'
    OBVIOUS
  <1>0. clock \in Nat
    BY DEF AuditInv
  <1>1. CASE LimiterNext
    <2>1. gate = "limit" /\ UNCHANGED <<gate, clock, call, events, next_event>>
      BY <1>1 DEF LimiterNext
    <2> QED
      BY <1>0, <2>1, OthersKeepAudit
  <1>2. CASE LoginNext
    <2>1. gate = "lockout" /\ UNCHANGED <<gate, clock>>
      BY <1>2 DEF LoginNext
    <2>2. events' = events /\ (next_event' = next_event \/ next_event' = next_event + 1)
      BY <1>2 DEF LoginNext, StartLogin, CheckKey, VerifyFails, RecordFailure, Succeed
    <2> QED
      BY <1>0, <2>1, <2>2, OthersKeepAudit
  <1>3. CASE BlocklistNext
    <2>1. gate = "block" /\ UNCHANGED <<gate, clock, events, next_event>>
      BY <1>3 DEF BlocklistNext
    <2> QED
      BY <1>0, <2>1, OthersKeepAudit
  <1>4. CASE AuditNext
    BY <1>4, AppendIdKeeps, AppendStampKeeps, AppendPushKeeps DEF AuditNext
  <1>5. CASE GatesTick
    <2>1. clock' = clock + 1 /\ UNCHANGED <<gate, call, events, next_event>>
      BY <1>5 DEF GatesTick
    <2>2. clock' \in Nat
      BY <1>0, <2>1
    <2> QED
      BY <2>1, <2>2, OthersKeepAudit
  <1>6. CASE UNCHANGED gvars
    <2>1. UNCHANGED <<gate, clock, call, events, next_event>>
      BY <1>6 DEF gvars
    <2> QED
      BY <1>0, <2>1, OthersKeepAudit
  <1> QED
    BY <1>1, <1>2, <1>3, <1>4, <1>5, <1>6 DEF GatesNext

\* A page of a log with ids of its own is the newest part of the sorted log.
LEMMA AuditPage == AuditInv => AuditPageNewest
  <1> SUFFICES ASSUME AuditInv, NEW d \in Dev
               PROVE  LET page == ListForDevice(d, Page)
                          mine == {e \in Range(events) : e.device = d}
                      IN /\ Len(page) = Least(Page, Cardinality(mine))
                         /\ \A e \in mine \ Range(page) : \A f \in Range(page) : Newer(f, e)
    BY DEF AuditPageNewest
  <1> DEFINE mine == {e \in Range(events) : e.device = d}
             all == NewestFirst(mine)
             n == Cardinality(mine)
             k == Least(n, Page)
  <1>1. events \in Seq(Event) /\ DOMAIN events = 1 .. Len(events) /\ Len(events) \in Nat
    BY DEF AuditInv
  <1>2. OwnIds(mine)
    BY <1>1 DEF OwnIds, AuditInv, Range
  <1>3. IsFiniteSet(mine)
    <2>1. IsFiniteSet(1 .. Len(events))
      BY <1>1, FS_Interval
    <2>2. events \in Surjection(1 .. Len(events), Range(events))
      BY <1>1 DEF Surjection, Range
    <2>3. IsFiniteSet(Range(events))
      BY <2>1, <2>2, FS_Surjection
    <2> QED
      BY <2>3, FS_Subset
  <1> HIDE DEF mine
  <1>4. /\ all \in Seq(mine) /\ Len(all) = n /\ Range(all) = mine
        /\ \A i, j \in 1 .. n : i < j => Newer(all[i], all[j])
        /\ n \in Nat /\ DOMAIN all = 1 .. n
    BY <1>2, <1>3, NewestFirstSorts, FS_CardinalityType
  <1>5. Page \in 1 .. 500 /\ Clamp500(Page) = Page
    BY GatesAssumption DEF Clamp500, Most, Least
  <1>6. ListForDevice(d, Page) = SubSeq(all, 1, k)
    BY <1>4, <1>5 DEF ListForDevice, mine
  <1>7. k \in 0 .. n /\ k = Least(Page, n)
    BY <1>4, <1>5 DEF Least
  <1> HIDE DEF all, n, k
  <1> DEFINE page == SubSeq(all, 1, k)
  <1>8. page \in Seq(mine) /\ Len(page) = k /\ DOMAIN page = 1 .. k /\ \A i \in 1 .. k : page[i] = all[i]
    BY <1>4, <1>7, SubSeqProperties
  <1> HIDE DEF page
  <1>9. ASSUME NEW e \in mine \ Range(page), NEW f \in Range(page) PROVE Newer(f, e)
    <2>1. PICK i \in 1 .. k : f = all[i]
      BY <1>8 DEF Range
    <2>2. PICK j \in 1 .. n : e = all[j]
      BY <1>4 DEF Range
    <2>3. j \notin 1 .. k
      BY <1>8, <2>2 DEF Range
    <2> QED
      BY <1>4, <1>7, <2>1, <2>2, <2>3
  <1> QED
    BY <1>6, <1>7, <1>8, <1>9 DEF page, mine, n

\* A page of the audit log is the newest events of the device there are, however
\* many requests append at once and in whatever order they push (audit.rs append,
\* list_for_device).
THEOREM AuditCorrect == GatesSpec => []AuditPageNewest
  <1>1. AuditInv /\ [GatesNext]_gvars => AuditInv'
    BY AuditStep
  <1> QED
    BY <1>1, AuditStart, AuditPage, PTL DEF GatesSpec

-----------------------------------------------------------------------------
\* The registry.

USE ConstantsAssumption

\* The session table and the lock are well typed after any set of sessions
\* is closed.
LEMMA ClosingTypes ==
    ASSUME TypeOK, NEW S \in SUBSET Sid
    PROVE  /\ SessionsWithout(S) \in [Sid -> Session \cup {None}]
           /\ BusyWithout(S) \in [Host -> Sid \cup {None}]
  BY DEF TypeOK, SessionsWithout, BusyWithout

\* A session's next sequence number is a legal message sequence number, so
\* the end notices of a closing are well typed.
LEMMA HeardEndType ==
    ASSUME TypeOK, NEW S \in SUBSET Sid, NEW lk
    PROVE  HeardEnd(S, lk) \in [Conn -> [Sid -> Message \cup {None}]]
  BY DEF TypeOK, HeardEnd, Msg, Message, Session

\* Putting a message on a connection's channel keeps the record well typed.
LEMMA DeliverType ==
    ASSUME NEW hd \in [Conn -> [Sid -> Message \cup {None}]],
           NEW c \in Conn, NEW s \in Sid, NEW m \in Message
    PROVE  Deliver(hd, c, s, m) \in [Conn -> [Sid -> Message \cup {None}]]
  BY DEF Deliver

\* The counter advances until it has reached u64::MAX, and never passes it.
LEMMA SaturatingAdd1Type ==
    ASSUME NEW q \in SeqNo
    PROVE  /\ SaturatingAdd1(q) \in SeqNo
           /\ q < SaturatingAdd1(q) \/ SaturatingAdd1(q) = MaxSeq
  BY DEF SeqNo, SaturatingAdd1

\* What is reaped are sessions.
LEMMA ReapableType == Reapable \in SUBSET Sid
  BY DEF Reapable

\* Every step of the registry keeps the types.
LEMMA TypeStep == TypeOK /\ [Next]_vars => TypeOK'
<1> SUFFICES ASSUME TypeOK, [Next]_vars PROVE TypeOK'
  OBVIOUS
<1> USE ReapableType DEF UNCHANGED_links
<1>1. ASSUME NEW c \in Conn, RegisterConn(c) PROVE TypeOK'
  BY <1>1 DEF TypeOK, RegisterConn, Link
<1>2. ASSUME NEW c \in Conn, WriterBreaks(c) PROVE TypeOK'
  BY <1>2 DEF TypeOK, WriterBreaks, Link
<1>3. ASSUME NEW c \in Conn, BindViewer(c) PROVE TypeOK'
  BY <1>3 DEF TypeOK, BindViewer, Identity
<1>4. ASSUME NEW c \in Conn, NEW h \in Host, BindHost(c, h) PROVE TypeOK'
  <2>1. link' \in [Conn -> Link] /\ identity' \in [Conn -> Identity \cup {None}]
    BY <1>4 DEF TypeOK, BindHost, Identity, Link
  <2>2. host_by_public_id' \in [Host -> Conn \cup {None}]
    BY <1>4 DEF TypeOK, BindHost
  <2>3. sessions' \in [Sid -> Session \cup {None}]
    <3>1. ASSUME NEW s \in Sid, sessions[s] # None
          PROVE  [sessions[s] EXCEPT !.host_conn = c] \in Session
      BY <3>1 DEF TypeOK, Session
    <3> QED BY <1>4, <3>1 DEF TypeOK, BindHost
  <2> QED BY <1>4, <2>1, <2>2, <2>3 DEF TypeOK, BindHost
<1>5. ASSUME NEW c \in Conn, UnregisterConn(c) PROVE TypeOK'
  <2> DEFINE affected == {s \in Sid : sessions[s] # None /\ Party(c, sessions[s])}
  <2>1. /\ sessions' = SessionsWithout(affected)
        /\ host_busy' = BusyWithout(affected)
        /\ heard' = HeardEnd(affected, link')
    BY <1>5 DEF UnregisterConn
  <2>2. affected \in SUBSET Sid
    OBVIOUS
  <2> HIDE DEF affected
  <2>3. /\ link' \in [Conn -> Link] /\ identity' \in [Conn -> Identity \cup {None}]
        /\ host_by_public_id' \in [Host -> Conn \cup {None}]
    BY <1>5 DEF TypeOK, UnregisterConn, Link
  <2> QED BY <2>1, <2>2, <2>3, ClosingTypes, HeardEndType DEF TypeOK
<1>6. ASSUME NEW c \in Conn, NEW s \in Sid, NEW q \in SeqNo, NEW h \in Host,
             CreatePendingSession(c, s, h, q)
      PROVE  TypeOK'
  <2> DEFINE hd == HeardEnd(Reapable, link)
             told == [x \in Conn |-> [hd[x] EXCEPT ![s] = None]]
  <2>1. hd \in [Conn -> [Sid -> Message \cup {None}]]
    BY HeardEndType
  <2>2. told \in [Conn -> [Sid -> Message \cup {None}]]
    <3> HIDE DEF hd
    <3> QED BY <2>1
  <2>3. host_by_public_id[h] \in Conn /\ q + 1 \in SeqNo /\ q + 2 \in SeqNo
    BY <1>6 DEF CreatePendingSession, CanCreate, TypeOK, SeqNo
  <2>4. Msg("incoming", q + 1) \in Message
    BY <2>3 DEF Msg, Message
  <2>5. PendingSession(c, h, q) \in Session
    BY <2>3 DEF PendingSession, Session, SessionState
  <2>6. heard' \in [Conn -> [Sid -> Message \cup {None}]]
    <3>1. heard' = hd \/ heard' = Deliver(told, host_by_public_id[h], s, Msg("incoming", q + 1))
      BY <1>6 DEF CreatePendingSession
    <3>2. CASE heard' = hd
      BY <3>2, <2>1
    <3>3. CASE heard' = Deliver(told, host_by_public_id[h], s, Msg("incoming", q + 1))
      <4> HIDE DEF told
      <4> QED BY <3>3, <2>2, <2>3, <2>4, DeliverType
    <3> QED BY <3>1, <3>2, <3>3
  <2>7. /\ sessions' \in [Sid -> Session \cup {None}]
        /\ host_busy' \in [Host -> Sid \cup {None}]
    BY <1>6, <2>5, ClosingTypes DEF CreatePendingSession
  <2> QED BY <1>6, <2>6, <2>7 DEF CreatePendingSession, TypeOK
<1>7. ASSUME NEW c \in Conn, NEW s \in Sid, NEW q \in SeqNo, AcceptSession(c, s, q)
      PROVE  TypeOK'
  <2>1. sessions[s] \in Session
    BY <1>7 DEF AcceptSession, LiveIn, TypeOK
  <2>2. /\ sessions' \in [Sid -> Session \cup {None}]
        /\ host_busy' \in [Host -> Sid \cup {None}]
    BY <1>7, <2>1, ClosingTypes, SaturatingAdd1Type
    DEF AcceptSession, Session, SessionState
  <2>3. heard' \in [Conn -> [Sid -> Message \cup {None}]]
    BY <1>7, <2>1, HeardEndType, DeliverType DEF AcceptSession, Session, Msg, Message
  <2> QED BY <1>7, <2>2, <2>3 DEF AcceptSession, TypeOK
<1>8. ASSUME NEW c \in Conn, NEW s \in Sid, NEW q \in SeqNo, NEW k \in {"reject", "end"},
             sessions[s] # None, CloseByRequest(c, s, k, q)
      PROVE  TypeOK'
  <2> DEFINE hd == HeardEnd(Reapable, link)
             told == [hd EXCEPT ![c][s] = Msg(k, q)]
  <2>1. sessions[s] \in Session
    BY <1>8 DEF TypeOK
  <2>2. PeerOf(c, sessions[s]) \in Conn /\ Msg(k, q) \in Message
    BY <2>1 DEF Session, PeerOf, Msg, Message
  <2>3. told \in [Conn -> [Sid -> Message \cup {None}]]
    BY <2>2, HeardEndType
  <2>4. heard' = Deliver(told, PeerOf(c, sessions[s]), s, Msg(k, q))
    BY <1>8 DEF CloseByRequest
  <2>5. heard' \in [Conn -> [Sid -> Message \cup {None}]]
    <3> HIDE DEF told
    <3> QED BY <2>2, <2>3, <2>4, DeliverType
  <2>6. /\ sessions' \in [Sid -> Session \cup {None}]
        /\ host_busy' \in [Host -> Sid \cup {None}]
    BY <1>8, ClosingTypes DEF CloseByRequest
  <2> QED BY <1>8, <2>5, <2>6 DEF CloseByRequest, TypeOK
<1>9. ASSUME NEW c \in Conn, NEW s \in Sid, NEW q \in SeqNo, RejectSession(c, s, q)
      PROVE  TypeOK'
  BY <1>8, <1>9 DEF RejectSession, LiveIn
<1>10. ASSUME NEW c \in Conn, NEW s \in Sid, NEW q \in SeqNo, EndSession(c, s, q)
       PROVE  TypeOK'
  BY <1>8, <1>10 DEF EndSession
<1>11. ASSUME NEW c \in Conn, NEW s \in Sid, NEW q \in SeqNo, NEW k \in RelayKind,
              RelayMediaSignal(c, s, k, q)
       PROVE  TypeOK'
  <2>1. sessions[s] \in Session
    BY <1>11 DEF RelayMediaSignal, LiveIn, TypeOK
  <2>2. /\ sessions' \in [Sid -> Session \cup {None}]
        /\ host_busy' \in [Host -> Sid \cup {None}]
    BY <1>11, <2>1, ClosingTypes, SaturatingAdd1Type DEF RelayMediaSignal, Session
  <2>3. PeerOf(c, sessions[s]) \in Conn /\ Msg(k, q) \in Message
    BY <2>1 DEF Session, PeerOf, Msg, Message
  <2>4. heard' \in [Conn -> [Sid -> Message \cup {None}]]
    BY <1>11, <2>3, HeardEndType, DeliverType DEF RelayMediaSignal
  <2> QED BY <1>11, <2>2, <2>4 DEF RelayMediaSignal, TypeOK
<1>12. ASSUME NEW s \in Sid, ForceDisconnect(s) PROVE TypeOK'
  BY <1>12, ClosingTypes, HeardEndType DEF ForceDisconnect, TypeOK
<1>13. ASSUME ReapExpired PROVE TypeOK'
  BY <1>13, ClosingTypes, HeardEndType DEF ReapExpired, Reap, TypeOK
<1>14. ASSUME Tick PROVE TypeOK'
  <2>1. ASSUME NEW s \in Sid, sessions[s] # None, sessions[s].ttl > 0
        PROVE  [sessions[s] EXCEPT !.ttl = @ - 1] \in Session
    BY <2>1 DEF TypeOK, Session
  <2> QED BY <1>14, <2>1 DEF Tick, Older, TypeOK
<1>15. CASE UNCHANGED vars
  BY <1>15 DEF vars, TypeOK
<1> QED
  BY <1>1, <1>2, <1>3, <1>4, <1>5, <1>6, <1>7, <1>9, <1>10, <1>11, <1>12, <1>13,
     <1>14, <1>15
  DEF Next, ConnStep, Request

\* The registry's tables always hold values of their types, in particular no
\* sequence number exceeds u64::MAX (TypeOK).
THEOREM TypeCorrect == Spec => []TypeOK
<1>1. Init => TypeOK
  BY DEF Init, TypeOK, Link
<1> QED BY <1>1, TypeStep, PTL DEF Spec

-----------------------------------------------------------------------------
\* Closing any set of sessions releases exactly their locks.
LEMMA ClosingKeepsLock ==
    ASSUME TypeOK, LockMatchesSessions, NEW S \in SUBSET Sid
    PROVE  \A h \in Host, s \in Sid :
               BusyWithout(S)[h] = s <=>
                   SessionsWithout(S)[s] # None /\ SessionsWithout(S)[s].host = h
  BY DEF TypeOK, LockMatchesSessions, BusyWithout, SessionsWithout, Session

\* A request that closes a set of sessions and touches no other.
LEMMA ClosingStep ==
    ASSUME TypeOK, LockMatchesSessions, NEW S \in SUBSET Sid,
           sessions' = SessionsWithout(S), host_busy' = BusyWithout(S)
    PROVE  LockMatchesSessions'
  BY ClosingKeepsLock DEF LockMatchesSessions

\* A request that rewrites one open session without moving it to another
\* host, after reaping.
LEMMA UpdateStep ==
    ASSUME TypeOK, LockMatchesSessions, NEW s \in Sid, NEW ss \in Session,
           sessions[s] # None, ~Expired(s), ss.host = sessions[s].host,
           sessions' = [SessionsWithout(Reapable) EXCEPT ![s] = ss],
           host_busy' = BusyWithout(Reapable)
    PROVE  LockMatchesSessions'
<1>1. s \notin Reapable /\ Reapable \in SUBSET Sid
  BY DEF Reapable
<1>2. SessionsWithout(Reapable)[s] = sessions[s]
  BY <1>1 DEF SessionsWithout
<1>3. \A h \in Host, x \in Sid : BusyWithout(Reapable)[h] = x <=>
         SessionsWithout(Reapable)[x] # None /\ SessionsWithout(Reapable)[x].host = h
  BY <1>1, ClosingKeepsLock
<1>4. SessionsWithout(Reapable) \in [Sid -> Session \cup {None}]
  BY <1>1, ClosingTypes
<1> QED BY <1>2, <1>3, <1>4 DEF LockMatchesSessions

\* The busy lock and the session table agree in every reachable state: at
\* most one session per host, and no lock without its session
\* (create_pending_session, close_session_locked, reject, end, unregister).
THEOREM LockCorrect == Spec => []LockMatchesSessions
<1>1. Init => LockMatchesSessions
  BY DEF Init, LockMatchesSessions
<1>2. TypeOK /\ LockMatchesSessions /\ [Next]_vars => LockMatchesSessions'
  <2> SUFFICES ASSUME TypeOK, LockMatchesSessions, [Next]_vars
               PROVE  LockMatchesSessions'
    OBVIOUS
  <2> USE ReapableType
  <2>1. ASSUME NEW c \in Conn, RegisterConn(c) \/ WriterBreaks(c) \/ BindViewer(c)
        PROVE  LockMatchesSessions'
    BY <2>1 DEF LockMatchesSessions, RegisterConn, WriterBreaks, BindViewer
  <2>2. ASSUME NEW c \in Conn, NEW h \in Host, BindHost(c, h)
        PROVE  LockMatchesSessions'
    <3>1. ASSUME NEW s \in Sid
          PROVE  /\ sessions'[s] # None <=> sessions[s] # None
                 /\ sessions[s] # None => sessions'[s].host = sessions[s].host
      <4>1. CASE sessions'[s] = sessions[s]
        BY <4>1
      <4>2. CASE sessions[s] # None /\ sessions'[s] = [sessions[s] EXCEPT !.host_conn = c]
        <5>1. sessions'[s] \in Session /\ sessions'[s].host = sessions[s].host
          BY <4>2 DEF TypeOK, Session
        <5> QED BY <5>1, <4>2
      <4> QED BY <2>2, <4>1, <4>2 DEF BindHost
    <3>2. host_busy' = host_busy
      BY <2>2 DEF BindHost
    <3> QED BY <3>1, <3>2 DEF LockMatchesSessions
  <2>3. ASSUME NEW c \in Conn, UnregisterConn(c) PROVE LockMatchesSessions'
    BY <2>3, ClosingStep DEF UnregisterConn
  <2>4. ASSUME NEW c \in Conn, NEW s \in Sid, NEW q \in SeqNo, NEW h \in Host,
               CreatePendingSession(c, s, h, q)
        PROVE  LockMatchesSessions'
    <3>1. CASE link[host_by_public_id[h]] = "open"
      <4> DEFINE SW == SessionsWithout(Reapable)
                 BW == BusyWithout(Reapable)
                 new == PendingSession(c, h, q)
      <4>1. /\ sessions' = [SW EXCEPT ![s] = new]
            /\ host_busy' = [BW EXCEPT ![h] = s]
            /\ SW[s] = None /\ BW[h] = None
        BY <2>4, <3>1 DEF CreatePendingSession, CanCreate
      <4>2. /\ SW \in [Sid -> Session \cup {None}]
            /\ BW \in [Host -> Sid \cup {None}]
        BY ClosingTypes
      <4>3. \A g \in Host, x \in Sid : BW[g] = x <=> SW[x] # None /\ SW[x].host = g
        BY ClosingKeepsLock
      <4>4. new.host = h /\ new # None
        <5>1. new \in Session
          BY <2>4 DEF CreatePendingSession, CanCreate, TypeOK, SeqNo, PendingSession,
                      Session, SessionState
        <5> QED BY <5>1 DEF PendingSession
      <4> HIDE DEF SW, BW, new
      <4> QED BY <4>1, <4>2, <4>3, <4>4 DEF LockMatchesSessions
    <3>2. CASE link[host_by_public_id[h]] # "open"
      BY <2>4, <3>2, ClosingStep DEF CreatePendingSession
    <3> QED BY <3>1, <3>2
  <2>5. ASSUME NEW c \in Conn, NEW s \in Sid, NEW q \in SeqNo, AcceptSession(c, s, q)
        PROVE  LockMatchesSessions'
    <3> DEFINE ss == [sessions[s] EXCEPT !.state = "active", !.ttl = ActiveTtl,
                                         !.next_signal_seq = SaturatingAdd1(q)]
    <3>0. sessions[s] \in Session
      BY <2>5 DEF AcceptSession, LiveIn, TypeOK
    <3>1. ss \in Session /\ ss.host = sessions[s].host
      BY <3>0, SaturatingAdd1Type DEF Session, SessionState
    <3> QED BY <2>5, <3>1, UpdateStep DEF AcceptSession, LiveIn
  <2>6. ASSUME NEW c \in Conn, NEW s \in Sid, NEW q \in SeqNo,
               RejectSession(c, s, q) \/ EndSession(c, s, q)
        PROVE  LockMatchesSessions'
    BY <2>6, ClosingStep DEF RejectSession, EndSession, CloseByRequest
  <2>7. ASSUME NEW c \in Conn, NEW s \in Sid, NEW q \in SeqNo, NEW k \in RelayKind,
               RelayMediaSignal(c, s, k, q)
        PROVE  LockMatchesSessions'
    <3> DEFINE ss == [sessions[s] EXCEPT !.next_signal_seq = SaturatingAdd1(q)]
    <3>1. ss \in Session /\ ss.host = sessions[s].host
      BY <2>7, SaturatingAdd1Type DEF RelayMediaSignal, LiveIn, TypeOK, Session
    <3> QED BY <2>7, <3>1, UpdateStep DEF RelayMediaSignal, LiveIn
  <2>8. ASSUME NEW s \in Sid, ForceDisconnect(s) PROVE LockMatchesSessions'
    BY <2>8, ClosingStep DEF ForceDisconnect
  <2>9. ASSUME ReapExpired PROVE LockMatchesSessions'
    BY <2>9, ClosingStep DEF ReapExpired, Reap
  <2>10. ASSUME Tick PROVE LockMatchesSessions'
    <3>1. ASSUME NEW s \in Sid
          PROVE  /\ sessions'[s] # None <=> sessions[s] # None
                 /\ sessions[s] # None => sessions'[s].host = sessions[s].host
      <4>1. CASE sessions'[s] = sessions[s]
        BY <4>1
      <4>2. CASE /\ sessions[s] # None /\ sessions[s].ttl > 0
                 /\ sessions'[s] = [sessions[s] EXCEPT !.ttl = @ - 1]
        <5>1. sessions'[s] \in Session /\ sessions'[s].host = sessions[s].host
          BY <4>2 DEF TypeOK, Session
        <5> QED BY <5>1, <4>2
      <4> QED BY <2>10, <4>1, <4>2 DEF Tick, Older
    <3>2. host_busy' = host_busy
      BY <2>10 DEF Tick
    <3> QED BY <3>1, <3>2 DEF LockMatchesSessions
  <2>11. CASE UNCHANGED vars
    BY <2>11 DEF vars, LockMatchesSessions
  <2> QED
    BY <2>1, <2>2, <2>3, <2>4, <2>5, <2>6, <2>7, <2>8, <2>9, <2>10, <2>11
    DEF Next, ConnStep, Request
<1> QED BY <1>1, <1>2, TypeCorrect, PTL DEF Spec

-----------------------------------------------------------------------------
\* Only a host's socket is ever replaced by a newer hello, so a viewer that
\* still makes requests is in the connection map.
OnlyHostsEvicted ==
    \A c \in Conn : link[c] = "evicted" => identity[c] \in {HostId(h) : h \in Host}

\* The part of the state that says who is connected and in which session.
Connected == PartiesConnected /\ PresenceConnected /\ OnlyHostsEvicted

\* A request changes no connection and moves no session to another one.
LEMMA RequestKeepsConnected ==
    ASSUME Connected, UNCHANGED <<link, identity, host_by_public_id>>,
           \A s \in Sid : sessions'[s] # None =>
               /\ sessions[s] # None
               /\ sessions'[s].host = sessions[s].host
               /\ sessions'[s].host_conn = sessions[s].host_conn
               /\ sessions'[s].viewer_conn = sessions[s].viewer_conn
    PROVE  Connected'
  BY DEF Connected, PartiesConnected, PresenceConnected, OnlyHostsEvicted, InMap

\* In particular one that only closes sessions.
LEMMA ClosingKeepsConnected ==
    ASSUME Connected, UNCHANGED <<link, identity, host_by_public_id>>,
           NEW S \in SUBSET Sid, sessions' = SessionsWithout(S)
    PROVE  Connected'
  BY RequestKeepsConnected DEF SessionsWithout

\* Accept and relay rewrite a session, but not who takes part in it.
LEMMA UpdateKeepsConnected ==
    ASSUME Connected, UNCHANGED <<link, identity, host_by_public_id>>,
           NEW s \in Sid, NEW ss, sessions[s] # None,
           ss.host = sessions[s].host, ss.host_conn = sessions[s].host_conn,
           ss.viewer_conn = sessions[s].viewer_conn,
           sessions' = [SessionsWithout(Reapable) EXCEPT ![s] = ss]
    PROVE  Connected'
  BY RequestKeepsConnected DEF SessionsWithout

\* Both ends of every session stay connected in their roles and the host end
\* stays the published socket, through reconnects that replace the host's
\* socket and through every kind of disconnect (bind_peer,
\* unregister_conn_locked); presence never points at a dead socket.
THEOREM ConnectedCorrect == Spec => [](PartiesConnected /\ PresenceConnected)
<1>1. Init => Connected
  BY DEF Init, Connected, PartiesConnected, PresenceConnected, OnlyHostsEvicted
<1>2. TypeOK /\ Connected /\ [Next]_vars => Connected'
  <2> SUFFICES ASSUME TypeOK, Connected, [Next]_vars PROVE Connected'
    OBVIOUS
  <2> USE ReapableType DEF UNCHANGED_links
  <2>1. ASSUME NEW c \in Conn, RegisterConn(c) PROVE Connected'
    BY <2>1 DEF RegisterConn, TypeOK, Connected, PartiesConnected, PresenceConnected,
                OnlyHostsEvicted, InMap, Session
  <2>2. ASSUME NEW c \in Conn, WriterBreaks(c) PROVE Connected'
    BY <2>2 DEF WriterBreaks, TypeOK, Connected, PartiesConnected, PresenceConnected,
                OnlyHostsEvicted, InMap, Session
  <2>3. ASSUME NEW c \in Conn, BindViewer(c) PROVE Connected'
    <3>1. ASSUME NEW x \in Conn, identity[x] # None
          PROVE  identity'[x] = identity[x] /\ InMap(x)' = InMap(x)
      BY <2>3, <3>1 DEF BindViewer, TypeOK, InMap
    <3>2. None \notin {Viewer} /\ \A h \in Host : HostId(h) # None
      BY DEF Identity
    <3>3. OnlyHostsEvicted'
      BY <2>3 DEF BindViewer, TypeOK, InMap, Connected, OnlyHostsEvicted
    <3> QED BY <2>3, <3>1, <3>2, <3>3 DEF BindViewer, TypeOK, Connected, PartiesConnected,
                PresenceConnected, Session
  <2>4. ASSUME NEW c \in Conn, NEW h \in Host, BindHost(c, h) PROVE Connected'
    <3> DEFINE old == host_by_public_id[h]
    <3>1. Viewer # None /\ \A g \in Host : HostId(g) # None /\ HostId(g) # Viewer
      BY DEF Identity, HostId, Viewer
    <3>2. \A g \in Host : HostId(g) = HostId(h) => g = h
      BY DEF HostId
    <3>3. old # None => old \in Conn /\ identity[old] = HostId(h) /\ InMap(old)
      BY DEF Connected, PresenceConnected, TypeOK
    <3>4. c # old /\ InMap(c) /\ identity[c] = None
      BY <2>4, <3>1, <3>3 DEF BindHost
    <3>5. ASSUME NEW x \in Conn, x # old, identity[x] # None
          PROVE  /\ identity'[x] = identity[x]
                 /\ InMap(x) => InMap(x)'
      BY <2>4, <3>5 DEF BindHost, TypeOK, InMap
    <3>6. InMap(c)' /\ identity'[c] = HostId(h)
      BY <2>4, <3>4 DEF BindHost, TypeOK, InMap
    <3>7. PresenceConnected'
      <4> SUFFICES ASSUME NEW g \in Host, host_by_public_id'[g] # None
                   PROVE  /\ InMap(host_by_public_id[g])'
                          /\ identity'[host_by_public_id'[g]] = HostId(g)
        BY DEF PresenceConnected
      <4>1. CASE g = h
        BY <2>4, <4>1, <3>6 DEF BindHost, TypeOK
      <4>2. CASE g # h
        <5>1. host_by_public_id'[g] = host_by_public_id[g]
          BY <2>4, <4>2 DEF BindHost, TypeOK
        <5>2. /\ host_by_public_id[g] \in Conn
              /\ InMap(host_by_public_id[g])
              /\ identity[host_by_public_id[g]] = HostId(g)
          BY <5>1 DEF Connected, PresenceConnected, TypeOK
        <5>3. host_by_public_id[g] # old
          BY <5>2, <3>2, <3>3, <4>2
        <5>4. InMap(host_by_public_id[g])' /\ identity'[host_by_public_id[g]] = HostId(g)
          <6> DEFINE x == host_by_public_id[g]
          <6>1. x \in Conn /\ x # old /\ identity[x] # None /\ InMap(x)
            BY <5>2, <5>3, <3>1
          <6>2. identity'[x] = HostId(g)
            BY <6>1, <3>5, <5>2
          <6>3. link'[x] = link[x]
            BY <2>4, <6>1 DEF BindHost, TypeOK
          <6> QED BY <6>1, <6>2, <6>3, <5>1 DEF InMap
        <5> QED BY <5>1, <5>4 DEF InMap
      <4> QED BY <4>1, <4>2
    <3>8. PartiesConnected'
      <4> SUFFICES ASSUME NEW s \in Sid, sessions'[s] # None
                   PROVE  LET ss == sessions'[s] IN
                          /\ link'[ss.host_conn] \in {"open", "broken"}
                          /\ identity'[ss.host_conn] = HostId(ss.host)
                          /\ host_by_public_id'[ss.host] = ss.host_conn
                          /\ link'[ss.viewer_conn] \in {"open", "broken"}
                          /\ identity'[ss.viewer_conn] = Viewer
        BY DEF PartiesConnected, InMap
      <4> DEFINE o == sessions[s]
      <4>1. sessions[s] # None
        BY <2>4 DEF BindHost
      <4>2. /\ o \in Session /\ o.host \in Host /\ o.host_conn \in Conn
            /\ o.viewer_conn \in Conn
        BY <4>1 DEF TypeOK, Session
      <4>3. /\ InMap(o.host_conn) /\ identity[o.host_conn] = HostId(o.host)
            /\ host_by_public_id[o.host] = o.host_conn
            /\ InMap(o.viewer_conn) /\ identity[o.viewer_conn] = Viewer
        BY <4>1 DEF Connected, PartiesConnected
      <4>4. o.viewer_conn # old
        BY <4>2, <4>3, <3>1, <3>3
      <4>5. /\ identity'[o.viewer_conn] = Viewer
            /\ link'[o.viewer_conn] \in {"open", "broken"}
        BY <2>4, <4>2, <4>3, <4>4, <3>1, <3>5 DEF BindHost, TypeOK, InMap
      <4>6. CASE o.host = h
        <5>1. o.host_conn = old
          BY <4>3, <4>6
        <5>2. sessions'[s] = [o EXCEPT !.host_conn = c]
          BY <2>4, <4>1, <4>6, <5>1 DEF BindHost
        <5>3. /\ sessions'[s].host = h /\ sessions'[s].host_conn = c
              /\ sessions'[s].viewer_conn = o.viewer_conn
          BY <5>2, <4>2, <4>6 DEF Session
        <5> QED BY <2>4, <5>3, <4>5, <3>6 DEF BindHost, TypeOK, InMap
      <4>7. CASE o.host # h
        <5>1. sessions'[s] = o
          BY <2>4, <4>7 DEF BindHost
        <5>2. o.host_conn # old
          BY <4>2, <4>3, <4>7, <3>2, <3>3
        <5>3. /\ identity'[o.host_conn] = HostId(o.host)
              /\ link'[o.host_conn] \in {"open", "broken"}
          BY <2>4, <4>2, <4>3, <5>2, <3>1, <3>5 DEF BindHost, TypeOK, InMap
        <5>4. host_by_public_id'[o.host] = o.host_conn
          BY <2>4, <4>2, <4>3, <4>7 DEF BindHost, TypeOK
        <5> QED BY <5>1, <5>3, <5>4, <4>5
      <4> QED BY <4>6, <4>7
    <3>9. OnlyHostsEvicted'
      <4> SUFFICES ASSUME NEW x \in Conn, link'[x] = "evicted"
                   PROVE  identity'[x] \in {HostId(g) : g \in Host}
        BY DEF OnlyHostsEvicted
      <4>1. CASE x = old
        BY <2>4, <4>1, <3>3, <3>4 DEF BindHost, TypeOK
      <4>2. CASE x # old
        <5>1. link[x] = "evicted" /\ x # c
          BY <2>4, <4>2, <3>4 DEF BindHost, TypeOK, InMap
        <5> QED BY <2>4, <5>1 DEF BindHost, TypeOK, Connected, OnlyHostsEvicted
      <4> QED BY <4>1, <4>2
    <3> QED BY <3>7, <3>8, <3>9 DEF Connected
  <2>5. ASSUME NEW c \in Conn, UnregisterConn(c) PROVE Connected'
    <3>1. ASSUME NEW x \in Conn, x # c
          PROVE  link'[x] = link[x] /\ identity'[x] = identity[x]
      BY <2>5, <3>1 DEF UnregisterConn, TypeOK
    <3>2. ASSUME NEW s \in Sid, sessions'[s] # None
          PROVE  /\ sessions[s] # None /\ sessions'[s] = sessions[s]
                 /\ sessions[s].host_conn # c /\ sessions[s].viewer_conn # c
      BY <2>5, <3>2 DEF UnregisterConn, SessionsWithout, Party
    <3>3. \A h \in Host : host_by_public_id[h] # c =>
             host_by_public_id'[h] = host_by_public_id[h]
      BY <2>5 DEF UnregisterConn
    <3>4. \A h \in Host : host_by_public_id'[h] # None =>
             host_by_public_id[h] # c
      BY <2>5 DEF UnregisterConn
    <3>5. PartiesConnected'
      BY <3>1, <3>2, <3>3 DEF Connected, PartiesConnected, TypeOK, Session, InMap
    <3>6. PresenceConnected'
      BY <3>1, <3>3, <3>4 DEF Connected, PresenceConnected, TypeOK, InMap
    <3>7. OnlyHostsEvicted'
      BY <2>5, <3>1 DEF UnregisterConn, TypeOK, Connected, OnlyHostsEvicted
    <3> QED BY <3>5, <3>6, <3>7 DEF Connected
  <2>6. ASSUME NEW c \in Conn, NEW s \in Sid, NEW q \in SeqNo, NEW h \in Host,
               CreatePendingSession(c, s, h, q)
        PROVE  Connected'
    <3>1. CASE link[host_by_public_id[h]] # "open"
      BY <2>6, <3>1, ClosingKeepsConnected DEF CreatePendingSession
    <3>2. CASE link[host_by_public_id[h]] = "open"
      <4> DEFINE new == PendingSession(c, h, q)
      <4>1. sessions' = [SessionsWithout(Reapable) EXCEPT ![s] = new]
        BY <2>6, <3>2 DEF CreatePendingSession
      <4>2. /\ UNCHANGED <<link, identity, host_by_public_id>>
            /\ host_by_public_id[h] # None
        BY <2>6 DEF CreatePendingSession, CanCreate
      <4>3. /\ new.host = h /\ new.host_conn = host_by_public_id[h]
            /\ new.viewer_conn = c
        BY DEF PendingSession
      <4>4. InMap(c) /\ identity[c] = Viewer
        <5>1. identity[c] = Viewer
          BY <2>6 DEF CreatePendingSession, Serving, TypeOK, Identity, HostId
        <5>2. link[c] # "evicted"
          BY <5>1 DEF Connected, OnlyHostsEvicted, Viewer, HostId
        <5> QED BY <2>6, <5>1, <5>2 DEF CreatePendingSession, Serving, InMap
      <4>5. ASSUME NEW x \in Sid, x # s, sessions'[x] # None
            PROVE  sessions[x] # None /\ sessions'[x] = sessions[x]
        BY <4>1, <4>5 DEF SessionsWithout
      <4>6. sessions'[s] = new
        BY <4>1 DEF SessionsWithout
      <4> HIDE DEF new
      <4>7. PresenceConnected'
        BY <4>2 DEF Connected, PresenceConnected, InMap
      <4>8. PartiesConnected'
        BY <4>2, <4>3, <4>4, <4>5, <4>6 DEF Connected, PartiesConnected, PresenceConnected,
            InMap, TypeOK
      <4>9. OnlyHostsEvicted'
        BY <4>2 DEF Connected, OnlyHostsEvicted
      <4> QED BY <4>7, <4>8, <4>9 DEF Connected
    <3> QED BY <3>1, <3>2
  <2>7. ASSUME NEW c \in Conn, NEW s \in Sid, NEW q \in SeqNo, AcceptSession(c, s, q)
        PROVE  Connected'
    <3>1. sessions[s] \in Session
      BY <2>7 DEF AcceptSession, LiveIn, TypeOK
    <3> QED BY <2>7, <3>1, UpdateKeepsConnected DEF AcceptSession, LiveIn, Session
  <2>8. ASSUME NEW c \in Conn, NEW s \in Sid, NEW q \in SeqNo,
               RejectSession(c, s, q) \/ EndSession(c, s, q)
        PROVE  Connected'
    BY <2>8, ClosingKeepsConnected DEF RejectSession, EndSession, CloseByRequest
  <2>9. ASSUME NEW c \in Conn, NEW s \in Sid, NEW q \in SeqNo, NEW k \in RelayKind,
               RelayMediaSignal(c, s, k, q)
        PROVE  Connected'
    <3>1. sessions[s] \in Session
      BY <2>9 DEF RelayMediaSignal, LiveIn, TypeOK
    <3> QED BY <2>9, <3>1, UpdateKeepsConnected DEF RelayMediaSignal, LiveIn, Session
  <2>10. ASSUME NEW s \in Sid, ForceDisconnect(s) PROVE Connected'
    BY <2>10, ClosingKeepsConnected DEF ForceDisconnect
  <2>11. ASSUME ReapExpired PROVE Connected'
    BY <2>11, ClosingKeepsConnected DEF ReapExpired, Reap
  <2>12. ASSUME Tick PROVE Connected'
    <3>1. ASSUME NEW s \in Sid, sessions'[s] # None
          PROVE  /\ sessions[s] # None
                 /\ sessions'[s].host = sessions[s].host
                 /\ sessions'[s].host_conn = sessions[s].host_conn
                 /\ sessions'[s].viewer_conn = sessions[s].viewer_conn
      BY <2>12, <3>1 DEF Tick, Older, TypeOK, Session
    <3> QED BY <2>12, <3>1, RequestKeepsConnected DEF Tick
  <2>13. CASE UNCHANGED vars
    BY <2>13 DEF vars, Connected, PartiesConnected, PresenceConnected, OnlyHostsEvicted, InMap
  <2> QED
    BY <2>1, <2>2, <2>3, <2>4, <2>5, <2>6, <2>7, <2>8, <2>9, <2>10, <2>11, <2>12, <2>13
    DEF Next, ConnStep, Request
<1> QED BY <1>1, <1>2, TypeCorrect, PTL DEF Spec, Connected

-----------------------------------------------------------------------------
\* A step that at most clears locks, and leaves the viewer and the progress of
\* every session it keeps, replaces no controller.
LEMMA ClearingKeepsController ==
    ASSUME TypeOK, LockMatchesSessions', NEW h \in Host,
           host_busy[h] # None, host_busy'[h] # None,
           host_busy'[h] \in {host_busy[h], None},
           sessions'[host_busy[h]] # None =>
               /\ sessions'[host_busy[h]].viewer_conn = sessions[host_busy[h]].viewer_conn
               /\ sessions[host_busy[h]].state = "active"
                      => sessions'[host_busy[h]].state = "active"
    PROVE  KeepsController(h)
  BY DEF TypeOK, LockMatchesSessions, KeepsController

\* Closing sessions is such a step.
LEMMA ClosingKeepsController ==
    ASSUME TypeOK, LockMatchesSessions', NEW S \in SUBSET Sid,
           sessions' = SessionsWithout(S), host_busy' = BusyWithout(S),
           NEW h \in Host, host_busy[h] # None, host_busy'[h] # None
    PROVE  KeepsController(h)
<1>1. host_busy[h] \in Sid /\ host_busy'[h] \in {host_busy[h], None}
  BY DEF TypeOK, BusyWithout
<1>2. sessions'[host_busy[h]] # None => sessions'[host_busy[h]] = sessions[host_busy[h]]
  BY <1>1 DEF SessionsWithout
<1> QED BY <1>1, <1>2, ClearingKeepsController

\* So is rewriting one session that keeps its viewer, and is or becomes active.
LEMMA UpdateKeepsController ==
    ASSUME TypeOK, LockMatchesSessions', NEW s \in Sid, NEW ss,
           ss.viewer_conn = sessions[s].viewer_conn, ss.state = "active",
           sessions' = [SessionsWithout(Reapable) EXCEPT ![s] = ss],
           host_busy' = BusyWithout(Reapable),
           NEW h \in Host, host_busy[h] # None, host_busy'[h] # None
    PROVE  KeepsController(h)
<1>1. host_busy[h] \in Sid /\ host_busy'[h] \in {host_busy[h], None}
  BY DEF TypeOK, BusyWithout
<1>2. CASE host_busy[h] = s
  <2>1. sessions'[s] = ss
    BY DEF SessionsWithout
  <2> QED BY <1>1, <1>2, <2>1, ClearingKeepsController
<1>3. CASE host_busy[h] # s
  <2>1. sessions'[host_busy[h]] # None => sessions'[host_busy[h]] = sessions[host_busy[h]]
    BY <1>1, <1>3 DEF SessionsWithout
  <2> QED BY <1>1, <2>1, ClearingKeepsController
<1> QED BY <1>2, <1>3

\* The controller of a host is never replaced while its session is alive
\* (ControllerNotReplaced): an intent is granted the lock only after the
\* holder was reaped, and the lock names the holder's session.
THEOREM ControllerCorrect == Spec => ControllerNotReplaced
<1>1. ASSUME TypeOK, LockMatchesSessions, LockMatchesSessions', [Next]_vars,
             NEW h \in Host,
             host_busy[h] # None, ~Expired(host_busy[h]), host_busy'[h] # None
      PROVE  KeepsController(h)
  <2> USE <1>1, ReapableType
  <2>0. host_busy[h] \in Sid /\ sessions[host_busy[h]] \in Session
    BY DEF TypeOK, LockMatchesSessions
  <2>1. ASSUME NEW c \in Conn, RegisterConn(c) \/ WriterBreaks(c) \/ BindViewer(c)
        PROVE  KeepsController(h)
    BY <2>0, <2>1, ClearingKeepsController DEF RegisterConn, WriterBreaks, BindViewer
  <2>2. ASSUME NEW c \in Conn, NEW g \in Host, BindHost(c, g) PROVE KeepsController(h)
    <3>1. \/ sessions'[host_busy[h]] = sessions[host_busy[h]]
          \/ sessions'[host_busy[h]] = [sessions[host_busy[h]] EXCEPT !.host_conn = c]
      BY <2>0, <2>2 DEF BindHost
    <3>2. /\ sessions'[host_busy[h]].viewer_conn = sessions[host_busy[h]].viewer_conn
          /\ sessions'[host_busy[h]].state = sessions[host_busy[h]].state
      BY <2>0, <3>1 DEF Session
    <3> QED BY <2>2, <3>2, ClearingKeepsController DEF BindHost
  <2>3. ASSUME NEW c \in Conn, UnregisterConn(c) PROVE KeepsController(h)
    BY <2>3, ClosingKeepsController DEF UnregisterConn
  <2>4. ASSUME NEW c \in Conn, NEW s \in Sid, NEW q \in SeqNo, NEW g \in Host,
               CreatePendingSession(c, s, g, q)
        PROVE  KeepsController(h)
    <3>1. CASE link[host_by_public_id[g]] # "open"
      BY <2>4, <3>1, ClosingKeepsController DEF CreatePendingSession
    <3>2. CASE link[host_by_public_id[g]] = "open"
      <4>1. /\ sessions' = [SessionsWithout(Reapable) EXCEPT ![s] = PendingSession(c, g, q)]
            /\ host_busy' = [BusyWithout(Reapable) EXCEPT ![g] = s]
            /\ SessionsWithout(Reapable)[s] = None
            /\ BusyWithout(Reapable)[g] = None
        BY <2>4, <3>2 DEF CreatePendingSession, CanCreate
      <4>2. host_busy[h] \notin Reapable
        BY DEF Reapable
      <4>3. BusyWithout(Reapable)[h] = host_busy[h]
        BY <2>0, <4>2 DEF BusyWithout, LockMatchesSessions
      <4>4. h # g /\ host_busy[h] # s
        BY <2>0, <4>1, <4>2, <4>3 DEF SessionsWithout
      <4>5. /\ host_busy'[h] = host_busy[h]
            /\ sessions'[host_busy[h]] = sessions[host_busy[h]]
        BY <2>0, <4>1, <4>2, <4>3, <4>4 DEF SessionsWithout, BusyWithout
      <4> QED BY <4>5, ClearingKeepsController
    <3> QED BY <3>1, <3>2
  <2>5. ASSUME NEW c \in Conn, NEW s \in Sid, NEW q \in SeqNo, AcceptSession(c, s, q)
        PROVE  KeepsController(h)
    <3>1. sessions[s] \in Session
      BY <2>5 DEF AcceptSession, LiveIn, TypeOK
    <3> QED BY <2>5, <3>1, UpdateKeepsController DEF AcceptSession, Session
  <2>6. ASSUME NEW c \in Conn, NEW s \in Sid, NEW q \in SeqNo,
               RejectSession(c, s, q) \/ EndSession(c, s, q)
        PROVE  KeepsController(h)
    BY <2>6, ClosingKeepsController DEF RejectSession, EndSession, CloseByRequest
  <2>7. ASSUME NEW c \in Conn, NEW s \in Sid, NEW q \in SeqNo, NEW k \in RelayKind,
               RelayMediaSignal(c, s, k, q)
        PROVE  KeepsController(h)
    <3>1. sessions[s] \in Session /\ sessions[s].state = "active"
      BY <2>7 DEF RelayMediaSignal, LiveIn, TypeOK
    <3> QED BY <2>7, <3>1, UpdateKeepsController DEF RelayMediaSignal, Session
  <2>8. ASSUME NEW s \in Sid, ForceDisconnect(s) PROVE KeepsController(h)
    BY <2>8, ClosingKeepsController DEF ForceDisconnect
  <2>9. ASSUME ReapExpired PROVE KeepsController(h)
    BY <2>9, ClosingKeepsController DEF ReapExpired, Reap
  <2>10. ASSUME Tick PROVE KeepsController(h)
    <3>1. /\ sessions'[host_busy[h]].viewer_conn = sessions[host_busy[h]].viewer_conn
          /\ sessions'[host_busy[h]].state = sessions[host_busy[h]].state
      BY <2>0, <2>10 DEF Tick, Older, Session
    <3> QED BY <2>10, <3>1, ClearingKeepsController DEF Tick
  <2>11. CASE UNCHANGED vars
    BY <2>0, <2>11, ClearingKeepsController DEF vars
  <2> QED
    BY <2>1, <2>2, <2>3, <2>4, <2>5, <2>6, <2>7, <2>8, <2>9, <2>10, <2>11
    DEF Next, ConnStep, Request
<1>2. TypeOK /\ LockMatchesSessions /\ LockMatchesSessions' /\ [Next]_vars =>
         [\A h \in Host :
             host_busy[h] # None /\ ~Expired(host_busy[h]) /\ host_busy'[h] # None =>
                 KeepsController(h)]_vars
  BY <1>1
<1> QED BY <1>2, TypeCorrect, LockCorrect, PTL DEF Spec, ControllerNotReplaced

-----------------------------------------------------------------------------
\* What connection c has heard about session s of a table is older than what
\* that session accepts next.
Past(hd, ses, c, s) ==
    ses[s] # None /\ hd[c][s] # None =>
        \/ hd[c][s].seq < ses[s].next_signal_seq
        \/ ses[s].next_signal_seq = MaxSeq

\* Closing sessions tells only the parties of those closed, so nothing newly
\* heard concerns a session that is left.
LEMMA ClosingKeepsPast ==
    ASSUME HeardIsPast, NEW S \in SUBSET Sid, NEW lk, NEW c \in Conn, NEW s \in Sid
    PROVE  Past(HeardEnd(S, lk), SessionsWithout(S), c, s)
  BY DEF HeardIsPast, Past, HeardEnd, SessionsWithout

\* A message with a number the session accepts, and the counter advanced past
\* it: everything heard of that session is older than the new counter.
LEMMA AdvanceKeepsPast ==
    ASSUME TypeOK, HeardIsPast, NEW s \in Sid, sessions[s] # None, NEW q \in SeqNo,
           q >= sessions[s].next_signal_seq, NEW to \in Conn, NEW m \in Message,
           m.seq = q, NEW ss \in Session, ss.next_signal_seq = SaturatingAdd1(q),
           sessions' = [SessionsWithout(Reapable) EXCEPT ![s] = ss],
           heard' = Deliver(HeardEnd(Reapable, link), to, s, m), s \notin Reapable
    PROVE  HeardIsPast'
<1> SUFFICES ASSUME NEW c \in Conn, NEW x \in Sid PROVE Past(heard', sessions', c, x)
  BY DEF HeardIsPast, Past
<1> DEFINE hd == HeardEnd(Reapable, link)
<1>1. hd \in [Conn -> [Sid -> Message \cup {None}]]
  BY HeardEndType, ReapableType
<1>2. Past(hd, SessionsWithout(Reapable), c, x)
  BY ClosingKeepsPast, ReapableType
<1>3. hd[c][s] = heard[c][s]
  BY DEF HeardEnd
<1> HIDE DEF hd
<1>4. CASE x # s
  <2>1. sessions'[x] = SessionsWithout(Reapable)[x]
    BY <1>4 DEF SessionsWithout
  <2>2. heard'[c][x] = hd[c][x]
    BY <1>1, <1>4 DEF Deliver, hd
  <2> QED BY <1>2, <2>1, <2>2 DEF Past
<1>5. CASE x = s
  <2>1. sessions'[s] = ss
    BY DEF SessionsWithout
  <2>2. heard'[c][s] = m \/ heard'[c][s] = heard[c][s]
    BY <1>1, <1>3 DEF Deliver, hd
  <2>3. CASE heard'[c][s] = m
    BY <1>5, <2>1, <2>3, SaturatingAdd1Type DEF Past
  <2>4. CASE heard'[c][s] = heard[c][s] /\ heard[c][s] # None
    <3>1. heard[c][s].seq \in SeqNo /\ sessions[s].next_signal_seq \in SeqNo
      BY <2>4 DEF TypeOK, Message, Session
    <3>2. \/ heard[c][s].seq < sessions[s].next_signal_seq
          \/ sessions[s].next_signal_seq = MaxSeq
      BY <2>4 DEF HeardIsPast
    <3>3. heard[c][s].seq < SaturatingAdd1(q) \/ SaturatingAdd1(q) = MaxSeq
      BY <3>1, <3>2 DEF SeqNo, SaturatingAdd1
    <3> QED BY <1>5, <2>1, <2>4, <3>3 DEF Past
  <2> QED BY <1>5, <2>2, <2>3, <2>4 DEF Past
<1> QED BY <1>4, <1>5

\* Everything a peer has heard about a session is older than what the session
\* accepts next (HeardIsPast): the server's own notices are numbered from the
\* counter, a reused id starts with a clean slate.
THEOREM HeardCorrect == Spec => []HeardIsPast
<1>1. Init => HeardIsPast
  BY DEF Init, HeardIsPast
<1>2. TypeOK /\ HeardIsPast /\ [Next]_vars => HeardIsPast'
  <2> SUFFICES ASSUME TypeOK, HeardIsPast, [Next]_vars PROVE HeardIsPast'
    OBVIOUS
  <2> USE ReapableType
  <2>1. ASSUME NEW c \in Conn, RegisterConn(c) \/ WriterBreaks(c) \/ BindViewer(c)
        PROVE  HeardIsPast'
    BY <2>1 DEF HeardIsPast, RegisterConn, WriterBreaks, BindViewer
  <2>2. ASSUME NEW c \in Conn, NEW h \in Host, BindHost(c, h) PROVE HeardIsPast'
    <3>1. ASSUME NEW s \in Sid, sessions'[s] # None
          PROVE  /\ sessions[s] # None
                 /\ sessions'[s].next_signal_seq = sessions[s].next_signal_seq
      BY <2>2, <3>1 DEF BindHost, TypeOK, Session
    <3> QED BY <2>2, <3>1 DEF BindHost, HeardIsPast
  <2>3. ASSUME NEW S \in SUBSET Sid, NEW lk,
               sessions' = SessionsWithout(S), heard' = HeardEnd(S, lk)
        PROVE  HeardIsPast'
    BY <2>3, ClosingKeepsPast DEF HeardIsPast, Past
  <2>4. ASSUME NEW c \in Conn, UnregisterConn(c) PROVE HeardIsPast'
    BY <2>3, <2>4 DEF UnregisterConn
  <2>5. ASSUME NEW c \in Conn, NEW s \in Sid, NEW q \in SeqNo, NEW h \in Host,
               CreatePendingSession(c, s, h, q)
        PROVE  HeardIsPast'
    <3>1. CASE link[host_by_public_id[h]] # "open"
      BY <2>3, <2>5, <3>1 DEF CreatePendingSession
    <3>2. CASE link[host_by_public_id[h]] = "open"
      <4> DEFINE hd == HeardEnd(Reapable, link)
                 told == [x \in Conn |-> [hd[x] EXCEPT ![s] = None]]
                 m == Msg("incoming", q + 1)
                 new == PendingSession(c, h, q)
      <4>1. /\ sessions' = [SessionsWithout(Reapable) EXCEPT ![s] = new]
            /\ heard' = [told EXCEPT ![host_by_public_id[h]][s] = m]
            /\ host_by_public_id[h] \in Conn
        BY <2>5, <3>2 DEF CreatePendingSession, CanCreate, Deliver, TypeOK
      <4>2. hd \in [Conn -> [Sid -> Message \cup {None}]]
        BY HeardEndType
      <4>3. m.seq < new.next_signal_seq
        BY DEF Msg, PendingSession, SeqNo
      <4>4. ASSUME NEW x \in Conn, NEW y \in Sid PROVE Past(hd, SessionsWithout(Reapable), x, y)
        BY ClosingKeepsPast
      <4> HIDE DEF hd, m, new
      <4>5. ASSUME NEW x \in Conn, NEW y \in Sid PROVE Past(heard', sessions', x, y)
        <5>1. CASE y = s
          <6>1. sessions'[y] = new
            BY <4>1, <5>1 DEF SessionsWithout
          <6>2. heard'[x][y] \in {None, m}
            BY <4>1, <4>2, <5>1
          <6> QED BY <4>3, <6>1, <6>2 DEF Past
        <5>2. CASE y # s
          <6>1. sessions'[y] = SessionsWithout(Reapable)[y]
            BY <4>1, <5>2 DEF SessionsWithout
          <6>2. heard'[x][y] = hd[x][y]
            BY <4>1, <4>2, <5>2
          <6> QED BY <4>4, <6>1, <6>2 DEF Past
        <5> QED BY <5>1, <5>2
      <4> QED BY <4>5 DEF HeardIsPast, Past
    <3> QED BY <3>1, <3>2
  <2>6. ASSUME NEW c \in Conn, NEW s \in Sid, NEW q \in SeqNo, AcceptSession(c, s, q)
        PROVE  HeardIsPast'
    <3> DEFINE ss == [sessions[s] EXCEPT !.state = "active", !.ttl = ActiveTtl,
                                         !.next_signal_seq = SaturatingAdd1(q)]
    <3>1. sessions[s] \in Session /\ s \notin Reapable /\ sessions[s] # None
      BY <2>6 DEF AcceptSession, LiveIn, TypeOK, Reapable
    <3>2. ss \in Session /\ ss.next_signal_seq = SaturatingAdd1(q)
      BY <3>1, SaturatingAdd1Type DEF Session, SessionState
    <3>3. /\ Msg("accept", q) \in Message /\ Msg("accept", q).seq = q
          /\ sessions[s].viewer_conn \in Conn
      BY <3>1 DEF Msg, Message, Session
    <3> QED BY <2>6, <3>1, <3>2, <3>3, AdvanceKeepsPast DEF AcceptSession
  <2>7. ASSUME NEW c \in Conn, NEW s \in Sid, NEW q \in SeqNo,
               RejectSession(c, s, q) \/ EndSession(c, s, q)
        PROVE  HeardIsPast'
    <3> DEFINE hd == HeardEnd(Reapable, link)
    <3>1. PICK k \in {"reject", "end"} : CloseByRequest(c, s, k, q)
      BY <2>7 DEF RejectSession, EndSession
    <3>2. hd \in [Conn -> [Sid -> Message \cup {None}]]
      BY HeardEndType
    <3>3. sessions' = SessionsWithout(Reapable \cup {s})
      BY <3>1 DEF CloseByRequest
    <3>4. ASSUME NEW x \in Conn, NEW y \in Sid, y # s PROVE heard'[x][y] = hd[x][y]
      <4>1. heard' = Deliver([hd EXCEPT ![c][s] = Msg(k, q)],
                             PeerOf(c, sessions[s]), s, Msg(k, q))
        BY <3>1 DEF CloseByRequest
      <4> HIDE DEF hd
      <4> QED BY <3>2, <3>4, <4>1 DEF Deliver
    <3>5. ASSUME NEW x \in Conn, NEW y \in Sid PROVE Past(hd, SessionsWithout(Reapable), x, y)
      BY ClosingKeepsPast
    <3> HIDE DEF hd
    <3> QED BY <3>3, <3>4, <3>5 DEF HeardIsPast, Past, SessionsWithout
  <2>8. ASSUME NEW c \in Conn, NEW s \in Sid, NEW q \in SeqNo, NEW k \in RelayKind,
               RelayMediaSignal(c, s, k, q)
        PROVE  HeardIsPast'
    <3> DEFINE ss == [sessions[s] EXCEPT !.next_signal_seq = SaturatingAdd1(q)]
    <3>1. sessions[s] \in Session /\ s \notin Reapable /\ sessions[s] # None
      BY <2>8 DEF RelayMediaSignal, LiveIn, TypeOK, Reapable
    <3>2. ss \in Session /\ ss.next_signal_seq = SaturatingAdd1(q)
      BY <3>1, SaturatingAdd1Type DEF Session
    <3>3. /\ Msg(k, q) \in Message /\ Msg(k, q).seq = q
          /\ PeerOf(c, sessions[s]) \in Conn
      BY <3>1 DEF Msg, Message, Session, PeerOf
    <3> QED BY <2>8, <3>1, <3>2, <3>3, AdvanceKeepsPast DEF RelayMediaSignal
  <2>9. ASSUME NEW s \in Sid, ForceDisconnect(s) PROVE HeardIsPast'
    BY <2>3, <2>9 DEF ForceDisconnect
  <2>10. ASSUME ReapExpired PROVE HeardIsPast'
    BY <2>3, <2>10 DEF ReapExpired, Reap
  <2>11. ASSUME Tick PROVE HeardIsPast'
    <3>1. ASSUME NEW s \in Sid, sessions'[s] # None
          PROVE  /\ sessions[s] # None
                 /\ sessions'[s].next_signal_seq = sessions[s].next_signal_seq
      BY <2>11, <3>1 DEF Tick, Older, TypeOK, Session
    <3> QED BY <2>11, <3>1 DEF Tick, HeardIsPast
  <2>12. CASE UNCHANGED vars
    BY <2>12 DEF vars, HeardIsPast
  <2> QED
    BY <2>1, <2>2, <2>4, <2>5, <2>6, <2>7, <2>8, <2>9, <2>10, <2>11, <2>12
    DEF Next, ConnStep, Request
<1> QED BY <1>1, <1>2, TypeCorrect, PTL DEF Spec

-----------------------------------------------------------------------------
\* What c newly hears about s is numbered no lower than what s accepts.
Numbered(c, s) ==
    NewlyHeard(c, s) =>
        sessions[s] # None /\ heard'[c][s].seq >= sessions[s].next_signal_seq

\* The notices of a closing are numbered from the session's counter.
LEMMA EndIsNumbered ==
    ASSUME TypeOK, NEW S \in SUBSET Sid, NEW lk, NEW c \in Conn, NEW s \in Sid
    PROVE  \/ HeardEnd(S, lk)[c][s] = heard[c][s]
           \/ /\ sessions[s] # None
              /\ HeardEnd(S, lk)[c][s].seq >= sessions[s].next_signal_seq
<1>1. CASE s \in S /\ sessions[s] # None /\ Party(c, sessions[s]) /\ lk[c] = "open"
  <2>1. HeardEnd(S, lk)[c][s].seq = sessions[s].next_signal_seq
    BY <1>1 DEF HeardEnd, Msg
  <2>2. sessions[s].next_signal_seq \in Nat
    BY <1>1 DEF TypeOK, Session, SeqNo
  <2> QED BY <1>1, <2>1, <2>2
<1>2. CASE ~(s \in S /\ sessions[s] # None /\ Party(c, sessions[s]) /\ lk[c] = "open")
  BY <1>2 DEF HeardEnd
<1> QED BY <1>1, <1>2

\* A message numbered like that is newer than everything heard before, unless
\* the counter has reached u64::MAX.
LEMMA NumberedIsNewer ==
    ASSUME TypeOK, TypeOK', HeardIsPast, NEW c \in Conn, NEW s \in Sid,
           NewlyHeard(c, s), Numbered(c, s)
    PROVE  heard'[c][s].seq > heard[c][s].seq \/ heard[c][s].seq = MaxSeq
<1>1. /\ heard[c][s].seq \in SeqNo /\ heard'[c][s].seq \in SeqNo
      /\ sessions[s].next_signal_seq \in SeqNo
  BY DEF TypeOK, NewlyHeard, Numbered, Message, Session
<1>2. \/ heard[c][s].seq < sessions[s].next_signal_seq
      \/ sessions[s].next_signal_seq = MaxSeq
  BY DEF HeardIsPast, NewlyHeard, Numbered
<1> QED BY <1>1, <1>2 DEF Numbered, SeqNo

\* Signals of one session reach a connection in increasing signal_seq order
\* until u64::MAX (SignalSeqIncreasesBelowMax), peers and server sharing one
\* counter (accept, reject, end, relay, close_session_locked).
THEOREM SeqCorrect == Spec => SignalSeqIncreasesBelowMax
<1>1. ASSUME TypeOK, TypeOK', HeardIsPast, [Next]_vars, NEW x \in Conn, NEW y \in Sid
      PROVE  Numbered(x, y)
  <2> USE <1>1, ReapableType
  <2> DEFINE hd == HeardEnd(Reapable, link)
  <2>0. /\ hd \in [Conn -> [Sid -> Message \cup {None}]]
        /\ \/ hd[x][y] = heard[x][y]
           \/ sessions[y] # None /\ hd[x][y].seq >= sessions[y].next_signal_seq
    BY HeardEndType, EndIsNumbered
  <2> HIDE DEF hd
  <2>1. ASSUME heard' = heard PROVE Numbered(x, y)
    BY <2>1 DEF Numbered, NewlyHeard
  <2>2. ASSUME NEW S \in SUBSET Sid, NEW lk, heard' = HeardEnd(S, lk)
        PROVE  Numbered(x, y)
    BY <2>2, EndIsNumbered DEF Numbered, NewlyHeard
  <2>3. ASSUME NEW c \in Conn, NEW s \in Sid, NEW q \in SeqNo, NEW h \in Host,
               CreatePendingSession(c, s, h, q)
        PROVE  Numbered(x, y)
    <3>1. CASE link[host_by_public_id[h]] # "open"
      BY <2>2, <2>3, <3>1 DEF CreatePendingSession
    <3>2. CASE link[host_by_public_id[h]] = "open"
      <4> DEFINE told == [z \in Conn |-> [hd[z] EXCEPT ![s] = None]]
      <4>1. /\ heard' = [told EXCEPT ![host_by_public_id[h]][s] = Msg("incoming", q + 1)]
            /\ host_by_public_id[h] \in Conn
        BY <2>3, <3>2 DEF CreatePendingSession, CanCreate, Deliver, TypeOK, hd
      <4>2. CASE y # s
        <5>1. heard'[x][y] = hd[x][y]
          BY <2>0, <4>1, <4>2
        <5> QED BY <2>0, <5>1 DEF Numbered, NewlyHeard
      <4>3. CASE y = s
        <5>1. heard'[x][y] \in {None, Msg("incoming", q + 1)}
          BY <2>0, <4>1, <4>3
        <5> QED BY <5>1 DEF Numbered, NewlyHeard, Msg
      <4> QED BY <4>2, <4>3
    <3> QED BY <3>1, <3>2
  <2>4. ASSUME NEW s \in Sid, NEW q \in SeqNo, sessions[s] # None,
               q >= sessions[s].next_signal_seq, NEW to \in Conn, NEW m \in Message,
               m.seq = q, NEW old \in [Conn -> [Sid -> Message \cup {None}]],
               old[x][y] = hd[x][y] \/ (y = s /\ old[x][y] = m),
               heard' = Deliver(old, to, s, m)
        PROVE  Numbered(x, y)
    <3>1. heard'[x][y] = old[x][y] \/ (y = s /\ heard'[x][y] = m)
      BY <2>4 DEF Deliver
    <3> QED BY <2>0, <2>4, <3>1 DEF Numbered, NewlyHeard
  <2>5. ASSUME NEW c \in Conn, NEW s \in Sid, NEW q \in SeqNo, AcceptSession(c, s, q)
        PROVE  Numbered(x, y)
    <3>1. sessions[s] \in Session /\ sessions[s] # None
      BY <2>5 DEF AcceptSession, LiveIn, TypeOK
    <3>2. /\ Msg("accept", q) \in Message /\ Msg("accept", q).seq = q
          /\ sessions[s].viewer_conn \in Conn
      BY <3>1 DEF Msg, Message, Session
    <3>3. /\ q >= sessions[s].next_signal_seq
          /\ heard' = Deliver(hd, sessions[s].viewer_conn, s, Msg("accept", q))
      BY <2>5 DEF AcceptSession, hd
    <3> QED BY <2>0, <2>4, <3>1, <3>2, <3>3
  <2>6. ASSUME NEW c \in Conn, NEW s \in Sid, NEW q \in SeqNo,
               RejectSession(c, s, q) \/ EndSession(c, s, q)
        PROVE  Numbered(x, y)
    <3>1. PICK k \in {"reject", "end"} : CloseByRequest(c, s, k, q)
      BY <2>6 DEF RejectSession, EndSession
    <3> DEFINE told == [hd EXCEPT ![c][s] = Msg(k, q)]
    <3>2. /\ sessions[s] \in Session /\ sessions[s] # None
          /\ q >= sessions[s].next_signal_seq
      BY <2>6 DEF RejectSession, EndSession, LiveIn, TypeOK
    <3>3. /\ Msg(k, q) \in Message /\ Msg(k, q).seq = q
          /\ PeerOf(c, sessions[s]) \in Conn
      BY <3>2 DEF Msg, Message, Session, PeerOf
    <3>4. /\ told \in [Conn -> [Sid -> Message \cup {None}]]
          /\ told[x][y] = hd[x][y] \/ (y = s /\ told[x][y] = Msg(k, q))
      BY <2>0, <3>3
    <3>5. heard' = Deliver(told, PeerOf(c, sessions[s]), s, Msg(k, q))
      BY <3>1 DEF CloseByRequest, hd
    <3> HIDE DEF told
    <3> QED BY <2>4, <3>2, <3>3, <3>4, <3>5
  <2>7. ASSUME NEW c \in Conn, NEW s \in Sid, NEW q \in SeqNo, NEW k \in RelayKind,
               RelayMediaSignal(c, s, k, q)
        PROVE  Numbered(x, y)
    <3>1. sessions[s] \in Session /\ sessions[s] # None
      BY <2>7 DEF RelayMediaSignal, LiveIn, TypeOK
    <3>2. /\ Msg(k, q) \in Message /\ Msg(k, q).seq = q
          /\ PeerOf(c, sessions[s]) \in Conn
      BY <3>1 DEF Msg, Message, Session, PeerOf
    <3>3. /\ q >= sessions[s].next_signal_seq
          /\ heard' = Deliver(hd, PeerOf(c, sessions[s]), s, Msg(k, q))
      BY <2>7 DEF RelayMediaSignal, hd
    <3> QED BY <2>0, <2>4, <3>1, <3>2, <3>3
  <2>8. ASSUME NEW c \in Conn, ConnStep(c) PROVE Numbered(x, y)
    BY <2>1, <2>2, <2>8 DEF ConnStep, RegisterConn, WriterBreaks, BindViewer, BindHost,
        UnregisterConn
  <2>9. ASSUME (\E s \in Sid : ForceDisconnect(s)) \/ ReapExpired \/ Tick
        PROVE  Numbered(x, y)
    BY <2>1, <2>2, <2>9 DEF ForceDisconnect, ReapExpired, Reap, Tick
  <2>10. CASE UNCHANGED vars
    BY <2>1, <2>10 DEF vars
  <2> QED BY <2>3, <2>5, <2>6, <2>7, <2>8, <2>9, <2>10 DEF Next, Request
<1>2. TypeOK /\ TypeOK' /\ HeardIsPast /\ [Next]_vars =>
         [\A c \in Conn, s \in Sid : NewlyHeard(c, s) =>
             heard'[c][s].seq > heard[c][s].seq \/ heard[c][s].seq = MaxSeq]_vars
  BY <1>1, NumberedIsNewer
<1> QED BY <1>2, TypeCorrect, HeardCorrect, PTL DEF Spec, SignalSeqIncreasesBelowMax

-----------------------------------------------------------------------------
\* What connection c last heard about session s, if it can still be written
\* to, is true of a table of sessions.
Believable(lk, hd, ses, c, s) ==
    lk[c] = "open" /\ hd[c][s] # None =>
        LET k == hd[c][s].kind IN
        /\ k = "incoming" => ses[s] # None /\ ses[s].host_conn = c
        /\ k = "accept" => /\ ses[s] # None /\ ses[s].viewer_conn = c
                           /\ ses[s].state = "active"
        /\ k \in RelayKind => /\ ses[s] # None /\ Party(c, ses[s])
                              /\ ses[s].state = "active"

\* A connection that has not been registered has heard nothing.
FreshHeardNothing ==
    \A c \in Conn, s \in Sid : link[c] = "fresh" => heard[c][s] = None

\* The strengthening of BeliefsHold that is inductive.
BeliefInv == BeliefsHold /\ FreshHeardNothing

\* Closing sessions tells everybody who could believe in them.
LEMMA ClosingKeepsBeliefs ==
    ASSUME TypeOK, BeliefsHold, NEW S \in SUBSET Sid, NEW lk,
           \A x \in Conn : lk[x] = "open" => link[x] = "open",
           NEW c \in Conn, NEW s \in Sid
    PROVE  Believable(lk, HeardEnd(S, lk), SessionsWithout(S), c, s)
<1> SUFFICES ASSUME lk[c] = "open"
             PROVE  Believable(lk, HeardEnd(S, lk), SessionsWithout(S), c, s)
  BY DEF Believable
<1>1. link[c] = "open"
  OBVIOUS
<1>2. CASE s \in S /\ sessions[s] # None /\ Party(c, sessions[s])
  <2>1. HeardEnd(S, lk)[c][s].kind = "end"
    BY <1>2 DEF HeardEnd, Msg
  <2> QED BY <2>1 DEF Believable, RelayKind
<1>3. CASE ~(s \in S /\ sessions[s] # None /\ Party(c, sessions[s]))
  <2>1. HeardEnd(S, lk)[c][s] = heard[c][s]
    BY <1>3 DEF HeardEnd
  <2>2. SessionsWithout(S)[s] = IF s \in S THEN None ELSE sessions[s]
    BY DEF SessionsWithout
  <2>3. Believable(lk, heard, sessions, c, s)
    BY <1>1 DEF BeliefsHold, Believable
  <2> QED BY <1>3, <2>1, <2>2, <2>3 DEF Believable, Party
<1> QED BY <1>2, <1>3

\* A connection not yet registered is told nothing by a closing.
LEMMA ClosingKeepsFresh ==
    ASSUME FreshHeardNothing, NEW S \in SUBSET Sid, NEW c \in Conn, NEW s \in Sid,
           link[c] = "fresh", NEW lk, lk[c] = "fresh"
    PROVE  HeardEnd(S, lk)[c][s] = None
  BY DEF FreshHeardNothing, HeardEnd

\* A request that closes a set of sessions and touches no other.
LEMMA ClosingStepKeepsBeliefs ==
    ASSUME TypeOK, BeliefInv, NEW S \in SUBSET Sid,
           sessions' = SessionsWithout(S), heard' = HeardEnd(S, link), link' = link
    PROVE  BeliefInv'
<1>1. ASSUME NEW c \in Conn, NEW s \in Sid PROVE Believable(link', heard', sessions', c, s)
  BY <1>1, ClosingKeepsBeliefs DEF BeliefInv
<1>2. ASSUME NEW c \in Conn, NEW s \in Sid, link'[c] = "fresh" PROVE heard'[c][s] = None
  BY <1>2, ClosingKeepsFresh DEF BeliefInv
<1> QED BY <1>1, <1>2 DEF BeliefInv, BeliefsHold, Believable, FreshHeardNothing

\* A request that rewrites one session, after reaping, and tells one
\* connection something that is true of it: accept and relay.
LEMMA TellingKeepsBeliefs ==
    ASSUME TypeOK, BeliefInv, link' = link, NEW s \in Sid, s \notin Reapable,
           sessions[s] # None, NEW ss \in Session,
           ss.host_conn = sessions[s].host_conn, ss.viewer_conn = sessions[s].viewer_conn,
           ss.state = "active",
           sessions' = [SessionsWithout(Reapable) EXCEPT ![s] = ss],
           NEW to \in Conn, NEW m \in Message,
           \/ m.kind = "accept" /\ to = ss.viewer_conn
           \/ m.kind \in RelayKind /\ Party(to, ss),
           heard' = Deliver(HeardEnd(Reapable, link), to, s, m)
    PROVE  BeliefInv'
<1> DEFINE hd == HeardEnd(Reapable, link)
<1>1. hd \in [Conn -> [Sid -> Message \cup {None}]]
  BY HeardEndType, ReapableType
<1>2. \A c \in Conn, x \in Sid : Believable(link, hd, SessionsWithout(Reapable), c, x)
  BY ClosingKeepsBeliefs, ReapableType DEF BeliefInv
<1>3. \A c \in Conn, x \in Sid : link[c] = "fresh" => hd[c][x] = None
  BY ClosingKeepsFresh, ReapableType DEF BeliefInv
<1>4. \A c \in Conn : hd[c][s] = heard[c][s]
  BY DEF HeardEnd
<1>5. sessions'[s] = ss
  BY DEF SessionsWithout
<1>6. \A x \in Sid : x # s => sessions'[x] = SessionsWithout(Reapable)[x]
  BY DEF SessionsWithout
<1>7. SessionsWithout(Reapable)[s] = sessions[s] /\ ss # None
  BY DEF SessionsWithout
<1> HIDE DEF hd
<1>8. \A c \in Conn, x \in Sid :
         heard'[c][x] = hd[c][x] \/ (c = to /\ x = s /\ link[c] = "open" /\ heard'[c][x] = m)
  BY <1>1 DEF Deliver, hd
<1>9. ASSUME NEW c \in Conn, NEW x \in Sid PROVE Believable(link', heard', sessions', c, x)
  <2>1. CASE x # s
    <3>1. heard'[c][x] = hd[c][x]
      BY <1>8, <2>1
    <3> QED BY <1>2, <1>6, <2>1, <3>1 DEF Believable
  <2>2. CASE x = s /\ heard'[c][x] = hd[c][x]
    <3>1. Believable(link, hd, SessionsWithout(Reapable), c, s)
      BY <1>2
    <3> QED BY <1>5, <1>7, <2>2, <3>1 DEF Believable, Party
  <2>3. CASE c = to /\ x = s /\ heard'[c][x] = m
    BY <1>5, <1>7, <2>3 DEF Believable, RelayKind
  <2> QED BY <1>8, <2>1, <2>2, <2>3
<1>10. FreshHeardNothing'
  BY <1>3, <1>8 DEF FreshHeardNothing
<1> QED BY <1>9, <1>10 DEF BeliefInv, BeliefsHold, Believable

\* Nobody who can still be written to is left believing in a session the
\* server does not have (BeliefsHold), whichever socket of a host or viewer
\* goes away and however sessions end (close_session_locked, bind_peer).
THEOREM BeliefsCorrect == Spec => []BeliefsHold
<1>1. Init => BeliefInv
  BY DEF Init, BeliefInv, BeliefsHold, FreshHeardNothing
<1>2. TypeOK /\ PartiesConnected /\ BeliefInv /\ [Next]_vars => BeliefInv'
  <2> SUFFICES ASSUME TypeOK, PartiesConnected, BeliefInv, [Next]_vars PROVE BeliefInv'
    OBVIOUS
  <2> USE ReapableType DEF UNCHANGED_links
  <2>1. ASSUME NEW c \in Conn, RegisterConn(c) PROVE BeliefInv'
    <3>1. \A x \in Conn : \/ x = c /\ link[x] = "fresh"
                          \/ link'[x] = link[x]
      BY <2>1 DEF RegisterConn, TypeOK
    <3>2. \A x \in Conn : link'[x] = "fresh" => link[x] = "fresh"
      BY <2>1 DEF RegisterConn, TypeOK
    <3>3. heard' = heard /\ sessions' = sessions
      BY <2>1 DEF RegisterConn
    <3> QED BY <3>1, <3>2, <3>3 DEF BeliefInv, BeliefsHold, FreshHeardNothing
  <2>2. ASSUME NEW c \in Conn, WriterBreaks(c) \/ BindViewer(c) PROVE BeliefInv'
    <3>1. \A x \in Conn : /\ link'[x] = "open" => link[x] = "open"
                          /\ link'[x] = "fresh" => link[x] = "fresh"
      BY <2>2 DEF WriterBreaks, BindViewer, TypeOK
    <3>2. heard' = heard /\ sessions' = sessions
      BY <2>2 DEF WriterBreaks, BindViewer
    <3> QED BY <3>1, <3>2 DEF BeliefInv, BeliefsHold, FreshHeardNothing
  <2>3. ASSUME NEW c \in Conn, NEW h \in Host, BindHost(c, h) PROVE BeliefInv'
    <3> DEFINE old == host_by_public_id[h]
    <3>1. \A x \in Conn : /\ link'[x] = "open" => link[x] = "open" /\ x # old
                          /\ link'[x] = "fresh" => link[x] = "fresh"
      BY <2>3 DEF BindHost, TypeOK
    <3>2. heard' = heard
      BY <2>3 DEF BindHost
    <3>3. ASSUME NEW s \in Sid, sessions[s] # None
          PROVE  /\ sessions'[s] # None
                 /\ sessions'[s].viewer_conn = sessions[s].viewer_conn
                 /\ sessions'[s].state = sessions[s].state
                 /\ sessions[s].host_conn # old => sessions'[s].host_conn = sessions[s].host_conn
      <4>1. sessions[s] \in Session
        BY <3>3 DEF TypeOK
      <4>2. CASE sessions'[s] = sessions[s]
        BY <3>3, <4>2
      <4>3. CASE sessions[s].host_conn = old /\ sessions'[s] = [sessions[s] EXCEPT !.host_conn = c]
        <5>1. sessions'[s] \in Session
          BY <4>1, <4>3 DEF Session
        <5> QED BY <4>1, <4>3, <5>1 DEF Session
      <4> QED BY <2>3, <3>3, <4>2, <4>3 DEF BindHost
    <3>4. ASSUME NEW x \in Conn, NEW s \in Sid PROVE Believable(link', heard', sessions', x, s)
      <4>1. CASE link'[x] # "open" \/ heard[x][s] = None
        BY <3>2, <4>1 DEF Believable
      <4>2. CASE link'[x] = "open" /\ heard[x][s] # None
        <5>1. Believable(link, heard, sessions, x, s) /\ link[x] = "open" /\ x # old
          BY <3>1, <4>2 DEF BeliefInv, BeliefsHold, Believable
        <5> HIDE DEF old
        <5> QED BY <3>2, <3>3, <4>2, <5>1 DEF Believable, Party
      <4> QED BY <4>1, <4>2
    <3> QED BY <3>1, <3>2, <3>4 DEF BeliefInv, BeliefsHold, Believable, FreshHeardNothing
  <2>4. ASSUME NEW c \in Conn, UnregisterConn(c) PROVE BeliefInv'
    <3>1. PICK S \in SUBSET Sid : /\ sessions' = SessionsWithout(S)
                                  /\ heard' = HeardEnd(S, link')
      BY <2>4 DEF UnregisterConn
    <3>2. \A x \in Conn : /\ link'[x] = "open" => link[x] = "open"
                          /\ link'[x] = "fresh" => link[x] = "fresh"
      BY <2>4 DEF UnregisterConn, TypeOK
    <3>3. ASSUME NEW x \in Conn, NEW s \in Sid PROVE Believable(link', heard', sessions', x, s)
      BY <3>1, <3>2, ClosingKeepsBeliefs DEF BeliefInv
    <3>4. ASSUME NEW x \in Conn, NEW s \in Sid, link'[x] = "fresh" PROVE heard'[x][s] = None
      BY <3>1, <3>2, <3>4, ClosingKeepsFresh DEF BeliefInv
    <3> QED BY <3>3, <3>4 DEF BeliefInv, BeliefsHold, Believable, FreshHeardNothing
  <2>5. ASSUME NEW c \in Conn, NEW s \in Sid, NEW q \in SeqNo, NEW h \in Host,
               CreatePendingSession(c, s, h, q)
        PROVE  BeliefInv'
    <3>1. CASE link[host_by_public_id[h]] # "open"
      BY <2>5, <3>1, ClosingStepKeepsBeliefs DEF CreatePendingSession
    <3>2. CASE link[host_by_public_id[h]] = "open"
      <4> DEFINE hd == HeardEnd(Reapable, link)
                 told == [x \in Conn |-> [hd[x] EXCEPT ![s] = None]]
                 m == Msg("incoming", q + 1)
                 new == PendingSession(c, h, q)
                 host == host_by_public_id[h]
      <4>1. /\ sessions' = [SessionsWithout(Reapable) EXCEPT ![s] = new]
            /\ heard' = [told EXCEPT ![host][s] = m]
            /\ host \in Conn /\ link' = link
        BY <2>5, <3>2 DEF CreatePendingSession, CanCreate, Deliver, TypeOK
      <4>2. hd \in [Conn -> [Sid -> Message \cup {None}]]
        BY HeardEndType
      <4>3. m.kind = "incoming" /\ new.host_conn = host /\ new # None
        <5>1. new \in Session
          BY <2>5 DEF CreatePendingSession, CanCreate, TypeOK, SeqNo, PendingSession,
                      Session, SessionState
        <5> QED BY <5>1 DEF Msg, PendingSession
      <4>4. \A x \in Conn, y \in Sid : Believable(link, hd, SessionsWithout(Reapable), x, y)
        BY ClosingKeepsBeliefs DEF BeliefInv
      <4>5. \A x \in Conn, y \in Sid : link[x] = "fresh" => hd[x][y] = None
        BY ClosingKeepsFresh DEF BeliefInv
      <4> HIDE DEF hd, m, new, host
      <4>6. \A x \in Conn, y \in Sid :
               \/ y # s /\ heard'[x][y] = hd[x][y]
               \/ y = s /\ heard'[x][y] = None
               \/ y = s /\ x = host /\ heard'[x][y] = m
        BY <4>1, <4>2
      <4>7. sessions'[s] = new
        BY <4>1 DEF SessionsWithout
      <4>8. \A y \in Sid : y # s => sessions'[y] = SessionsWithout(Reapable)[y]
        BY <4>1 DEF SessionsWithout
      <4>9. ASSUME NEW x \in Conn, NEW y \in Sid PROVE Believable(link', heard', sessions', x, y)
        BY <4>1, <4>3, <4>4, <4>6, <4>7, <4>8 DEF Believable, RelayKind
      <4>10. FreshHeardNothing'
        BY <3>2, <4>1, <4>5, <4>6 DEF FreshHeardNothing, host
      <4> QED BY <4>9, <4>10 DEF BeliefInv, BeliefsHold, Believable
    <3> QED BY <3>1, <3>2
  <2>6. ASSUME NEW c \in Conn, NEW s \in Sid, NEW q \in SeqNo, AcceptSession(c, s, q)
        PROVE  BeliefInv'
    <3> DEFINE ss == [sessions[s] EXCEPT !.state = "active", !.ttl = ActiveTtl,
                                         !.next_signal_seq = SaturatingAdd1(q)]
    <3>1. sessions[s] \in Session /\ s \notin Reapable /\ sessions[s] # None
      BY <2>6 DEF AcceptSession, LiveIn, TypeOK, Reapable
    <3>2. /\ ss \in Session /\ ss.state = "active"
          /\ ss.host_conn = sessions[s].host_conn /\ ss.viewer_conn = sessions[s].viewer_conn
      BY <3>1, SaturatingAdd1Type DEF Session, SessionState
    <3>3. /\ Msg("accept", q) \in Message /\ Msg("accept", q).kind = "accept"
          /\ sessions[s].viewer_conn \in Conn
      BY <3>1 DEF Msg, Message, Session
    <3> QED BY <2>6, <3>1, <3>2, <3>3, TellingKeepsBeliefs DEF AcceptSession
  <2>7. ASSUME NEW c \in Conn, NEW s \in Sid, NEW q \in SeqNo,
               RejectSession(c, s, q) \/ EndSession(c, s, q)
        PROVE  BeliefInv'
    <3> DEFINE hd == HeardEnd(Reapable, link)
               peer == PeerOf(c, sessions[s])
    <3>1. PICK k \in {"reject", "end"} : CloseByRequest(c, s, k, q)
      BY <2>7 DEF RejectSession, EndSession
    <3>2. /\ sessions[s] \in Session /\ s \notin Reapable /\ Party(c, sessions[s])
          /\ link[c] # "fresh"
      BY <2>7 DEF RejectSession, EndSession, LiveIn, TypeOK, Reapable, Party, Serving, ServingAny
    <3>3. peer \in Conn /\ \A x \in Conn : Party(x, sessions[s]) => x \in {c, peer}
      BY <3>2 DEF Session, PeerOf, Party
    <3>4. hd \in [Conn -> [Sid -> Message \cup {None}]]
      BY HeardEndType
    <3>5. sessions' = SessionsWithout(Reapable \cup {s}) /\ link' = link
      BY <3>1 DEF CloseByRequest
    <3>6. \A x \in Conn, y \in Sid : Believable(link, hd, SessionsWithout(Reapable), x, y)
      BY ClosingKeepsBeliefs DEF BeliefInv
    <3>7. \A x \in Conn, y \in Sid : link[x] = "fresh" => hd[x][y] = None
      BY ClosingKeepsFresh DEF BeliefInv
    <3>8. heard' = Deliver([hd EXCEPT ![c][s] = Msg(k, q)], peer, s, Msg(k, q))
      BY <3>1 DEF CloseByRequest
    <3> HIDE DEF hd, peer
    <3>9. \A x \in Conn, y \in Sid :
             \/ heard'[x][y] = hd[x][y]
             \/ y = s /\ heard'[x][y] = Msg(k, q) /\ (x = c \/ (x = peer /\ link[x] = "open"))
      BY <3>4, <3>8 DEF Deliver
    <3>10. \A x \in Conn : link[x] = "open" /\ x \in {c, peer} => heard'[x][s] = Msg(k, q)
      BY <3>3, <3>4, <3>8 DEF Deliver
    <3>11. ASSUME NEW x \in Conn, NEW y \in Sid PROVE Believable(link', heard', sessions', x, y)
      <4>1. CASE heard'[x][y] = Msg(k, q)
        BY <4>1 DEF Believable, Msg, RelayKind
      <4>2. CASE heard'[x][y] = hd[x][y] /\ y # s
        <5>1. sessions'[y] = SessionsWithout(Reapable)[y]
          BY <3>5, <4>2 DEF SessionsWithout
        <5> QED BY <3>5, <3>6, <4>2, <5>1 DEF Believable
      <4>3. CASE heard'[x][y] = hd[x][y] /\ y = s /\ heard'[x][y] # Msg(k, q)
        <5>1. link[x] = "open" => ~Party(x, sessions[s])
          BY <3>3, <3>10, <4>3
        <5>2. Believable(link, hd, SessionsWithout(Reapable), x, s)
          BY <3>6
        <5>3. SessionsWithout(Reapable)[s] = sessions[s]
          BY <3>2 DEF SessionsWithout
        <5> QED BY <3>5, <4>3, <5>1, <5>2, <5>3 DEF Believable, Party
      <4> QED BY <3>9, <4>1, <4>2, <4>3
    <3>12. FreshHeardNothing'
      BY <3>2, <3>5, <3>7, <3>9 DEF FreshHeardNothing
    <3> QED BY <3>11, <3>12 DEF BeliefInv, BeliefsHold, Believable
  <2>8. ASSUME NEW c \in Conn, NEW s \in Sid, NEW q \in SeqNo, NEW k \in RelayKind,
               RelayMediaSignal(c, s, k, q)
        PROVE  BeliefInv'
    <3> DEFINE ss == [sessions[s] EXCEPT !.next_signal_seq = SaturatingAdd1(q)]
    <3>1. /\ sessions[s] \in Session /\ s \notin Reapable /\ sessions[s] # None
          /\ sessions[s].state = "active"
      BY <2>8 DEF RelayMediaSignal, LiveIn, TypeOK, Reapable
    <3>2. /\ ss \in Session /\ ss.state = "active"
          /\ ss.host_conn = sessions[s].host_conn /\ ss.viewer_conn = sessions[s].viewer_conn
      BY <3>1, SaturatingAdd1Type DEF Session
    <3>3. /\ Msg(k, q) \in Message /\ Msg(k, q).kind \in RelayKind
          /\ PeerOf(c, sessions[s]) \in Conn
          /\ Party(PeerOf(c, sessions[s]), ss)
      BY <3>1, <3>2 DEF Msg, Message, Session, PeerOf, Party
    <3> HIDE DEF ss
    <3>4. /\ sessions' = [SessionsWithout(Reapable) EXCEPT ![s] = ss]
          /\ heard' = Deliver(HeardEnd(Reapable, link), PeerOf(c, sessions[s]), s, Msg(k, q))
          /\ link' = link
      BY <2>8 DEF RelayMediaSignal, ss
    <3> QED BY <3>1, <3>2, <3>3, <3>4, TellingKeepsBeliefs
  <2>9. ASSUME NEW s \in Sid, ForceDisconnect(s) PROVE BeliefInv'
    BY <2>9, ClosingStepKeepsBeliefs DEF ForceDisconnect
  <2>10. ASSUME ReapExpired PROVE BeliefInv'
    BY <2>10, ClosingStepKeepsBeliefs DEF ReapExpired, Reap
  <2>11. ASSUME Tick PROVE BeliefInv'
    <3>1. ASSUME NEW s \in Sid, sessions[s] # None
          PROVE  /\ sessions'[s] # None
                 /\ sessions'[s].host_conn = sessions[s].host_conn
                 /\ sessions'[s].viewer_conn = sessions[s].viewer_conn
                 /\ sessions'[s].state = sessions[s].state
      <4>1. sessions[s] \in Session /\ sessions'[s] = Older(s)
        BY <2>11, <3>1 DEF Tick, TypeOK
      <4>2. Older(s) \in Session
        BY <4>1 DEF Older, Session
      <4> QED BY <4>1, <4>2 DEF Older, Session
    <3>2. heard' = heard /\ link' = link
      BY <2>11 DEF Tick
    <3> QED BY <3>1, <3>2 DEF BeliefInv, BeliefsHold, FreshHeardNothing, Party
  <2>12. CASE UNCHANGED vars
    BY <2>12 DEF vars, BeliefInv, BeliefsHold, FreshHeardNothing, Party
  <2> QED
    BY <2>1, <2>2, <2>3, <2>4, <2>5, <2>6, <2>7, <2>8, <2>9, <2>10, <2>11, <2>12
    DEF Next, ConnStep, Request
<1>3. BeliefInv => BeliefsHold
  BY DEF BeliefInv
<1> QED BY <1>1, <1>2, <1>3, TypeCorrect, ConnectedCorrect, PTL DEF Spec

-----------------------------------------------------------------------------
\* The refinement mapping: the leases of all hosts.
Leases == [h \in Host |-> LeaseOf(h)]

\* The lease read off a lock and a session table.
LeaseIn(busy, ses, h) ==
    IF busy[h] = None THEN None
    ELSE [sid |-> busy[h], viewer |-> ses[busy[h]].viewer_conn,
          phase |-> ses[busy[h]].state, ttl |-> ses[busy[h]].ttl]

\* A host that is locked has the lease of the session that names it.
LEMMA LeaseOfLock ==
    ASSUME TypeOK, LockMatchesSessions, NEW h \in Host
    PROVE  /\ Leases[h] = LeaseIn(host_busy, sessions, h)
           /\ host_busy[h] = None <=> Leases[h] = None
           /\ host_busy[h] # None =>
                 /\ host_busy[h] \in Sid /\ sessions[host_busy[h]] \in Session
                 /\ sessions[host_busy[h]] # None
                 /\ sessions[host_busy[h]].host = h
                 /\ Leases[h].sid = host_busy[h]
                 /\ Leases[h].viewer = sessions[host_busy[h]].viewer_conn
                 /\ Leases[h].phase = sessions[host_busy[h]].state
                 /\ Leases[h].ttl = sessions[host_busy[h]].ttl
<1>1. Leases[h] = LeaseIn(host_busy, sessions, h)
  BY DEF Leases, LeaseOf, LeaseIn
<1>2. CASE host_busy[h] = None
  BY <1>1, <1>2 DEF LeaseIn
<1>3. CASE host_busy[h] # None
  <2>1. host_busy[h] \in Sid /\ sessions[host_busy[h]] # None
    BY <1>3 DEF TypeOK, LockMatchesSessions
  <2>2. sessions[host_busy[h]] \in Session /\ sessions[host_busy[h]].host = h
    BY <1>3, <2>1 DEF TypeOK, LockMatchesSessions
  <2>3. Leases[h] # None
    BY <1>1, <1>3, <2>1, <2>2 DEF LeaseIn, Session
  <2> QED BY <1>1, <1>3, <2>1, <2>2, <2>3 DEF LeaseIn
<1> QED BY <1>1, <1>2, <1>3

\* What the abstract specification says of a host, in terms of the lock.
LEMMA LeaseTerms ==
    ASSUME TypeOK, LockMatchesSessions, NEW h \in Host
    PROVE  /\ Abstract!Held(h) <=> host_busy[h] # None
           /\ Abstract!Lapsed(h) <=> host_busy[h] \in Reapable
           /\ Abstract!Running[h] = IF host_busy[h] \in Reapable THEN None ELSE Leases[h]
<1>1. Abstract!Held(h) <=> Leases[h] # None
  BY DEF Abstract!Held, Leases
<1>2. Abstract!Lapsed(h) <=> Leases[h] # None /\ Leases[h].ttl = 0
  BY <1>1 DEF Abstract!Lapsed, Abstract!Held, Leases
<1>3. host_busy[h] \in Reapable <=> host_busy[h] # None /\ sessions[host_busy[h]].ttl = 0
  BY LeaseOfLock DEF Reapable, Expired
<1>4. Abstract!Running[h] = IF Abstract!Lapsed(h) THEN None ELSE Leases[h]
  BY DEF Abstract!Running, Leases
<1> QED BY <1>1, <1>2, <1>3, <1>4, LeaseOfLock

\* Closing sessions ends exactly the leases they were.
LEMMA ClosingEndsLeases ==
    ASSUME TypeOK, LockMatchesSessions, NEW S \in SUBSET Sid, NEW h \in Host
    PROVE  /\ LeaseIn(BusyWithout(S), SessionsWithout(S), h) =
                  IF host_busy[h] \in S THEN None ELSE Leases[h]
           /\ BusyWithout(S)[h] = IF host_busy[h] \in S THEN None ELSE host_busy[h]
<1>1. BusyWithout(S)[h] = IF host_busy[h] \in S THEN None ELSE host_busy[h]
  <2>1. CASE host_busy[h] \in S
    BY <2>1, LeaseOfLock DEF BusyWithout
  <2>2. CASE host_busy[h] \notin S
    BY <2>2 DEF BusyWithout, LockMatchesSessions
  <2> QED BY <2>1, <2>2
<1>2. CASE host_busy[h] \in S
  BY <1>1, <1>2 DEF LeaseIn
<1>3. CASE host_busy[h] \notin S
  <2>1. host_busy[h] # None => SessionsWithout(S)[host_busy[h]] = sessions[host_busy[h]]
    BY <1>3, LeaseOfLock DEF SessionsWithout
  <2> QED BY <1>1, <1>3, <2>1, LeaseOfLock DEF LeaseIn
<1> QED BY <1>1, <1>2, <1>3

\* The leases after a step.
LEMMA LeasesNext ==
    Leases' = [h \in Host |-> LeaseIn(host_busy', sessions', h)]
  BY DEF Leases, LeaseOf, LeaseIn

\* What has expired is reaped: leases lapse.
LEMMA ReapIsLapse ==
    ASSUME TypeOK, LockMatchesSessions,
           \A h \in Host : LeaseIn(host_busy', sessions', h) =
                            LeaseIn(BusyWithout(Reapable), SessionsWithout(Reapable), h)
    PROVE  Abstract!Lapse
<1>1. Abstract!Running = [h \in Host |-> Abstract!Running[h]]
  BY DEF Abstract!Running
<1>2. \A h \in Host : LeaseIn(host_busy', sessions', h) = Abstract!Running[h]
  BY ClosingEndsLeases, LeaseTerms, ReapableType
<1>3. Leases' = Abstract!Running
  BY <1>1, <1>2, LeasesNext
<1> QED BY <1>3 DEF Abstract!Lapse, Leases

\* A request that also closes session s ends the lease of its host.
LEMMA CloseIsEnd ==
    ASSUME TypeOK, LockMatchesSessions, NEW s \in Sid, sessions[s] # None,
           sessions' = SessionsWithout(Reapable \cup {s}),
           host_busy' = BusyWithout(Reapable \cup {s})
    PROVE  \E h \in Host : Abstract!End(h)
<1> DEFINE h == sessions[s].host
<1>1. h \in Host /\ host_busy[h] = s
  BY DEF TypeOK, Session, LockMatchesSessions
<1>2. \A g \in Host : host_busy[g] = s <=> g = h
  BY DEF LockMatchesSessions
<1> HIDE DEF h
<1>3. \A g \in Host : Leases'[g] = IF g = h THEN None ELSE Abstract!Running[g]
  <2> SUFFICES ASSUME NEW g \in Host
               PROVE  Leases'[g] = IF g = h THEN None ELSE Abstract!Running[g]
    OBVIOUS
  <2>1. Leases'[g] = IF host_busy[g] \in Reapable \cup {s} THEN None ELSE Leases[g]
    BY LeasesNext, ClosingEndsLeases, ReapableType
  <2> QED BY <1>2, <2>1, LeaseTerms
<1>4. /\ Leases' = [g \in Host |-> Leases'[g]]
      /\ Abstract!Running = [g \in Host |-> Abstract!Running[g]]
  BY LeasesNext DEF Abstract!Running
<1>5. Leases' = [Abstract!Running EXCEPT ![h] = None]
  BY <1>1, <1>3, <1>4
<1>6. Abstract!End(h)
  BY <1>5 DEF Abstract!End, Leases
<1> QED BY <1>1, <1>6

\* An intent that reaches the host is granted a lease: nobody has the host, or
\* the holder's time is up.
LEMMA IntentIsGrant ==
    ASSUME TypeOK, LockMatchesSessions,
           NEW c \in Conn, NEW s \in Sid, NEW q \in SeqNo, NEW h \in Host,
           CreatePendingSession(c, s, h, q), link[host_by_public_id[h]] = "open"
    PROVE  Abstract!Grant(h, s, c)
<1> DEFINE new == PendingSession(c, h, q)
           l == [sid |-> s, viewer |-> c, phase |-> "pending", ttl |-> PendingTtl]
<1>1. /\ sessions' = [SessionsWithout(Reapable) EXCEPT ![s] = new]
      /\ host_busy' = [BusyWithout(Reapable) EXCEPT ![h] = s]
      /\ SessionsWithout(Reapable)[s] = None /\ BusyWithout(Reapable)[h] = None
  BY DEF CreatePendingSession, CanCreate
<1>2. \A g \in Host : /\ Abstract!Running[g] = IF host_busy[g] \in Reapable THEN None ELSE Leases[g]
                      /\ BusyWithout(Reapable)[g] =
                             IF host_busy[g] \in Reapable THEN None ELSE host_busy[g]
  BY LeaseTerms, ClosingEndsLeases, ReapableType
<1>3. Abstract!Running[h] = None
  BY <1>1, <1>2, LeaseOfLock
<1>4. ASSUME NEW g \in Host, Abstract!Running[g] # None
      PROVE  host_busy[g] # s /\ Abstract!Running[g].sid # s
  <2>1. host_busy[g] # None /\ host_busy[g] \notin Reapable /\ Abstract!Running[g] = Leases[g]
    BY <1>2, <1>4, LeaseOfLock
  <2>2. SessionsWithout(Reapable)[host_busy[g]] # None
    BY <2>1, LeaseOfLock DEF SessionsWithout
  <2> QED BY <1>1, <2>1, <2>2, LeaseOfLock
<1>5. s # None
  OBVIOUS
<1>6. sessions'[s] = new /\ new.viewer_conn = c /\ new.state = "pending" /\ new.ttl = PendingTtl
  BY <1>1 DEF PendingSession, SessionsWithout
<1> HIDE DEF new
<1>7. ASSUME NEW g \in Host
      PROVE  LeaseIn(host_busy', sessions', g) = IF g = h THEN l ELSE Abstract!Running[g]
  <2>1. CASE g = h
    <3>1. host_busy'[h] = s
      BY <1>1 DEF BusyWithout
    <3> QED BY <1>5, <1>6, <2>1, <3>1 DEF LeaseIn
  <2>2. CASE g # h
    <3>1. host_busy'[g] = BusyWithout(Reapable)[g]
      BY <1>1, <2>2 DEF BusyWithout
    <3>2. CASE host_busy'[g] = None
      BY <1>2, <2>2, <3>1, <3>2, LeaseOfLock DEF LeaseIn
    <3>3. CASE host_busy'[g] # None
      <4>1. host_busy'[g] = host_busy[g] /\ host_busy[g] \notin Reapable
        BY <1>2, <3>1, <3>3
      <4>2. Abstract!Running[g] = Leases[g] /\ Leases[g] # None
        BY <1>2, <3>3, <4>1, LeaseOfLock
      <4>3. sessions'[host_busy[g]] = sessions[host_busy[g]]
        BY <1>1, <1>4, <3>3, <4>1, <4>2, LeaseOfLock DEF SessionsWithout
      <4> QED BY <2>2, <3>3, <4>1, <4>2, <4>3, LeaseOfLock DEF LeaseIn
    <3> QED BY <3>2, <3>3
  <2> QED BY <2>1, <2>2
<1>8. Leases' = [Abstract!Running EXCEPT ![h] = l]
  <2>1. Abstract!Running = [g \in Host |-> Abstract!Running[g]]
    BY DEF Abstract!Running
  <2> QED BY <1>7, <2>1, LeasesNext
<1> QED BY <1>3, <1>4, <1>8 DEF Abstract!Grant, Leases

\* The host's accept activates its lease.
LEMMA AcceptIsActivate ==
    ASSUME TypeOK, LockMatchesSessions, NEW c \in Conn, NEW s \in Sid, NEW q \in SeqNo,
           AcceptSession(c, s, q)
    PROVE  \E h \in Host : Abstract!Activate(h)
<1> DEFINE h == sessions[s].host
           l == [Leases[h] EXCEPT !.phase = "active", !.ttl = ActiveTtl]
<1>1. /\ sessions[s] \in Session /\ sessions[s] # None /\ s \notin Reapable
      /\ sessions[s].state = "pending"
  BY DEF AcceptSession, LiveIn, TypeOK, Reapable
<1>2. h \in Host /\ \A g \in Host : host_busy[g] = s <=> g = h
  BY <1>1 DEF Session, LockMatchesSessions
<1>3. /\ Abstract!Held(h) /\ ~Abstract!Lapsed(h) /\ Leases[h].phase = "pending"
      /\ Leases[h] = LeaseIn(host_busy, sessions, h) /\ host_busy[h] = s
  BY <1>1, <1>2, LeaseTerms, LeaseOfLock
<1>4. /\ sessions'[s].viewer_conn = sessions[s].viewer_conn
      /\ sessions'[s].state = "active" /\ sessions'[s].ttl = ActiveTtl
      /\ \A x \in Sid : x # s => sessions'[x] = SessionsWithout(Reapable)[x]
      /\ host_busy' = BusyWithout(Reapable)
  BY <1>1 DEF AcceptSession, SessionsWithout, Session
<1>5. ASSUME NEW g \in Host
      PROVE  LeaseIn(host_busy', sessions', g) = IF g = h THEN l ELSE Abstract!Running[g]
  <2>1. CASE g = h
    <3>1. host_busy'[h] = s
      BY <1>1, <1>2, <1>3, <1>4, ClosingEndsLeases, ReapableType
    <3>2. s # None
      OBVIOUS
    <3>3. l = [sid |-> s, viewer |-> sessions[s].viewer_conn, phase |-> "active", ttl |-> ActiveTtl]
      <4>1. Leases[h] = [sid |-> s, viewer |-> sessions[s].viewer_conn,
                         phase |-> sessions[s].state, ttl |-> sessions[s].ttl]
        BY <1>3, <3>2 DEF LeaseIn
      <4> DEFINE r == [sid |-> s, viewer |-> sessions[s].viewer_conn,
                       phase |-> sessions[s].state, ttl |-> sessions[s].ttl]
      <4>2. [r EXCEPT !.phase = "active", !.ttl = ActiveTtl]
              = [sid |-> s, viewer |-> sessions[s].viewer_conn, phase |-> "active",
                 ttl |-> ActiveTtl]
        <5> DEFINE x == [r EXCEPT !.phase = "active", !.ttl = ActiveTtl]
        <5>1. r \in [sid : Sid, viewer : Conn, phase : SessionState, ttl : Nat]
          BY <1>1 DEF Session
        <5>2. x \in [sid : Sid, viewer : Conn, phase : SessionState, ttl : Nat]
          BY <5>1 DEF SessionState
        <5>3. x.sid = s /\ x.viewer = sessions[s].viewer_conn /\ x.phase = "active"
              /\ x.ttl = ActiveTtl
          BY <5>1
        <5> HIDE DEF x
        <5>4. x = [sid |-> s, viewer |-> sessions[s].viewer_conn, phase |-> "active",
                   ttl |-> ActiveTtl]
          BY <5>2, <5>3
        <5> QED BY <5>4 DEF x
      <4>3. Leases[h] = r
        BY <4>1
      <4> HIDE DEF r, h
      <4> QED BY <4>2, <4>3
    <3>4. LeaseIn(host_busy', sessions', h)
            = [sid |-> s, viewer |-> sessions[s].viewer_conn, phase |-> "active", ttl |-> ActiveTtl]
      BY <1>4, <3>1, <3>2 DEF LeaseIn
    <3> QED BY <2>1, <3>3, <3>4
  <2>2. CASE g # h
    <3>1. host_busy'[g] # s
      BY <1>2, <1>4, <2>2, ClosingEndsLeases, ReapableType
    <3>2. host_busy'[g] # None => host_busy'[g] \in Sid
      BY <1>4, ClosingTypes, ReapableType
    <3>3. LeaseIn(host_busy', sessions', g)
            = LeaseIn(BusyWithout(Reapable), SessionsWithout(Reapable), g)
      BY <1>4, <3>1, <3>2 DEF LeaseIn
    <3> QED BY <2>2, <3>3, ClosingEndsLeases, LeaseTerms, ReapableType
  <2> QED BY <2>1, <2>2
<1> HIDE DEF h
<1>6. Leases' = [Abstract!Running EXCEPT ![h] = l]
  <2>1. Abstract!Running = [g \in Host |-> Abstract!Running[g]]
    BY DEF Abstract!Running
  <2> QED BY <1>5, <2>1, LeasesNext
<1>7. Abstract!Activate(h)
  BY <1>3, <1>6 DEF Abstract!Activate, Leases
<1> QED BY <1>2, <1>7

\* A relayed signal changes no lease beyond the reaping done before it.
LEMMA RelayIsLapse ==
    ASSUME TypeOK, LockMatchesSessions, NEW c \in Conn, NEW s \in Sid, NEW q \in SeqNo,
           NEW k \in RelayKind, RelayMediaSignal(c, s, k, q)
    PROVE  Abstract!Lapse
<1>1. sessions[s] \in Session /\ sessions[s] # None /\ s \notin Reapable
  BY DEF RelayMediaSignal, LiveIn, TypeOK, Reapable
<1>2. host_busy' = BusyWithout(Reapable)
  BY DEF RelayMediaSignal
<1>3. ASSUME NEW x \in Sid
      PROVE  /\ sessions'[x].viewer_conn = SessionsWithout(Reapable)[x].viewer_conn
             /\ sessions'[x].state = SessionsWithout(Reapable)[x].state
             /\ sessions'[x].ttl = SessionsWithout(Reapable)[x].ttl
  BY <1>1 DEF RelayMediaSignal, SessionsWithout, Session
<1>4. \A h \in Host : host_busy'[h] # None => host_busy'[h] \in Sid
  BY <1>2, ClosingTypes, ReapableType
<1>5. \A h \in Host : LeaseIn(host_busy', sessions', h) =
                      LeaseIn(BusyWithout(Reapable), SessionsWithout(Reapable), h)
  BY <1>2, <1>3, <1>4 DEF LeaseIn
<1> QED BY <1>5, ReapIsLapse

\* Time passes for leases as for the sessions behind them.
LEMMA TickIsTick ==
    ASSUME TypeOK, LockMatchesSessions, Tick
    PROVE  Abstract!Tick
<1>1. ASSUME NEW h \in Host
      PROVE  Leases'[h] = IF Abstract!Held(h) /\ ~Abstract!Lapsed(h)
                          THEN [Leases[h] EXCEPT !.ttl = @ - 1] ELSE Leases[h]
  <2> DEFINE s == host_busy[h]
  <2>1. host_busy' = host_busy /\ Leases'[h] = LeaseIn(host_busy', sessions', h)
    BY LeasesNext DEF Tick
  <2>2. CASE s = None
    <3>1. ~Abstract!Held(h) /\ Leases[h] = None
      BY <2>2, LeaseTerms, LeaseOfLock
    <3> QED BY <2>1, <2>2, <3>1 DEF LeaseIn
  <2>3. CASE s # None
    <3>1. /\ s \in Sid /\ sessions[s] \in Session /\ sessions[s] # None
          /\ Leases[h] = LeaseIn(host_busy, sessions, h)
      BY <2>3, LeaseOfLock
    <3>2. sessions'[s] = Older(s)
      BY <3>1 DEF Tick
    <3>3. Abstract!Held(h) /\ (Abstract!Lapsed(h) <=> sessions[s].ttl = 0)
      BY <2>3, <3>1, LeaseTerms DEF Reapable, Expired
    <3>4. CASE sessions[s].ttl = 0
      BY <2>1, <2>3, <3>1, <3>2, <3>3, <3>4 DEF LeaseIn, Older
    <3>5. CASE sessions[s].ttl # 0
      <4>1. sessions'[s] = [sessions[s] EXCEPT !.ttl = @ - 1]
        BY <3>1, <3>2, <3>5 DEF Older, Session
      <4>2. /\ sessions'[s].viewer_conn = sessions[s].viewer_conn
            /\ sessions'[s].state = sessions[s].state
            /\ sessions'[s].ttl = sessions[s].ttl - 1
        BY <3>1, <4>1 DEF Session
      <4> QED BY <2>1, <2>3, <3>1, <3>3, <3>5, <4>2 DEF LeaseIn
    <3> QED BY <3>4, <3>5
  <2> QED BY <2>2, <2>3
<1>2. Leases' = [h \in Host |-> Leases'[h]]
  BY LeasesNext
<1>3. Leases' = [h \in Host |-> IF Abstract!Held(h) /\ ~Abstract!Lapsed(h)
                                THEN [Leases[h] EXCEPT !.ttl = @ - 1] ELSE Leases[h]]
  BY <1>1, <1>2
<1>4. [h \in Host |-> IF Abstract!Held(h) /\ ~Abstract!Lapsed(h)
                      THEN [Leases[h] EXCEPT !.ttl = @ - 1] ELSE Leases[h]]
        = [h \in Host |-> IF Abstract!Held(h) /\ ~Abstract!Lapsed(h)
                      THEN [[g \in Host |-> LeaseOf(g)][h] EXCEPT !.ttl = @ - 1]
                      ELSE [g \in Host |-> LeaseOf(g)][h]]
  BY DEF Leases
<1> QED BY <1>3, <1>4 DEF Abstract!Tick, Leases

\* A connection that goes away ends the leases it has a part in: a viewer's
\* own, or the one on the host whose published socket it was.
LEMMA UnregisterIsLeave ==
    ASSUME TypeOK, LockMatchesSessions, PartiesConnected, NEW c \in Conn, UnregisterConn(c)
    PROVE  \/ \E h \in Host : Abstract!HostLeaves(h)
           \/ Abstract!ViewerLeaves(c)
           \/ Leases' = Leases
<1> DEFINE S == {s \in Sid : sessions[s] # None /\ Party(c, sessions[s])}
<1>1. sessions' = SessionsWithout(S) /\ host_busy' = BusyWithout(S)
  BY DEF UnregisterConn
<1>2. ASSUME NEW g \in Host
      PROVE  Leases'[g] = IF host_busy[g] \in S THEN None ELSE Leases[g]
  BY <1>1, LeasesNext, ClosingEndsLeases
<1>3. /\ Leases' = [g \in Host |-> Leases'[g]]
      /\ Leases = [g \in Host |-> Leases[g]]
  BY LeasesNext DEF Leases
<1>4. ASSUME NEW g \in Host, host_busy[g] \in S
      PROVE  /\ host_busy[g] # None
             /\ \/ identity[c] = HostId(g) /\ host_by_public_id[g] = c
                \/ identity[c] = Viewer /\ Leases[g].viewer = c
  BY <1>4, LeaseOfLock DEF PartiesConnected, Party
<1>5. CASE identity[c] = Viewer
  <2>1. ASSUME NEW g \in Host
        PROVE  host_busy[g] \in S <=> Leases[g] # None /\ Leases[g].viewer = c
    <3>1. ASSUME host_busy[g] \in S PROVE Leases[g] # None /\ Leases[g].viewer = c
      <4>1. HostId(g) # Viewer
        BY DEF HostId, Viewer
      <4> HIDE DEF S
      <4> QED BY <1>4, <1>5, <3>1, <4>1, LeaseOfLock
    <3>2. ASSUME Leases[g] # None, Leases[g].viewer = c PROVE host_busy[g] \in S
      BY <3>2, LeaseOfLock DEF Party
    <3> QED BY <3>1, <3>2
  <2>2. Leases' = [g \in Host |-> IF Leases[g] # None /\ Leases[g].viewer = c
                                  THEN None ELSE Leases[g]]
    BY <1>2, <1>3, <2>1
  <2>3. Abstract!ViewerLeaves(c)
    BY <2>2 DEF Abstract!ViewerLeaves, Abstract!Held, Leases
  <2> QED BY <2>3
<1>6. CASE \E h \in Host : identity[c] = HostId(h) /\ host_by_public_id[h] = c
  <2>1. PICK h \in Host : identity[c] = HostId(h) /\ host_by_public_id[h] = c
    BY <1>6
  <2>2. ASSUME NEW g \in Host
        PROVE  Leases'[g] = IF g = h THEN None ELSE Leases[g]
    <3>1. CASE g = h
      <4>1. host_busy[h] # None => host_busy[h] \in S
        BY <2>1, LeaseOfLock DEF PartiesConnected, Party
      <4> QED BY <1>2, <3>1, <4>1, LeaseOfLock
    <3>2. CASE g # h
      <4>1. HostId(g) # HostId(h) /\ HostId(h) # Viewer
        BY <3>2 DEF HostId, Viewer
      <4>2. host_busy[g] \notin S
        BY <1>4, <2>1, <4>1
      <4> QED BY <1>2, <3>2, <4>2
    <3> QED BY <3>1, <3>2
  <2>3. Leases' = [Leases EXCEPT ![h] = None]
    BY <1>3, <2>2
  <2>4. Abstract!HostLeaves(h)
    BY <2>3 DEF Abstract!HostLeaves, Leases
  <2> QED BY <2>4
<1>7. CASE /\ identity[c] # Viewer
           /\ ~\E h \in Host : identity[c] = HostId(h) /\ host_by_public_id[h] = c
  <2>1. \A g \in Host : host_busy[g] \notin S
    BY <1>4, <1>7
  <2> QED BY <1>2, <1>3, <2>1
<1> QED BY <1>5, <1>6, <1>7

\* The registry implements the lease (ImplementsHostLease): every step of the
\* registry is a step of HostLease, or changes no lease.  A viewer gets a host
\* only when nobody holds it or the holder's time is up; reconnects of the
\* host, signals and errors leave every lease alone.
THEOREM LeaseRefined == Spec => ImplementsHostLease
<1>1. Init => Abstract!Init
  BY DEF Init, Abstract!Init, LeaseOf
<1>2. TypeOK /\ LockMatchesSessions /\ PartiesConnected /\ [Next]_vars =>
         [Abstract!Next]_Leases
  <2> SUFFICES ASSUME TypeOK, LockMatchesSessions, PartiesConnected, [Next]_vars
               PROVE  Abstract!Next \/ Leases' = Leases
    OBVIOUS
  <2>1. ASSUME NEW c \in Conn, ConnStep(c) PROVE Abstract!Next \/ Leases' = Leases
    <3>1. CASE RegisterConn(c) \/ WriterBreaks(c) \/ BindViewer(c)
      BY <3>1 DEF RegisterConn, WriterBreaks, BindViewer, Leases, LeaseOf
    <3>2. ASSUME NEW h \in Host, BindHost(c, h) PROVE Leases' = Leases
      <4>1. ASSUME NEW s \in Sid, sessions[s] # None
            PROVE  /\ sessions'[s].viewer_conn = sessions[s].viewer_conn
                   /\ sessions'[s].state = sessions[s].state
                   /\ sessions'[s].ttl = sessions[s].ttl
        BY <3>2, <4>1 DEF BindHost, TypeOK, Session
      <4>2. host_busy' = host_busy
        BY <3>2 DEF BindHost
      <4>3. ASSUME NEW g \in Host
            PROVE  LeaseIn(host_busy', sessions', g) = LeaseIn(host_busy, sessions, g)
        BY <4>1, <4>2, LeaseOfLock DEF LeaseIn
      <4>4. Leases = [g \in Host |-> LeaseIn(host_busy, sessions, g)]
        BY DEF Leases, LeaseOf, LeaseIn
      <4> QED BY <4>3, <4>4, LeasesNext
    <3>3. CASE UnregisterConn(c)
      BY <3>3, UnregisterIsLeave DEF Abstract!Next
    <3> QED BY <2>1, <3>1, <3>2, <3>3 DEF ConnStep
  <2>2. ASSUME NEW c \in Conn, Request(c) PROVE Abstract!Next
    <3>1. PICK s \in Sid, q \in SeqNo :
             \/ \E h \in Host : CreatePendingSession(c, s, h, q)
             \/ AcceptSession(c, s, q) \/ RejectSession(c, s, q) \/ EndSession(c, s, q)
             \/ \E k \in RelayKind : RelayMediaSignal(c, s, k, q)
      BY <2>2 DEF Request
    <3>2. ASSUME NEW h \in Host, CreatePendingSession(c, s, h, q) PROVE Abstract!Next
      <4>1. CASE link[host_by_public_id[h]] = "open"
        BY <3>2, <4>1, IntentIsGrant DEF Abstract!Next
      <4>2. CASE link[host_by_public_id[h]] # "open"
        BY <3>2, <4>2, ReapIsLapse DEF CreatePendingSession, Abstract!Next
      <4> QED BY <4>1, <4>2
    <3>3. CASE AcceptSession(c, s, q)
      BY <3>3, AcceptIsActivate DEF Abstract!Next
    <3>4. CASE RejectSession(c, s, q) \/ EndSession(c, s, q)
      BY <3>4, CloseIsEnd DEF RejectSession, EndSession, LiveIn, CloseByRequest, Abstract!Next
    <3>5. ASSUME NEW k \in RelayKind, RelayMediaSignal(c, s, k, q) PROVE Abstract!Next
      BY <3>5, RelayIsLapse DEF Abstract!Next
    <3> QED BY <3>1, <3>2, <3>3, <3>4, <3>5
  <2>3. ASSUME NEW s \in Sid, ForceDisconnect(s) PROVE Abstract!Next
    BY <2>3, CloseIsEnd DEF ForceDisconnect, Abstract!Next
  <2>4. CASE ReapExpired
    BY <2>4, ReapIsLapse DEF ReapExpired, Reap, Abstract!Next
  <2>5. CASE Tick
    BY <2>5, TickIsTick DEF Abstract!Next
  <2>6. CASE UNCHANGED vars
    BY <2>6 DEF vars, Leases, LeaseOf
  <2> QED BY <2>1, <2>2, <2>3, <2>4, <2>5, <2>6 DEF Next
<1>3. TypeOK /\ LockMatchesSessions /\ PartiesConnected /\ [Next]_vars =>
         [Abstract!Next]_[h \in Host |-> LeaseOf(h)]
  BY <1>2 DEF Leases
<1> QED
  BY <1>1, <1>3, TypeCorrect, LockCorrect, ConnectedCorrect, PTL
  DEF Spec, ImplementsHostLease, Abstract!Spec

-----------------------------------------------------------------------------
\* The handlers.

USE OtpAssumption

\* A connection's handler is between the code check and the registry, or
\* between the registry and the spending of the code.
Creating(c) == task[c] # None /\ task[c].step = "create"
Consuming(c) == task[c] # None /\ task[c].step = "consume"

\* A session in the registry, accepted or in a handler's hands has been asked
\* for.
SessionsAreUsed ==
    /\ \A s \in Sid : sessions[s] # None => intents[s] # 0
    /\ \A h \in Host, s \in Sid : s \in accepted[h] => intents[s] # 0
    /\ \A c \in Conn : task[c] # None => intents[task[c].sid] # 0

\* Handlers under way: the only intent under an id has no session yet, none
\* that was accepted, and no other handler's; an accept's session is accepted.
TasksPending ==
    \A c \in Conn :
        /\ Creating(c) /\ intents[task[c].sid] = 1 =>
               /\ sessions[task[c].sid] = None
               /\ \A h \in Host : task[c].sid \notin accepted[h]
               /\ \A d \in Conn : task[d] # None /\ task[d].sid = task[c].sid => d = c
        /\ Consuming(c) => task[c].sid \in accepted[task[c].host]

\* The wrong guesses against a stored code are the attempts counted in its row.
WrongIsCounted ==
    \A h \in Host : wrong[h] = IF otp[h] = None THEN 0 ELSE otp[h].attempts

\* What a code is bound to has been asked for, and if that was once, it is a
\* session of its own host, let in by it.
BoundToOwnSession ==
    \A h \in Host, s \in Sid : otp[h] # None /\ otp[h].session_intent_id = s =>
        /\ intents[s] # 0
        /\ intents[s] = 1 =>
               /\ \A c \in Conn : task[c] # None /\ task[c].sid = s =>
                      task[c].host = h /\ (Creating(c) => task[c].by_code)
               /\ sessions[s] # None => sessions[s].host = h /\ admitted[s] = h
               /\ \A g \in Host : s \in accepted[g] => admitted[s] = h

\* The inductive invariant of the handlers.
ServerInv ==
    /\ ServerTypeOK
    /\ SessionsAreUsed
    /\ TasksPending
    /\ WrongIsCounted
    /\ BoundToOwnSession
    /\ AcceptSpendsBoundCode
    /\ OnlyAdmissionSpends

-----------------------------------------------------------------------------
\* Every handler's part under the registry's mutex is a step of the registry,
\* or leaves it alone.
LEMMA HandlerIsRegistryStep ==
    ASSUME ServerTypeOK, [ServerNext]_all_vars
    PROVE  [Next]_vars
<1> USE DEF ServerTypeOK
<1>1. CASE \E h \in Host : StoreHash(h)
  BY <1>1 DEF StoreHash
<1>2. ASSUME NEW c \in Conn, IntentStep(c) PROVE [Next]_vars
  <2>1. CASE \E s \in Sid, h \in Host, q \in SeqNo :
                 \/ \E mode \in {"otp", "unattended"} : IntentUngated(c, s, h, q, mode)
                 \/ PrefilterBind(c, s, h, q)
    BY <2>1 DEF IntentUngated, PrefilterBind, GoOn
  <2>2. CASE IntentCreate(c)
    <3> DEFINE t == task[c]
    <3>1. t \in Task /\ t.step = "create"
      BY <2>2 DEF IntentCreate
    <3>2. t.sid \in Sid /\ t.host \in Host /\ t.seq \in SeqNo
      BY <3>1 DEF Task
    <3>3. CASE CreatePendingSession(c, t.sid, t.host, t.seq)
      BY <3>2, <3>3 DEF Next, Request
    <3>4. CASE Reap /\ Reapable # {}
      BY <3>4 DEF Next, ReapExpired
    <3>5. CASE Reap /\ Reapable = {}
      <4>1. SessionsWithout(Reapable) = sessions /\ BusyWithout(Reapable) = host_busy
        BY <3>5 DEF TypeOK, SessionsWithout, BusyWithout
      <4>2. HeardEnd(Reapable, link) = heard
        BY <3>5 DEF TypeOK, HeardEnd
      <4> QED BY <3>5, <4>1, <4>2 DEF Reap, UNCHANGED_links, vars
    <3>6. CASE UNCHANGED vars
      BY <3>6
    <3> QED BY <2>2, <3>3, <3>4, <3>5, <3>6 DEF IntentCreate
  <2>3. CASE \E h \in Host : PrefilterReject(c, h)
    BY <2>3 DEF PrefilterReject
  <2> QED BY <1>2, <2>1, <2>2, <2>3 DEF IntentStep
<1>3. ASSUME NEW c \in Conn, NEW s \in Sid, NEW q \in SeqNo, HandleAccept(c, s, q)
      PROVE  [Next]_vars
  BY <1>3 DEF HandleAccept, Next, Request
<1>4. ASSUME NEW c \in Conn, ConsumeForSession(c) PROVE [Next]_vars
  BY <1>4 DEF ConsumeForSession
<1>5. ASSUME NEW c \in Conn, OtherHandler(c) PROVE [Next]_vars
  BY <1>5 DEF OtherHandler, Next, Request
<1>6. CASE (\E s \in Sid : ForceDisconnect(s)) \/ ReapExpired
  BY <1>6 DEF Next
<1>7. CASE ServerTick
  <2>1. CASE \E s \in Sid : sessions[s] # None /\ sessions[s].ttl > 0
    BY <1>7, <2>1 DEF ServerTick, Next, Tick
  <2>2. CASE ~\E s \in Sid : sessions[s] # None /\ sessions[s].ttl > 0
    <3>1. sessions' = sessions
      BY <1>7, <2>2 DEF ServerTick, Older, TypeOK
    <3> QED BY <1>7, <3>1 DEF ServerTick, vars
  <2> QED BY <2>1, <2>2
<1>8. CASE UNCHANGED all_vars
  BY <1>8 DEF all_vars
<1> QED BY <1>1, <1>2, <1>3, <1>4, <1>5, <1>6, <1>7, <1>8 DEF ServerNext

\* Apart from intents, no step makes a session or moves one to another host.
LEMMA OnlyIntentsCreate ==
    ASSUME TypeOK,
           \/ \E c \in Conn :
                  \/ ConnStep(c)
                  \/ \E s \in Sid, q \in SeqNo :
                        \/ AcceptSession(c, s, q) \/ RejectSession(c, s, q)
                        \/ EndSession(c, s, q)
                        \/ \E k \in RelayKind : RelayMediaSignal(c, s, k, q)
           \/ \E s \in Sid : ForceDisconnect(s)
           \/ Reap,
           NEW x \in Sid, sessions'[x] # None
    PROVE  sessions[x] # None /\ sessions'[x].host = sessions[x].host
<1>1. ASSUME NEW S \in SUBSET Sid, sessions' = SessionsWithout(S)
      PROVE  sessions[x] # None /\ sessions'[x].host = sessions[x].host
  BY <1>1 DEF SessionsWithout
<1>2. ASSUME NEW s \in Sid, NEW ss, sessions[s] # None, ss.host = sessions[s].host,
             sessions' = [SessionsWithout(Reapable) EXCEPT ![s] = ss]
      PROVE  sessions[x] # None /\ sessions'[x].host = sessions[x].host
  BY <1>2 DEF SessionsWithout
<1> USE ReapableType
<1>3. ASSUME NEW c \in Conn, ConnStep(c)
      PROVE  sessions[x] # None /\ sessions'[x].host = sessions[x].host
  <2>1. CASE RegisterConn(c) \/ WriterBreaks(c) \/ BindViewer(c)
    BY <2>1 DEF RegisterConn, WriterBreaks, BindViewer
  <2>2. ASSUME NEW h \in Host, BindHost(c, h)
        PROVE  sessions[x] # None /\ sessions'[x].host = sessions[x].host
    <3>1. sessions[x] # None
      BY <2>2 DEF BindHost
    <3>2. sessions[x] \in Session
      BY <3>1 DEF TypeOK
    <3>3. \/ sessions'[x] = sessions[x]
          \/ sessions'[x] = [sessions[x] EXCEPT !.host_conn = c]
      BY <2>2, <3>1 DEF BindHost
    <3>4. [sessions[x] EXCEPT !.host_conn = c].host = sessions[x].host
      BY <3>2 DEF Session
    <3> QED BY <3>1, <3>3, <3>4
  <2>3. CASE UnregisterConn(c)
    BY <1>1, <2>3 DEF UnregisterConn
  <2> QED BY <1>3, <2>1, <2>2, <2>3 DEF ConnStep
<1>4. ASSUME NEW c \in Conn, NEW s \in Sid, NEW q \in SeqNo, AcceptSession(c, s, q)
      PROVE  sessions[x] # None /\ sessions'[x].host = sessions[x].host
  <2> DEFINE ss == [sessions[s] EXCEPT !.state = "active", !.ttl = ActiveTtl,
                                       !.next_signal_seq = SaturatingAdd1(q)]
  <2>1. sessions[s] \in Session /\ sessions[s] # None
    BY <1>4 DEF AcceptSession, LiveIn, TypeOK
  <2>2. ss.host = sessions[s].host
    BY <2>1 DEF Session
  <2> HIDE DEF ss
  <2>3. sessions' = [SessionsWithout(Reapable) EXCEPT ![s] = ss]
    BY <1>4 DEF AcceptSession, ss
  <2> QED BY <1>2, <2>1, <2>2, <2>3
<1>5. ASSUME NEW c \in Conn, NEW s \in Sid, NEW q \in SeqNo, NEW k \in RelayKind, RelayMediaSignal(c, s, k, q)
      PROVE  sessions[x] # None /\ sessions'[x].host = sessions[x].host
  <2> DEFINE ss == [sessions[s] EXCEPT !.next_signal_seq = SaturatingAdd1(q)]
  <2>1. sessions[s] \in Session /\ sessions[s] # None
    BY <1>5 DEF RelayMediaSignal, LiveIn, TypeOK
  <2>2. ss.host = sessions[s].host
    BY <2>1 DEF Session
  <2> HIDE DEF ss
  <2>3. sessions' = [SessionsWithout(Reapable) EXCEPT ![s] = ss]
    BY <1>5 DEF RelayMediaSignal, ss
  <2> QED BY <1>2, <2>1, <2>2, <2>3
<1>6. ASSUME NEW c \in Conn, NEW s \in Sid, NEW q \in SeqNo, RejectSession(c, s, q) \/ EndSession(c, s, q)
      PROVE  sessions[x] # None /\ sessions'[x].host = sessions[x].host
  BY <1>1, <1>6 DEF RejectSession, EndSession, CloseByRequest
<1>7. ASSUME NEW s \in Sid, ForceDisconnect(s)
      PROVE  sessions[x] # None /\ sessions'[x].host = sessions[x].host
  BY <1>1, <1>7 DEF ForceDisconnect
<1>8. CASE Reap
  BY <1>1, <1>8 DEF Reap
<1> QED BY <1>3, <1>4, <1>5, <1>6, <1>7, <1>8

-----------------------------------------------------------------------------
\* Handlers keep their variables' types, whatever state they start from.
LEMMA ServerTypeStep ==
    ASSUME ServerTypeOK, [ServerNext]_all_vars
    PROVE  ServerTypeOK'
<1> USE DEF ServerTypeOK
<1>1. TypeOK'
  BY HandlerIsRegistryStep, TypeStep
<1>2. ASSUME NEW h \in Host, StoreHash(h) PROVE ServerTypeOK'
  <2> DEFINE row == [session_intent_id |-> None, consumed |-> FALSE,
                     attempts |-> 0, ttl |-> OtpTtl]
  <2>1. row \in Row
    BY DEF Row
  <2>2. otp' = [otp EXCEPT ![h] = row]
    BY <1>2 DEF StoreHash
  <2> HIDE DEF row
  <2>3. ASSUME NEW c \in Conn PROVE task'[c] \in Task \cup {None}
    <3>1. CASE task'[c] = task[c]
      BY <3>1
    <3>2. CASE task[c] # None /\ task[c].step = "create"
               /\ task'[c] = [task[c] EXCEPT !.by_code = FALSE]
      <4>1. task[c] \in [step : {"create"}, sid : Sid, host : Host, seq : SeqNo, by_code : BOOLEAN]
        BY <3>2 DEF Task
      <4>2. task'[c] \in [step : {"create"}, sid : Sid, host : Host, seq : SeqNo, by_code : BOOLEAN]
        BY <3>2, <4>1
      <4> QED BY <4>2 DEF Task
    <3> QED BY <1>2, <3>1, <3>2 DEF StoreHash
  <2>4. task' = [c \in Conn |-> task'[c]]
    BY <1>2 DEF StoreHash
  <2>5. otp' \in [Host -> Row \cup {None}] /\ task' \in [Conn -> Task \cup {None}]
    BY <2>1, <2>2, <2>3, <2>4
  <2>6. /\ wrong' = [wrong EXCEPT ![h] = 0] /\ UNCHANGED <<intents, accepted>>
        /\ admitted' = [s \in Sid |-> IF admitted[s] = h THEN None ELSE admitted[s]]
    BY <1>2 DEF StoreHash
  <2> QED BY <1>1, <2>5, <2>6
<1>3. ASSUME NEW c \in Conn, IntentStep(c) PROVE ServerTypeOK'
  <2>1. ASSUME NEW s \in Sid, NEW h \in Host, NEW q \in SeqNo, NEW b \in BOOLEAN,
               GoOn(c, s, h, q, b)
        PROVE  task' \in [Conn -> Task \cup {None}] /\ intents' \in [Sid -> 0 .. 2]
               /\ admitted' = admitted
    BY <2>1 DEF GoOn, Task
  <2>2. ASSUME NEW s \in Sid, NEW h \in Host, NEW q \in SeqNo, NEW mode \in {"otp", "unattended"},
               IntentUngated(c, s, h, q, mode)
        PROVE  ServerTypeOK'
    BY <1>1, <2>1, <2>2 DEF IntentUngated
  <2>3. ASSUME NEW s \in Sid, NEW h \in Host, NEW q \in SeqNo, PrefilterBind(c, s, h, q)
        PROVE  ServerTypeOK'
    <3>1. otp[h] \in Row
      BY <2>3 DEF PrefilterBind, ActiveForHost
    <3>2. [otp[h] EXCEPT !.session_intent_id = s] \in Row
      BY <3>1 DEF Row
    <3>3. otp' \in [Host -> Row \cup {None}]
      BY <2>3, <3>2 DEF PrefilterBind
    <3>4. accepted' \in [Host -> SUBSET Sid]
      BY <2>3 DEF PrefilterBind
    <3> QED BY <1>1, <2>1, <2>3, <3>3, <3>4 DEF PrefilterBind
  <2>4. ASSUME NEW h \in Host, PrefilterReject(c, h)
        PROVE  ServerTypeOK'
    <3>1. otp[h] \in Row /\ otp[h].attempts < MaxOtpAttempts
      BY <2>4 DEF PrefilterReject, ActiveForHost
    <3>2. [otp[h] EXCEPT !.attempts = otp[h].attempts + 1] \in Row
      BY <3>1 DEF Row
    <3>3. otp' \in [Host -> Row \cup {None}]
      BY <2>4, <3>2 DEF PrefilterReject
    <3> QED BY <1>1, <2>4, <3>3 DEF PrefilterReject
  <2>5. CASE IntentCreate(c)
    <3>1. task[c].sid \in Sid /\ task[c].host \in Host
      BY <2>5 DEF IntentCreate, Task
    <3>2. admitted' \in [Sid -> Host \cup {None}]
      BY <2>5, <3>1 DEF IntentCreate
    <3> QED BY <1>1, <2>5, <3>2 DEF IntentCreate
  <2> QED BY <1>3, <2>2, <2>3, <2>4, <2>5 DEF IntentStep
<1>4. ASSUME NEW c \in Conn, NEW s \in Sid, NEW q \in SeqNo, HandleAccept(c, s, q)
      PROVE  ServerTypeOK'
  <2>1. identity[c] \in Identity /\ identity[c].host \in Host
    <3>1. identity[c] \in Identity /\ identity[c].role = "host"
      BY <1>4 DEF HandleAccept, AcceptSession, Serving, TypeOK
    <3> QED BY <3>1 DEF Identity, Viewer, HostId
  <2>2. [step |-> "consume", sid |-> s, host |-> identity[c].host] \in Task
    BY <2>1 DEF Task
  <2> QED BY <1>1, <1>4, <2>2 DEF HandleAccept
<1>5. ASSUME NEW c \in Conn, ConsumeForSession(c) PROVE ServerTypeOK'
  <2>1. ASSUME NEW h \in Host, otp[h] # None
        PROVE  [otp[h] EXCEPT !.consumed = TRUE] \in Row
    <3>1. otp[h] \in Row
      BY <2>1
    <3> QED BY <3>1 DEF Row
  <2>2. task[c].host \in Host
    BY <1>5 DEF ConsumeForSession, Task
  <2>3. otp' \in [Host -> Row \cup {None}]
    BY <1>5, <2>1, <2>2 DEF ConsumeForSession
  <2> QED BY <1>1, <1>5, <2>3 DEF ConsumeForSession
<1>6. ASSUME NEW c \in Conn, OtherHandler(c) PROVE ServerTypeOK'
  BY <1>1, <1>6 DEF OtherHandler, otp_vars
<1>7. CASE ((\E s \in Sid : ForceDisconnect(s)) \/ ReapExpired) /\ UNCHANGED otp_vars
  BY <1>1, <1>7 DEF otp_vars
<1>8. CASE ServerTick
  <2>1. ASSUME NEW h \in Host, otp[h] # None, otp[h].ttl > 0
        PROVE  [otp[h] EXCEPT !.ttl = otp[h].ttl - 1] \in Row
    BY <2>1 DEF Row
  <2>2. otp' \in [Host -> Row \cup {None}]
    BY <1>8, <2>1 DEF ServerTick
  <2> QED BY <1>1, <1>8, <2>2 DEF ServerTick
<1>9. CASE UNCHANGED all_vars
  BY <1>1, <1>9 DEF all_vars, otp_vars
<1> QED BY <1>2, <1>3, <1>4, <1>5, <1>6, <1>7, <1>8, <1>9 DEF ServerNext

-----------------------------------------------------------------------------
\* A step that makes no session and moves none.
NoNewSession ==
    \A x \in Sid : sessions'[x] # None =>
        sessions[x] # None /\ sessions'[x].host = sessions[x].host

\* What is known of a task.
LEMMA TaskFields ==
    ASSUME ServerTypeOK, NEW c \in Conn, task[c] # None
    PROVE  /\ task[c] \in Task /\ task[c].sid \in Sid /\ task[c].host \in Host
           /\ Creating(c) <=> ~Consuming(c)
           /\ Creating(c) => task[c].seq \in SeqNo /\ task[c].by_code \in BOOLEAN
  BY DEF ServerTypeOK, Task, Creating, Consuming

\* A handler that holds the registry's lock once, and nothing else.
LEMMA OtherKeepsServerInv ==
    ASSUME ServerInv, ServerTypeOK', NoNewSession, UNCHANGED otp_vars
    PROVE  ServerInv'
<1> USE DEF ServerInv, otp_vars
<1>1. \A h \in Host, s \in Sid : Spending(s, h)' <=> Spending(s, h)
  BY DEF Spending
<1>2. SessionsAreUsed' /\ WrongIsCounted' /\ OnlyAdmissionSpends'
  BY DEF SessionsAreUsed, NoNewSession, WrongIsCounted, OnlyAdmissionSpends
<1>3. AcceptSpendsBoundCode'
  BY DEF AcceptSpendsBoundCode, Spending
<1>4. TasksPending'
  BY TaskFields DEF TasksPending, NoNewSession, Creating, Consuming
<1>5. BoundToOwnSession'
  BY DEF BoundToOwnSession, NoNewSession, Creating
<1> QED BY <1>2, <1>3, <1>4, <1>5

\* What Spending says of a task.
LEMMA SpendingIsConsuming ==
    ASSUME ServerTypeOK, NEW s \in Sid, NEW h \in Host
    PROVE  Spending(s, h) <=>
           \E c \in Conn : Consuming(c) /\ task[c].sid = s /\ task[c].host = h
<1>1. ASSUME NEW c \in Conn, Consuming(c), task[c].sid = s, task[c].host = h
      PROVE  task[c] = [step |-> "consume", sid |-> s, host |-> h]
  <2>1. task[c] \in [step : {"consume"}, sid : Sid, host : Host]
    BY <1>1 DEF ServerTypeOK, Task, Consuming
  <2> QED BY <1>1, <2>1
<1>2. ASSUME NEW c \in Conn, task[c] = [step |-> "consume", sid |-> s, host |-> h]
      PROVE  Consuming(c) /\ task[c].sid = s /\ task[c].host = h
  <2>1. task[c] \in Task
    BY <1>2 DEF Task
  <2> QED BY <1>2, <2>1 DEF Consuming
<1> QED BY <1>1, <1>2 DEF Spending

\* The same after a step.
LEMMA SpendingIsConsumingNext ==
    ASSUME ServerTypeOK', NEW s \in Sid, NEW h \in Host
    PROVE  Spending(s, h)' <=>
           \E c \in Conn : Consuming(c)' /\ task'[c].sid = s /\ task'[c].host = h
<1>1. ASSUME NEW c \in Conn, Consuming(c)', task'[c].sid = s, task'[c].host = h
      PROVE  task'[c] = [step |-> "consume", sid |-> s, host |-> h]
  <2>1. task'[c] \in [step : {"consume"}, sid : Sid, host : Host]
    BY <1>1 DEF ServerTypeOK, Task, Consuming
  <2> QED BY <1>1, <2>1
<1>2. ASSUME NEW c \in Conn, task'[c] = [step |-> "consume", sid |-> s, host |-> h]
      PROVE  Consuming(c)' /\ task'[c].sid = s /\ task'[c].host = h
  <2>1. task'[c] \in Task
    BY <1>2 DEF Task
  <2> QED BY <1>2, <2>1 DEF Consuming
<1> QED BY <1>1, <1>2 DEF Spending

\* A host that publishes a new code.
LEMMA StoreHashKeepsServerInv ==
    ASSUME ServerInv, ServerTypeOK', NEW h \in Host, StoreHash(h)
    PROVE  ServerInv'
<1> DEFINE row == [session_intent_id |-> None, consumed |-> FALSE,
                   attempts |-> 0, ttl |-> OtpTtl]
<1> USE DEF ServerInv
<1>1. row \in Row /\ row # None /\ row.session_intent_id = None
      /\ row.consumed = FALSE /\ row.attempts = 0
  <2>1. row \in Row
    BY DEF Row
  <2>2. row # None
    BY <2>1
  <2> QED BY <2>1, <2>2
<1>2. /\ otp' = [otp EXCEPT ![h] = row] /\ wrong' = [wrong EXCEPT ![h] = 0]
      /\ UNCHANGED <<vars, intents, accepted>>
  BY DEF StoreHash
<1> HIDE DEF row
<1>3. ASSUME NEW c \in Conn
      PROVE  /\ task'[c] # None <=> task[c] # None
             /\ task[c] # None => /\ task'[c] \in Task
                                  /\ task'[c].sid = task[c].sid /\ task'[c].host = task[c].host
                                  /\ task'[c].step = task[c].step
                                  /\ task[c].host # h => task'[c] = task[c]
  <2>1. CASE task'[c] = task[c]
    BY <2>1 DEF ServerTypeOK
  <2>2. CASE task[c] # None /\ task[c].step = "create" /\ task[c].host = h
             /\ task'[c] = [task[c] EXCEPT !.by_code = FALSE]
    <3>1. task[c] \in [step : {"create"}, sid : Sid, host : Host, seq : SeqNo, by_code : BOOLEAN]
      BY <2>2 DEF ServerTypeOK, Task
    <3>2. task'[c] \in [step : {"create"}, sid : Sid, host : Host, seq : SeqNo, by_code : BOOLEAN]
      BY <2>2, <3>1
    <3>3. task'[c] \in Task
      BY <3>2 DEF Task
    <3> QED BY <2>2, <3>1, <3>3
  <2> QED BY <2>1, <2>2 DEF StoreHash
<1>4. \A c \in Conn : /\ Creating(c)' <=> Creating(c)
                      /\ Consuming(c)' <=> Consuming(c)
  BY <1>3 DEF Creating, Consuming
<1>5. \A s \in Sid : admitted[s] # h => admitted'[s] = admitted[s]
  BY DEF StoreHash, ServerTypeOK
<1>6. ASSUME NEW g \in Host, NEW s \in Sid
      PROVE  Spending(s, g)' <=> Spending(s, g)
  <2>1. /\ Spending(s, g) <=>
               \E c \in Conn : Consuming(c) /\ task[c].sid = s /\ task[c].host = g
        /\ Spending(s, g)' <=>
               \E c \in Conn : Consuming(c)' /\ task'[c].sid = s /\ task'[c].host = g
    BY SpendingIsConsuming, SpendingIsConsumingNext
  <2>2. \A c \in Conn : (Consuming(c)' /\ task'[c].sid = s /\ task'[c].host = g)
                        <=> (Consuming(c) /\ task[c].sid = s /\ task[c].host = g)
    BY <1>3, <1>4 DEF Consuming
  <2> QED BY <2>1, <2>2
<1>7. SessionsAreUsed'
  BY <1>2, <1>3 DEF SessionsAreUsed, vars
<1>8. TasksPending'
  BY <1>2, <1>3, <1>4 DEF TasksPending, Creating, Consuming, vars
<1>9. WrongIsCounted'
  BY <1>1, <1>2 DEF WrongIsCounted, ServerTypeOK
<1>10. ASSUME NEW g \in Host
       PROVE  /\ g = h => otp'[g] = row
              /\ g # h => otp'[g] = otp[g]
  BY <1>2 DEF ServerTypeOK
<1>11. BoundToOwnSession'
  <2> SUFFICES ASSUME NEW g \in Host, NEW s \in Sid, otp'[g] # None,
                      otp'[g].session_intent_id = s
               PROVE  /\ intents'[s] # 0
                      /\ intents'[s] = 1 =>
                             /\ \A c \in Conn : task'[c] # None /\ task'[c].sid = s =>
                                    task'[c].host = g /\ (Creating(c)' => task'[c].by_code)
                             /\ sessions'[s] # None =>
                                    sessions'[s].host = g /\ admitted'[s] = g
                             /\ \A x \in Host : s \in accepted'[x] => admitted'[s] = g
    BY DEF BoundToOwnSession
  <2>1. g # h /\ otp'[g] = otp[g]
    BY <1>1, <1>10
  <2>2. UNCHANGED <<intents, sessions, accepted>>
    BY <1>2 DEF vars
  <2>3. \A c \in Conn : task'[c] # None /\ task'[c].host # h => task'[c] = task[c]
    BY <1>3
  <2> QED BY <1>3, <1>4, <1>5, <2>1, <2>2, <2>3 DEF BoundToOwnSession
<1>12. AcceptSpendsBoundCode'
  <2> SUFFICES ASSUME NEW g \in Host, NEW s \in Sid, otp'[g] # None,
                      otp'[g].session_intent_id = s, s \in accepted'[g], ~Spending(s, g)'
               PROVE  otp'[g].consumed \/ otp'[g].ttl = 0
    BY DEF AcceptSpendsBoundCode, ServerTypeOK
  <2>1. otp'[g] = otp[g] /\ accepted' = accepted
    BY <1>1, <1>2, <1>10
  <2>2. ~Spending(s, g)
    BY <1>6
  <2> QED BY <2>1, <2>2 DEF AcceptSpendsBoundCode
<1>13. OnlyAdmissionSpends'
  <2> SUFFICES ASSUME NEW g \in Host, otp'[g] # None, otp'[g].consumed
               PROVE  LET s == otp'[g].session_intent_id IN
                      s \in accepted'[g] /\ (intents'[s] = 1 => admitted'[s] = g)
    BY DEF OnlyAdmissionSpends
  <2>1. g # h /\ otp'[g] = otp[g]
    BY <1>1, <1>10
  <2>2. otp[g].session_intent_id \in accepted[g] /\ accepted[g] \subseteq Sid
    BY <2>1 DEF OnlyAdmissionSpends, ServerTypeOK
  <2> QED BY <1>2, <1>5, <2>1, <2>2 DEF OnlyAdmissionSpends
<1> QED BY <1>7, <1>8, <1>9, <1>11, <1>12, <1>13

\* The first half of an intent's handler leaves a task and counts the id; what
\* was asked for once before is now asked for more than once.
LEMMA GoOnKeepsTasks ==
    ASSUME ServerInv, ServerTypeOK', NEW c \in Conn, NEW s \in Sid, NEW h \in Host, NEW q \in SeqNo,
           NEW b \in BOOLEAN,
           task[c] = None, GoOn(c, s, h, q, b),
           \A g \in Host : /\ accepted'[g] \subseteq accepted[g]
                           /\ \A x \in Sid : x \in accepted[g] /\ Spending(x, g) =>
                                  x \in accepted'[g]
    PROVE  /\ UNCHANGED <<vars, admitted>>
           /\ SessionsAreUsed' /\ TasksPending'
           /\ \A x \in Sid : /\ x # s => intents'[x] = intents[x]
                             /\ x = s => intents'[x] # 0
                             /\ x = s /\ intents'[x] = 1 => intents[x] = 0
           /\ \A d \in Conn : d # c => task'[d] = task[d]
           /\ task'[c] # None /\ task'[c].sid = s /\ task'[c].host = h
           /\ Creating(c)' /\ (task'[c].by_code <=> b)
           /\ \A x \in Sid, g \in Host : Spending(x, g)' <=> Spending(x, g)
<1> DEFINE t == [step |-> "create", sid |-> s, host |-> h, seq |-> q, by_code |-> b]
<1> USE DEF ServerInv
<1>1. t \in Task /\ t.sid = s /\ t.host = h /\ t.step = "create" /\ t.by_code = b
  BY DEF Task
<1>2. t # None
  BY <1>1
<1>3. /\ task' = [task EXCEPT ![c] = t]
      /\ intents' = [intents EXCEPT ![s] = IF intents[s] = 0 THEN 1 ELSE 2]
      /\ UNCHANGED <<vars, admitted>>
  BY DEF GoOn
<1> HIDE DEF t
<1>4. /\ \A d \in Conn : d # c => task'[d] = task[d]
      /\ task'[c] = t
  BY <1>3 DEF ServerTypeOK
<1>5. \A x \in Sid : /\ x # s => intents'[x] = intents[x]
                     /\ x = s => intents'[x] # 0
                     /\ x = s /\ intents'[x] = 1 => intents[x] = 0
  BY <1>3 DEF ServerTypeOK
<1>6. Creating(c)' /\ ~Consuming(c)' /\ ~Consuming(c)
  BY <1>1, <1>2, <1>4 DEF Creating, Consuming
<1>7. \A d \in Conn : d # c => /\ Creating(d)' <=> Creating(d)
                               /\ Consuming(d)' <=> Consuming(d)
  BY <1>4 DEF Creating, Consuming
<1>8. ASSUME NEW x \in Sid, NEW g \in Host
      PROVE  Spending(x, g)' <=> Spending(x, g)
  <2>1. /\ Spending(x, g) <=>
               \E d \in Conn : Consuming(d) /\ task[d].sid = x /\ task[d].host = g
        /\ Spending(x, g)' <=>
               \E d \in Conn : Consuming(d)' /\ task'[d].sid = x /\ task'[d].host = g
    BY SpendingIsConsuming, SpendingIsConsumingNext
  <2> QED BY <1>4, <1>6, <1>7, <2>1
<1>9. UNCHANGED sessions
  BY <1>3 DEF vars
<1>10. \A d \in Conn : task[d] # None => task[d].sid \in Sid /\ task[d].host \in Host
  BY TaskFields
<1>11. SessionsAreUsed'
  <2>1. \A d \in Conn : task'[d] # None => intents'[task'[d].sid] # 0
    BY <1>1, <1>4, <1>5, <1>10 DEF SessionsAreUsed
  <2> QED BY <1>5, <1>9, <2>1 DEF SessionsAreUsed
<1>12. ASSUME NEW d \in Conn, Creating(d)', intents'[task'[d].sid] = 1
       PROVE  /\ sessions'[task'[d].sid] = None
              /\ \A g \in Host : task'[d].sid \notin accepted'[g]
              /\ \A e \in Conn : task'[e] # None /\ task'[e].sid = task'[d].sid => e = d
  <2>1. CASE d = c
    <3>1. task'[d].sid = s /\ intents[s] = 0
      BY <1>1, <1>4, <1>5, <1>12, <2>1
    <3>2. sessions[s] = None /\ \A g \in Host : s \notin accepted[g]
      BY <3>1 DEF SessionsAreUsed
    <3>3. \A e \in Conn : task[e] # None => task[e].sid # s
      BY <3>1 DEF SessionsAreUsed
    <3> QED BY <1>4, <1>9, <2>1, <3>1, <3>2, <3>3
  <2>2. CASE d # c
    <3>1. task'[d] = task[d] /\ Creating(d) /\ task[d].sid \in Sid
      BY <1>4, <1>7, <1>10, <1>12, <2>2 DEF Creating
    <3>2. intents[task[d].sid] # 0
      BY <3>1 DEF SessionsAreUsed, Creating
    <3>3. task[d].sid # s /\ intents[task[d].sid] = 1
      BY <1>5, <1>12, <3>1, <3>2
    <3>4. /\ sessions[task[d].sid] = None
          /\ \A g \in Host : task[d].sid \notin accepted[g]
          /\ \A e \in Conn : task[e] # None /\ task[e].sid = task[d].sid => e = d
      BY <3>1, <3>3 DEF TasksPending
    <3> QED BY <1>1, <1>4, <1>9, <2>2, <3>1, <3>3, <3>4
  <2> QED BY <2>1, <2>2
<1>13. ASSUME NEW d \in Conn, Consuming(d)'
       PROVE  task'[d].sid \in accepted'[task'[d].host]
  <2>1. d # c /\ Consuming(d) /\ task'[d] = task[d]
    BY <1>4, <1>6, <1>7, <1>13
  <2>2. task[d].sid \in accepted[task[d].host] /\ task[d].sid \in Sid /\ task[d].host \in Host
    BY <1>10, <2>1 DEF TasksPending, Consuming
  <2>3. Spending(task[d].sid, task[d].host)
    BY <2>1, <2>2, SpendingIsConsuming
  <2> QED BY <2>1, <2>2, <2>3
<1>14. TasksPending'
  BY <1>12, <1>13 DEF TasksPending
<1> QED BY <1>1, <1>2, <1>3, <1>4, <1>5, <1>6, <1>8, <1>11, <1>14

\* An intent that does not come by the code.
LEMMA UngatedKeepsServerInv ==
    ASSUME ServerInv, ServerTypeOK', NEW c \in Conn, NEW s \in Sid, NEW h \in Host, NEW q \in SeqNo,
           task[c] = None, GoOn(c, s, h, q, FALSE), UNCHANGED <<otp, accepted, wrong>>
    PROVE  ServerInv'
<1> USE DEF ServerInv
<1>1. /\ UNCHANGED <<vars, admitted>>
      /\ SessionsAreUsed' /\ TasksPending'
      /\ \A x \in Sid : /\ x # s => intents'[x] = intents[x]
                        /\ x = s => intents'[x] # 0
                        /\ x = s /\ intents'[x] = 1 => intents[x] = 0
      /\ \A d \in Conn : d # c => task'[d] = task[d]
      /\ task'[c] # None /\ task'[c].sid = s
      /\ \A x \in Sid, g \in Host : Spending(x, g)' <=> Spending(x, g)
  BY GoOnKeepsTasks
<1>2. UNCHANGED sessions
  BY <1>1 DEF vars
<1>3. \A g \in Host : otp[g] # None => otp[g].session_intent_id \in Sid \cup {None}
  BY DEF ServerTypeOK, Row
<1>4. WrongIsCounted'
  BY DEF WrongIsCounted
<1>5. BoundToOwnSession'
  <2> SUFFICES ASSUME NEW g \in Host, NEW x \in Sid, otp'[g] # None,
                      otp'[g].session_intent_id = x
               PROVE  /\ intents'[x] # 0
                      /\ intents'[x] = 1 =>
                             /\ \A d \in Conn : task'[d] # None /\ task'[d].sid = x =>
                                    task'[d].host = g /\ (Creating(d)' => task'[d].by_code)
                             /\ sessions'[x] # None =>
                                    sessions'[x].host = g /\ admitted'[x] = g
                             /\ \A y \in Host : x \in accepted'[y] => admitted'[x] = g
    BY DEF BoundToOwnSession
  <2>1. intents[x] # 0
    BY DEF BoundToOwnSession
  <2>2. CASE x = s
    BY <1>1, <2>1, <2>2
  <2>3. CASE x # s
    <3>1. \A d \in Conn : task'[d] # None /\ task'[d].sid = x =>
              d # c /\ task'[d] = task[d] /\ (Creating(d)' <=> Creating(d))
      BY <1>1, <2>3 DEF Creating
    <3> QED BY <1>1, <1>2, <2>3, <3>1 DEF BoundToOwnSession
  <2> QED BY <2>2, <2>3
<1>6. AcceptSpendsBoundCode'
  <2> SUFFICES ASSUME NEW g \in Host, NEW x \in Sid, otp'[g] # None,
                      otp'[g].session_intent_id = x, x \in accepted'[g], ~Spending(x, g)'
               PROVE  otp'[g].consumed \/ otp'[g].ttl = 0
    BY DEF AcceptSpendsBoundCode, ServerTypeOK
  <2> QED BY <1>1 DEF AcceptSpendsBoundCode
<1>7. OnlyAdmissionSpends'
  <2> SUFFICES ASSUME NEW g \in Host, otp'[g] # None, otp'[g].consumed
               PROVE  LET x == otp'[g].session_intent_id IN
                      x \in accepted'[g] /\ (intents'[x] = 1 => admitted'[x] = g)
    BY DEF OnlyAdmissionSpends
  <2> DEFINE x == otp[g].session_intent_id
  <2>1. x \in accepted[g] /\ (intents[x] = 1 => admitted[x] = g) /\ x \in Sid
    BY DEF OnlyAdmissionSpends, ServerTypeOK
  <2>2. intents[x] # 0
    BY <2>1 DEF SessionsAreUsed
  <2>3. intents'[x] = 1 => intents[x] = 1
    BY <1>1, <2>1, <2>2
  <2> QED BY <1>1, <2>1, <2>3
<1> QED BY <1>1, <1>4, <1>5, <1>6, <1>7

\* An intent with the right code: its id may be that of a session that is
\* waiting, running or over.
LEMMA BindKeepsServerInv ==
    ASSUME ServerInv, ServerTypeOK', NEW c \in Conn, NEW s \in Sid, NEW h \in Host, NEW q \in SeqNo,
           PrefilterBind(c, s, h, q)
    PROVE  ServerInv'
<1> USE DEF ServerInv
<1> DEFINE row == [otp[h] EXCEPT !.session_intent_id = s]
<1>1. /\ otp[h] \in Row /\ otp[h] # None /\ ~otp[h].consumed /\ task[c] = None
      /\ GoOn(c, s, h, q, TRUE) /\ UNCHANGED wrong
      /\ otp' = [otp EXCEPT ![h] = row]
      /\ accepted' = IF Spending(s, h) THEN accepted
                     ELSE [accepted EXCEPT ![h] = accepted[h] \ {s}]
  <2>1. otp[h] \in Row /\ otp[h] # None /\ ~otp[h].consumed /\ task[c] = None
    BY DEF PrefilterBind, ActiveForHost, ServerTypeOK, CanIntend
  <2>2. GoOn(c, s, h, q, TRUE) /\ UNCHANGED wrong
    BY DEF PrefilterBind
  <2>3. otp' = [otp EXCEPT ![h] = row]
    BY DEF PrefilterBind
  <2>4. accepted' = IF Spending(s, h) THEN accepted
                    ELSE [accepted EXCEPT ![h] = accepted[h] \ {s}]
    BY DEF PrefilterBind
  <2> QED BY <2>1, <2>2, <2>3, <2>4
<1>2. /\ row \in Row /\ row.session_intent_id = s
      /\ row.consumed = otp[h].consumed /\ row.ttl = otp[h].ttl /\ row.attempts = otp[h].attempts
  BY <1>1 DEF Row
<1>3. row # None
  BY <1>2
<1> HIDE DEF row
<1>4. /\ otp'[h] = row
      /\ \A g \in Host : g # h => otp'[g] = otp[g] /\ accepted'[g] = accepted[g]
      /\ accepted'[h] \subseteq accepted[h]
      /\ \A x \in Sid : x \in accepted[h] /\ (x # s \/ Spending(s, h)) => x \in accepted'[h]
      /\ s \in accepted'[h] => Spending(s, h)
  BY <1>1 DEF ServerTypeOK
<1>5. \A g \in Host : /\ accepted'[g] \subseteq accepted[g]
                      /\ \A x \in Sid : x \in accepted[g] /\ Spending(x, g) => x \in accepted'[g]
  BY <1>4
<1>6. /\ UNCHANGED <<vars, admitted>>
      /\ SessionsAreUsed' /\ TasksPending'
      /\ \A x \in Sid : /\ x # s => intents'[x] = intents[x]
                        /\ x = s => intents'[x] # 0
                        /\ x = s /\ intents'[x] = 1 => intents[x] = 0
      /\ \A d \in Conn : d # c => task'[d] = task[d]
      /\ task'[c] # None /\ task'[c].sid = s /\ task'[c].host = h
      /\ Creating(c)' /\ task'[c].by_code
      /\ \A x \in Sid, g \in Host : Spending(x, g)' <=> Spending(x, g)
  BY <1>1, <1>5, GoOnKeepsTasks
<1>7. UNCHANGED sessions
  BY <1>6 DEF vars
<1>8. WrongIsCounted'
  BY <1>1, <1>2, <1>3, <1>4 DEF WrongIsCounted
<1>9. BoundToOwnSession'
  <2> SUFFICES ASSUME NEW g \in Host, NEW x \in Sid, otp'[g] # None,
                      otp'[g].session_intent_id = x
               PROVE  /\ intents'[x] # 0
                      /\ intents'[x] = 1 =>
                             /\ \A d \in Conn : task'[d] # None /\ task'[d].sid = x =>
                                    task'[d].host = g /\ (Creating(d)' => task'[d].by_code)
                             /\ sessions'[x] # None =>
                                    sessions'[x].host = g /\ admitted'[x] = g
                             /\ \A y \in Host : x \in accepted'[y] => admitted'[x] = g
    BY DEF BoundToOwnSession
  <2>1. CASE g = h
    <3>1. x = s
      BY <1>2, <1>4, <2>1
    <3>2. ASSUME intents'[s] = 1
          PROVE  /\ sessions'[s] = None
                 /\ \A y \in Host : s \notin accepted'[y]
                 /\ \A d \in Conn : task'[d] # None /\ task'[d].sid = s => d = c
      <4>1. intents[s] = 0
        BY <1>6, <3>2
      <4>2. /\ sessions[s] = None /\ \A y \in Host : s \notin accepted[y]
            /\ \A d \in Conn : task[d] # None => task[d].sid # s
        BY <4>1 DEF SessionsAreUsed
      <4> QED BY <1>5, <1>6, <1>7, <4>2
    <3> QED BY <1>6, <2>1, <3>1, <3>2
  <2>2. CASE g # h
    <3>1. otp[g] # None /\ otp[g].session_intent_id = x /\ intents[x] # 0
      BY <1>4, <2>2 DEF BoundToOwnSession
    <3>2. CASE x = s
      BY <1>6, <3>1, <3>2
    <3>3. CASE x # s
      <4>1. \A d \in Conn : task'[d] # None /\ task'[d].sid = x =>
                d # c /\ task'[d] = task[d] /\ (Creating(d)' <=> Creating(d))
        BY <1>6, <3>3 DEF Creating
      <4>2. \A y \in Host : x \in accepted'[y] => x \in accepted[y]
        BY <1>5
      <4> QED BY <1>6, <1>7, <3>1, <3>3, <4>1, <4>2 DEF BoundToOwnSession
    <3> QED BY <3>2, <3>3
  <2> QED BY <2>1, <2>2
<1>10. AcceptSpendsBoundCode'
  <2> SUFFICES ASSUME NEW g \in Host, NEW x \in Sid, otp'[g] # None,
                      otp'[g].session_intent_id = x, x \in accepted'[g], ~Spending(x, g)'
               PROVE  otp'[g].consumed \/ otp'[g].ttl = 0
    BY DEF AcceptSpendsBoundCode, ServerTypeOK
  <2>1. ~Spending(x, g)
    BY <1>6
  <2>2. g # h
    BY <1>2, <1>4, <2>1
  <2> QED BY <1>4, <2>1, <2>2 DEF AcceptSpendsBoundCode
<1>11. OnlyAdmissionSpends'
  <2> SUFFICES ASSUME NEW g \in Host, otp'[g] # None, otp'[g].consumed
               PROVE  LET x == otp'[g].session_intent_id IN
                      x \in accepted'[g] /\ (intents'[x] = 1 => admitted'[x] = g)
    BY DEF OnlyAdmissionSpends
  <2>1. g # h
    BY <1>1, <1>2, <1>4
  <2> DEFINE x == otp[g].session_intent_id
  <2>2. /\ otp'[g] = otp[g] /\ accepted'[g] = accepted[g]
        /\ x \in accepted[g] /\ (intents[x] = 1 => admitted[x] = g) /\ x \in Sid
    BY <1>4, <2>1 DEF OnlyAdmissionSpends, ServerTypeOK
  <2>3. intents[x] # 0
    BY <2>2 DEF SessionsAreUsed
  <2>4. intents'[x] = 1 => intents[x] = 1
    BY <1>6, <2>2, <2>3
  <2> QED BY <1>6, <2>2, <2>4
<1> QED BY <1>6, <1>8, <1>9, <1>10, <1>11

\* A step that changes codes only in their attempts and remaining life.
LEMMA RowsKeepServerInv ==
    ASSUME ServerInv, ServerTypeOK', NoNewSession, UNCHANGED <<task, intents, admitted, accepted>>,
           WrongIsCounted',
           \A g \in Host :
               /\ otp'[g] # None <=> otp[g] # None
               /\ otp'[g] # None =>
                     /\ otp'[g].consumed = otp[g].consumed
                     /\ otp[g].ttl = 0 => otp'[g].ttl = 0
                     /\ otp'[g].session_intent_id = otp[g].session_intent_id
    PROVE  ServerInv'
<1> USE DEF ServerInv
<1>2. SessionsAreUsed'
  BY DEF SessionsAreUsed, NoNewSession
<1>3. TasksPending'
  BY TaskFields DEF TasksPending, NoNewSession, Creating, Consuming
<1>4. BoundToOwnSession'
  BY DEF BoundToOwnSession, Creating, NoNewSession
<1>5. AcceptSpendsBoundCode'
  BY DEF AcceptSpendsBoundCode, Spending
<1>6. OnlyAdmissionSpends'
  BY DEF OnlyAdmissionSpends
<1> QED BY <1>2, <1>3, <1>4, <1>5, <1>6

\* A wrong guess.
LEMMA RejectKeepsServerInv ==
    ASSUME ServerInv, ServerTypeOK', NEW c \in Conn, NEW h \in Host, PrefilterReject(c, h)
    PROVE  ServerInv'
<1> USE DEF ServerInv
<1>1. /\ otp[h] \in Row /\ otp[h] # None
      /\ otp' = [otp EXCEPT ![h].attempts = otp[h].attempts + 1]
      /\ wrong' = [wrong EXCEPT ![h] = wrong[h] + 1]
      /\ otp[h].attempts < MaxOtpAttempts
      /\ UNCHANGED <<vars, task, intents, admitted, accepted>>
  BY DEF PrefilterReject, ActiveForHost, ServerTypeOK
<1> DEFINE row == [otp[h] EXCEPT !.attempts = otp[h].attempts + 1]
<1>2. /\ row \in Row /\ row.consumed = otp[h].consumed /\ row.ttl = otp[h].ttl
      /\ row.session_intent_id = otp[h].session_intent_id
      /\ row.attempts = otp[h].attempts + 1
  BY <1>1 DEF Row
<1>3. row # None
  BY <1>2
<1>4. otp' = [otp EXCEPT ![h] = row]
  BY <1>1
<1> HIDE DEF row
<1>5. \A g \in Host : otp'[g] = IF g = h THEN row ELSE otp[g]
  BY <1>2, <1>4 DEF ServerTypeOK
<1>6. WrongIsCounted'
  BY <1>1, <1>2, <1>3, <1>5 DEF ServerTypeOK, WrongIsCounted
<1>7. NoNewSession
  BY <1>1 DEF NoNewSession, vars
<1> QED BY <1>1, <1>2, <1>3, <1>5, <1>6, <1>7, RowsKeepServerInv

\* Time passes.
LEMMA TickKeepsServerInv ==
    ASSUME ServerInv, ServerTypeOK', ServerTick
    PROVE  ServerInv'
<1> USE DEF ServerInv
<1>1. ASSUME NEW g \in Host
      PROVE  /\ otp'[g] # None <=> otp[g] # None
             /\ otp'[g] # None =>
                   /\ otp'[g].consumed = otp[g].consumed
                   /\ otp[g].ttl = 0 => otp'[g].ttl = 0
                   /\ otp'[g].session_intent_id = otp[g].session_intent_id
                   /\ otp'[g].attempts = otp[g].attempts
  <2>1. CASE otp'[g] = otp[g]
    BY <2>1 DEF ServerTypeOK
  <2>2. CASE otp[g] # None /\ otp[g].ttl > 0 /\ otp'[g] = [otp[g] EXCEPT !.ttl = otp[g].ttl - 1]
    <3>1. otp[g] \in Row
      BY <2>2 DEF ServerTypeOK
    <3>2. /\ otp'[g] \in Row
          /\ otp'[g].consumed = otp[g].consumed
          /\ otp'[g].session_intent_id = otp[g].session_intent_id
          /\ otp'[g].attempts = otp[g].attempts
      BY <2>2, <3>1 DEF Row
    <3>3. otp'[g] # None
      BY <3>2
    <3> QED BY <2>2, <3>1, <3>2, <3>3 DEF Row
  <2> QED BY <2>1, <2>2 DEF ServerTick
<1>3. WrongIsCounted'
  BY <1>1 DEF ServerTick, ServerTypeOK, WrongIsCounted
<1>4. NoNewSession
  <2> SUFFICES ASSUME NEW x \in Sid, sessions'[x] # None
               PROVE  sessions[x] # None /\ sessions'[x].host = sessions[x].host
    BY DEF NoNewSession
  <2>1. sessions'[x] = Older(x)
    BY DEF ServerTick
  <2>2. sessions[x] # None /\ sessions[x] \in Session
    BY <2>1 DEF Older, ServerTypeOK, TypeOK
  <2> QED BY <2>1, <2>2 DEF Older, Session
<1> QED BY <1>1, <1>3, <1>4, RowsKeepServerInv DEF ServerTick

\* The second half of an intent's handler: the session is made, if the budget
\* allows, the host is free and can be told, and what the code let in is the
\* code's own host's.
LEMMA CreateKeepsServerInv ==
    ASSUME ServerInv, ServerTypeOK', NEW c \in Conn, IntentCreate(c)
    PROVE  ServerInv'
<1> DEFINE t == task[c]
<1> USE DEF ServerInv
<1>1. /\ task[c] # None /\ Creating(c)
      /\ task' = [task EXCEPT ![c] = None]
      /\ UNCHANGED <<otp, intents, accepted, wrong>>
  BY DEF IntentCreate, Creating
<1>2. t.sid \in Sid /\ t.host \in Host /\ t.by_code \in BOOLEAN /\ ~Consuming(c)
  BY <1>1, TaskFields
<1>3. /\ intents[t.sid] # 0
      /\ intents[t.sid] = 1 =>
             /\ sessions[t.sid] = None
             /\ \A g \in Host : t.sid \notin accepted[g]
             /\ \A d \in Conn : task[d] # None /\ task[d].sid = t.sid => d = c
  BY <1>1 DEF TasksPending, SessionsAreUsed
<1>4. \A d \in Conn : task'[d] = IF d = c THEN None ELSE task[d]
  BY <1>1 DEF ServerTypeOK
<1>5. /\ \A x \in Sid : x # t.sid =>
             /\ sessions'[x] # None => sessions[x] # None /\ sessions'[x].host = sessions[x].host
             /\ admitted'[x] = admitted[x]
      /\ sessions[t.sid] = None /\ sessions'[t.sid] # None =>
             /\ sessions'[t.sid].host = t.host
             /\ t.by_code => admitted'[t.sid] = t.host
  <2>1. CASE Reap /\ UNCHANGED admitted
    BY <1>2, <2>1, OnlyIntentsCreate DEF ServerTypeOK
  <2>2. CASE /\ CreatePendingSession(c, t.sid, t.host, t.seq)
             /\ admitted' = [admitted EXCEPT ![t.sid] =
                    IF t.by_code /\ link[host_by_public_id[t.host]] = "open"
                    THEN t.host ELSE None]
    <3>1. ASSUME NEW x \in Sid, x # t.sid
          PROVE  sessions'[x] = SessionsWithout(Reapable)[x]
      BY <1>2, <2>2, <3>1 DEF CreatePendingSession, SessionsWithout
    <3>2. CASE link[host_by_public_id[t.host]] = "open"
      <4> DEFINE p == PendingSession(c, t.host, t.seq)
      <4>1. p.host = t.host
        BY DEF PendingSession
      <4>2. sessions'[t.sid] = p
        BY <1>2, <2>2, <3>2 DEF CreatePendingSession, SessionsWithout
      <4> QED BY <1>2, <2>2, <3>1, <3>2, <4>1, <4>2 DEF ServerTypeOK, SessionsWithout
    <3>3. CASE link[host_by_public_id[t.host]] # "open"
      <4>1. sessions'[t.sid] = SessionsWithout(Reapable)[t.sid]
        BY <1>2, <2>2, <3>3 DEF CreatePendingSession, SessionsWithout
      <4> QED BY <1>2, <2>2, <3>1, <3>3, <4>1 DEF ServerTypeOK, SessionsWithout
    <3> QED BY <3>2, <3>3
  <2>3. CASE UNCHANGED <<vars, admitted>>
    BY <1>2, <2>3 DEF vars
  <2> QED BY <2>1, <2>2, <2>3 DEF IntentCreate
<1> HIDE DEF t
<1>6. \A d \in Conn : /\ Creating(d)' <=> (d # c /\ Creating(d))
                      /\ Consuming(d)' <=> Consuming(d)
  BY <1>2, <1>4 DEF Creating, Consuming
<1>7. SessionsAreUsed'
  <2>1. \A x \in Sid : sessions'[x] # None => intents'[x] # 0
    BY <1>1, <1>3, <1>5 DEF SessionsAreUsed
  <2> QED BY <1>1, <1>4, <2>1 DEF SessionsAreUsed
<1>8. TasksPending'
  <2>1. ASSUME NEW d \in Conn, Creating(d)', intents'[task'[d].sid] = 1
        PROVE  /\ sessions'[task'[d].sid] = None
               /\ \A g \in Host : task'[d].sid \notin accepted'[g]
               /\ \A e \in Conn : task'[e] # None /\ task'[e].sid = task'[d].sid => e = d
    <3>1. d # c /\ Creating(d) /\ task'[d] = task[d] /\ task[d].sid \in Sid
      BY <1>4, <1>6, <2>1, TaskFields DEF Creating
    <3>2. /\ sessions[task[d].sid] = None
          /\ \A g \in Host : task[d].sid \notin accepted[g]
          /\ \A e \in Conn : task[e] # None /\ task[e].sid = task[d].sid => e = d
      BY <1>1, <2>1, <3>1 DEF TasksPending
    <3>3. task[d].sid # t.sid
      BY <1>1, <3>1, <3>2 DEF t
    <3> QED BY <1>1, <1>4, <1>5, <3>1, <3>2, <3>3
  <2>2. ASSUME NEW d \in Conn, Consuming(d)'
        PROVE  task'[d].sid \in accepted'[task'[d].host]
    BY <1>1, <1>2, <1>4, <1>6, <2>2 DEF TasksPending
  <2> QED BY <2>1, <2>2 DEF TasksPending
<1>9. WrongIsCounted'
  BY <1>1 DEF WrongIsCounted
<1>10. BoundToOwnSession'
  <2> SUFFICES ASSUME NEW g \in Host, NEW x \in Sid, otp'[g] # None,
                      otp'[g].session_intent_id = x
               PROVE  /\ intents'[x] # 0
                      /\ intents'[x] = 1 =>
                             /\ \A d \in Conn : task'[d] # None /\ task'[d].sid = x =>
                                    task'[d].host = g /\ (Creating(d)' => task'[d].by_code)
                             /\ sessions'[x] # None =>
                                    sessions'[x].host = g /\ admitted'[x] = g
                             /\ \A y \in Host : x \in accepted'[y] => admitted'[x] = g
    BY DEF BoundToOwnSession
  <2>1. /\ intents[x] # 0
        /\ intents[x] = 1 =>
               /\ \A d \in Conn : task[d] # None /\ task[d].sid = x =>
                      task[d].host = g /\ (Creating(d) => task[d].by_code)
               /\ sessions[x] # None => sessions[x].host = g /\ admitted[x] = g
               /\ \A y \in Host : x \in accepted[y] => admitted[x] = g
    BY <1>1 DEF BoundToOwnSession
  <2>2. \A d \in Conn : task'[d] # None => task'[d] = task[d] /\ (Creating(d)' => Creating(d))
    BY <1>4, <1>6
  <2>3. CASE x = t.sid
    <3>1. intents[x] = 1 => t.host = g /\ t.by_code
      BY <1>1, <2>1, <2>3 DEF t
    <3> QED BY <1>1, <1>3, <1>5, <2>1, <2>2, <2>3, <3>1
  <2>4. CASE x # t.sid
    BY <1>1, <1>5, <2>1, <2>2, <2>4
  <2> QED BY <2>3, <2>4
<1>11. AcceptSpendsBoundCode'
  <2> SUFFICES ASSUME NEW g \in Host, NEW x \in Sid, otp'[g] # None,
                      otp'[g].session_intent_id = x, x \in accepted'[g], ~Spending(x, g)'
               PROVE  otp'[g].consumed \/ otp'[g].ttl = 0
    BY DEF AcceptSpendsBoundCode, ServerTypeOK
  <2>1. /\ Spending(x, g) <=>
               \E d \in Conn : Consuming(d) /\ task[d].sid = x /\ task[d].host = g
        /\ Spending(x, g)' <=>
               \E d \in Conn : Consuming(d)' /\ task'[d].sid = x /\ task'[d].host = g
    BY SpendingIsConsuming, SpendingIsConsumingNext
  <2>2. ~Spending(x, g)
    BY <1>2, <1>4, <1>6, <2>1
  <2> QED BY <1>1, <2>2 DEF AcceptSpendsBoundCode
<1>12. OnlyAdmissionSpends'
  <2> SUFFICES ASSUME NEW g \in Host, otp'[g] # None, otp'[g].consumed
               PROVE  LET x == otp'[g].session_intent_id IN
                      x \in accepted'[g] /\ (intents'[x] = 1 => admitted'[x] = g)
    BY DEF OnlyAdmissionSpends
  <2> DEFINE x == otp[g].session_intent_id
  <2>1. x \in accepted[g] /\ (intents[x] = 1 => admitted[x] = g) /\ x \in Sid
    BY <1>1 DEF OnlyAdmissionSpends, ServerTypeOK
  <2>2. intents[x] = 1 => x # t.sid
    BY <1>3, <2>1
  <2> QED BY <1>1, <1>5, <2>1, <2>2
<1> QED BY <1>7, <1>8, <1>9, <1>10, <1>11, <1>12

\* The first half of an accept: the accepted session is the host's own.
LEMMA AcceptKeepsServerInv ==
    ASSUME ServerInv, PartiesConnected, ServerTypeOK',
           NEW c \in Conn, NEW s \in Sid, NEW q \in SeqNo, HandleAccept(c, s, q)
    PROVE  ServerInv'
<1> DEFINE h == identity[c].host
           t == [step |-> "consume", sid |-> s, host |-> h]
<1> USE DEF ServerInv
<1>1. /\ AcceptSession(c, s, q) /\ accepted' = [accepted EXCEPT ![h] = accepted[h] \cup {s}]
      /\ task' = [task EXCEPT ![c] = t] /\ task[c] = None
      /\ UNCHANGED <<otp, intents, admitted, wrong>>
  BY DEF HandleAccept
<1>2. sessions[s] # None /\ sessions[s] \in Session /\ sessions[s].host_conn = c
  BY <1>1 DEF AcceptSession, LiveIn, ServerTypeOK, TypeOK
<1>3. h = sessions[s].host /\ h \in Host
  <2>1. identity[c] = HostId(sessions[s].host) /\ sessions[s].host \in Host
    BY <1>2 DEF PartiesConnected, Session
  <2> QED BY <2>1 DEF HostId
<1>4. t \in Task /\ t.sid = s /\ t.host = h /\ t.step = "consume"
  BY <1>3 DEF Task
<1>5. t # None
  BY <1>4
<1> HIDE DEF t, h
<1>6. NoNewSession
  BY <1>1, OnlyIntentsCreate DEF NoNewSession, ServerTypeOK
<1>7. intents[s] # 0
  BY <1>2 DEF SessionsAreUsed
<1>8. \A d \in Conn : task'[d] = IF d = c THEN t ELSE task[d]
  BY <1>1 DEF ServerTypeOK
<1>9. /\ \A g \in Host : /\ g # h => accepted'[g] = accepted[g]
                         /\ accepted[g] \subseteq accepted'[g]
                         /\ accepted'[g] \subseteq accepted[g] \cup {s}
      /\ s \in accepted'[h]
  BY <1>1, <1>3 DEF ServerTypeOK
<1>10. \A d \in Conn : /\ Creating(d)' => d # c /\ Creating(d)
                       /\ Consuming(d)' <=> (d = c \/ Consuming(d))
  BY <1>1, <1>4, <1>5, <1>8 DEF Creating, Consuming
<1>11. SessionsAreUsed' /\ WrongIsCounted'
  <2>1. SessionsAreUsed'
    BY <1>1, <1>4, <1>6, <1>7, <1>8, <1>9 DEF SessionsAreUsed, NoNewSession
  <2>2. WrongIsCounted'
    BY <1>1 DEF WrongIsCounted
  <2> QED BY <2>1, <2>2
<1>12. TasksPending'
  <2>1. ASSUME NEW d \in Conn, Creating(d)', intents'[task'[d].sid] = 1
        PROVE  /\ sessions'[task'[d].sid] = None
               /\ \A g \in Host : task'[d].sid \notin accepted'[g]
               /\ \A e \in Conn : task'[e] # None /\ task'[e].sid = task'[d].sid => e = d
    <3>1. d # c /\ Creating(d) /\ task'[d] = task[d] /\ task[d].sid \in Sid
      BY <1>8, <1>10, <2>1, TaskFields DEF Creating
    <3>2. /\ sessions[task[d].sid] = None
          /\ \A g \in Host : task[d].sid \notin accepted[g]
          /\ \A e \in Conn : task[e] # None /\ task[e].sid = task[d].sid => e = d
      BY <1>1, <2>1, <3>1 DEF TasksPending
    <3>3. task[d].sid # s
      BY <1>2, <3>2
    <3> QED BY <1>4, <1>6, <1>8, <1>9, <3>1, <3>2, <3>3 DEF NoNewSession
  <2>2. ASSUME NEW d \in Conn, Consuming(d)'
        PROVE  task'[d].sid \in accepted'[task'[d].host]
    <3>1. CASE d = c
      BY <1>4, <1>8, <1>9, <3>1
    <3>2. CASE d # c
      <4>1. Consuming(d) /\ task'[d] = task[d] /\ task[d].host \in Host
        BY <1>8, <1>10, <2>2, <3>2, TaskFields DEF Consuming
      <4> QED BY <1>9, <4>1 DEF TasksPending
    <3> QED BY <3>1, <3>2
  <2> QED BY <2>1, <2>2 DEF TasksPending
<1>13. BoundToOwnSession'
  <2> SUFFICES ASSUME NEW g \in Host, NEW x \in Sid, otp'[g] # None,
                      otp'[g].session_intent_id = x
               PROVE  /\ intents'[x] # 0
                      /\ intents'[x] = 1 =>
                             /\ \A d \in Conn : task'[d] # None /\ task'[d].sid = x =>
                                    task'[d].host = g /\ (Creating(d)' => task'[d].by_code)
                             /\ sessions'[x] # None =>
                                    sessions'[x].host = g /\ admitted'[x] = g
                             /\ \A y \in Host : x \in accepted'[y] => admitted'[x] = g
    BY DEF BoundToOwnSession
  <2>1. /\ intents[x] # 0
        /\ intents[x] = 1 =>
               /\ \A d \in Conn : task[d] # None /\ task[d].sid = x =>
                      task[d].host = g /\ (Creating(d) => task[d].by_code)
               /\ sessions[x] # None => sessions[x].host = g /\ admitted[x] = g
               /\ \A y \in Host : x \in accepted[y] => admitted[x] = g
    BY <1>1 DEF BoundToOwnSession
  <2>2. ASSUME intents[x] = 1, NEW d \in Conn, task'[d] # None, task'[d].sid = x
        PROVE  task'[d].host = g /\ (Creating(d)' => task'[d].by_code)
    BY <1>2, <1>3, <1>4, <1>8, <1>10, <2>1, <2>2
  <2>3. intents[x] = 1 /\ sessions'[x] # None => sessions'[x].host = g /\ admitted'[x] = g
    BY <1>1, <1>6, <2>1 DEF NoNewSession
  <2>4. ASSUME intents[x] = 1, NEW y \in Host, x \in accepted'[y]
        PROVE  admitted'[x] = g
    BY <1>1, <1>2, <1>9, <2>1, <2>4
  <2> QED BY <1>1, <2>1, <2>2, <2>3, <2>4
<1>14. AcceptSpendsBoundCode'
  <2> SUFFICES ASSUME NEW g \in Host, NEW x \in Sid, otp'[g] # None,
                      otp'[g].session_intent_id = x, x \in accepted'[g], ~Spending(x, g)'
               PROVE  otp'[g].consumed \/ otp'[g].ttl = 0
    BY DEF AcceptSpendsBoundCode, ServerTypeOK
  <2>1. /\ Spending(x, g) <=>
               \E d \in Conn : Consuming(d) /\ task[d].sid = x /\ task[d].host = g
        /\ Spending(x, g)' <=>
               \E d \in Conn : Consuming(d)' /\ task'[d].sid = x /\ task'[d].host = g
    BY SpendingIsConsuming, SpendingIsConsumingNext
  <2>2. ~(x = s /\ g = h)
    BY <1>4, <1>8, <1>10, <2>1
  <2>3. ~Spending(x, g)
    BY <1>1, <1>8, <1>10, <2>1 DEF Consuming
  <2>4. x \in accepted[g]
    BY <1>9, <2>2
  <2> QED BY <1>1, <2>3, <2>4 DEF AcceptSpendsBoundCode
<1>15. OnlyAdmissionSpends'
  BY <1>1, <1>9 DEF OnlyAdmissionSpends
<1> QED BY <1>11, <1>12, <1>13, <1>14, <1>15

\* The second half of an accept: the code bound to the session is spent, and
\* if the id was used once, it is the code that let the session in.
LEMMA ConsumeKeepsServerInv ==
    ASSUME ServerInv, ServerTypeOK', NEW c \in Conn, ConsumeForSession(c)
    PROVE  ServerInv'
<1> DEFINE t == task[c]
           h == t.host
           spends == /\ otp[h] # None /\ otp[h].session_intent_id = t.sid
                     /\ ~otp[h].consumed /\ otp[h].ttl > 0
           row == [otp[h] EXCEPT !.consumed = TRUE]
<1> USE DEF ServerInv
<1>1. /\ task[c] # None /\ Consuming(c)
      /\ otp' = IF spends THEN [otp EXCEPT ![h] = row] ELSE otp
      /\ task' = [task EXCEPT ![c] = None]
      /\ UNCHANGED <<vars, intents, admitted, accepted, wrong>>
  BY DEF ConsumeForSession, Consuming
<1>2. t.sid \in Sid /\ h \in Host
  BY <1>1, TaskFields
<1>3. spends => /\ row \in Row /\ row.consumed = TRUE /\ row.ttl = otp[h].ttl
                /\ row.attempts = otp[h].attempts
                /\ row.session_intent_id = otp[h].session_intent_id
  <2>1. spends => otp[h] \in Row
    BY <1>2 DEF ServerTypeOK
  <2> QED BY <2>1 DEF Row
<1>4. spends => row # None
  BY <1>3
<1> HIDE DEF row
<1>5. ASSUME NEW g \in Host
      PROVE  /\ otp'[g] \in Row \cup {None}
             /\ otp'[g] # None <=> otp[g] # None
             /\ otp'[g] # None =>
                   /\ otp'[g].session_intent_id = otp[g].session_intent_id
                   /\ otp'[g].attempts = otp[g].attempts
                   /\ otp'[g].ttl = otp[g].ttl
                   /\ otp[g].consumed => otp'[g].consumed
                   /\ otp'[g].consumed => otp[g].consumed \/ (spends /\ g = h)
             /\ g = h /\ spends => otp'[g].consumed
  <2>1. CASE g = h /\ spends
    BY <1>1, <1>2, <1>3, <1>4, <2>1 DEF ServerTypeOK
  <2>2. CASE ~(g = h /\ spends)
    <3>1. otp'[g] = otp[g]
      BY <1>1, <1>2, <2>2 DEF ServerTypeOK
    <3> QED BY <2>2, <3>1 DEF ServerTypeOK
  <2> QED BY <2>1, <2>2
<1>6. \A d \in Conn : /\ task'[d] = IF d = c THEN None ELSE task[d]
                      /\ Creating(d)' => Creating(d)
                      /\ Consuming(d)' <=> (d # c /\ Consuming(d))
  BY <1>1 DEF ServerTypeOK, Creating, Consuming
<1>7. UNCHANGED sessions
  BY <1>1 DEF vars
<1>8. SessionsAreUsed'
  BY <1>1, <1>6, <1>7 DEF SessionsAreUsed
<1>9. TasksPending'
  BY <1>1, <1>6, <1>7 DEF TasksPending, Creating, Consuming
<1>10. WrongIsCounted'
  BY <1>1, <1>5 DEF WrongIsCounted
<1>11. t.sid \in accepted[h]
  BY <1>1 DEF TasksPending
<1>12. BoundToOwnSession'
  <2>1. ASSUME NEW g \in Host, otp'[g] # None
        PROVE  otp[g] # None /\ otp'[g].session_intent_id = otp[g].session_intent_id
    BY <1>5, <2>1
  <2>2. \A d \in Conn : task'[d] # None => task'[d] = task[d] /\ (Creating(d)' => Creating(d))
    BY <1>6
  <2>3. UNCHANGED <<sessions, intents, admitted, accepted>>
    BY <1>1, <1>7
  <2> HIDE DEF t, h, spends
  <2> QED BY <2>1, <2>2, <2>3 DEF BoundToOwnSession
<1>13. AcceptSpendsBoundCode'
  <2> SUFFICES ASSUME NEW g \in Host, NEW x \in Sid, otp'[g] # None,
                      otp'[g].session_intent_id = x, x \in accepted'[g], ~Spending(x, g)'
               PROVE  otp'[g].consumed \/ otp'[g].ttl = 0
    BY DEF AcceptSpendsBoundCode, ServerTypeOK
  <2>1. /\ Spending(x, g) <=>
               \E d \in Conn : Consuming(d) /\ task[d].sid = x /\ task[d].host = g
        /\ Spending(x, g)' <=>
               \E d \in Conn : Consuming(d)' /\ task'[d].sid = x /\ task'[d].host = g
    BY SpendingIsConsuming, SpendingIsConsumingNext
  <2>2. CASE x = t.sid /\ g = h
    <3>1. otp[g] # None /\ otp[g] \in Row /\ otp[g].session_intent_id = x
      BY <1>5 DEF ServerTypeOK
    <3> QED BY <1>5, <2>2, <3>1 DEF Row
  <2>3. CASE ~(x = t.sid /\ g = h)
    <3>1. ~Spending(x, g)
      BY <1>6, <2>1, <2>3
    <3>2. otp[g] # None /\ otp[g].session_intent_id = x /\ x \in accepted[g]
      BY <1>1, <1>5
    <3>3. otp[g].consumed \/ otp[g].ttl = 0
      BY <3>1, <3>2 DEF AcceptSpendsBoundCode
    <3> QED BY <1>5, <3>3
  <2> QED BY <2>2, <2>3
<1>14. OnlyAdmissionSpends'
  <2> SUFFICES ASSUME NEW g \in Host, otp'[g] # None, otp'[g].consumed
               PROVE  LET x == otp'[g].session_intent_id IN
                      x \in accepted'[g] /\ (intents'[x] = 1 => admitted'[x] = g)
    BY DEF OnlyAdmissionSpends
  <2>1. CASE otp[g].consumed
    BY <1>1, <1>5, <2>1 DEF OnlyAdmissionSpends
  <2>2. CASE spends /\ g = h
    <3>1. intents[t.sid] = 1 => admitted[t.sid] = h
      BY <1>2, <1>11, <2>2 DEF BoundToOwnSession
    <3> QED BY <1>1, <1>5, <1>11, <2>2, <3>1
  <2> QED BY <1>5, <2>1, <2>2
<1> QED BY <1>8, <1>9, <1>10, <1>12, <1>13, <1>14

-----------------------------------------------------------------------------
\* ServerInv is inductive, given that the registry's parties are connected.
LEMMA ServerInvStep ==
    ASSUME ServerInv, PartiesConnected, ServerTypeOK', [ServerNext]_all_vars
    PROVE  ServerInv'
<1>1. TypeOK
  BY DEF ServerInv, ServerTypeOK
<1>2. ASSUME NEW h \in Host, StoreHash(h) PROVE ServerInv'
  BY <1>2, StoreHashKeepsServerInv
<1>3. ASSUME NEW c \in Conn, NEW s \in Sid, NEW h \in Host, NEW q \in SeqNo,
             NEW mode \in {"otp", "unattended"}, IntentUngated(c, s, h, q, mode)
      PROVE  ServerInv'
  <2>1. /\ task[c] = None /\ GoOn(c, s, h, q, FALSE)
        /\ UNCHANGED <<otp, accepted, wrong>>
    BY <1>3 DEF IntentUngated, CanIntend
  <2> QED BY <2>1, UngatedKeepsServerInv
<1>4. ASSUME NEW c \in Conn, NEW s \in Sid, NEW h \in Host, NEW q \in SeqNo,
             PrefilterBind(c, s, h, q)
      PROVE  ServerInv'
  BY <1>4, BindKeepsServerInv
<1>5. ASSUME NEW c \in Conn, NEW h \in Host, PrefilterReject(c, h)
      PROVE  ServerInv'
  BY <1>5, RejectKeepsServerInv
<1>6. ASSUME NEW c \in Conn, IntentCreate(c) PROVE ServerInv'
  BY <1>6, CreateKeepsServerInv
<1>7. ASSUME NEW c \in Conn, NEW s \in Sid, NEW q \in SeqNo, HandleAccept(c, s, q)
      PROVE  ServerInv'
  BY <1>7, AcceptKeepsServerInv
<1>8. ASSUME NEW c \in Conn, ConsumeForSession(c) PROVE ServerInv'
  BY <1>8, ConsumeKeepsServerInv
<1>9. ASSUME NEW c \in Conn, OtherHandler(c) PROVE ServerInv'
  <2>1. NoNewSession /\ UNCHANGED otp_vars
    BY <1>1, <1>9, OnlyIntentsCreate DEF OtherHandler, NoNewSession
  <2> QED BY <2>1, OtherKeepsServerInv
<1>10. CASE ((\E s \in Sid : ForceDisconnect(s)) \/ ReapExpired) /\ UNCHANGED otp_vars
  <2>1. NoNewSession
    BY <1>1, <1>10, OnlyIntentsCreate DEF ReapExpired, NoNewSession
  <2> QED BY <1>10, <2>1, OtherKeepsServerInv
<1>11. CASE ServerTick
  BY <1>11, TickKeepsServerInv
<1>12. CASE UNCHANGED all_vars
  <2>1. NoNewSession /\ UNCHANGED otp_vars
    BY <1>12 DEF all_vars, vars, NoNewSession
  <2> QED BY <2>1, OtherKeepsServerInv
<1> QED BY <1>2, <1>3, <1>4, <1>5, <1>6, <1>7, <1>8, <1>9, <1>10, <1>11, <1>12
        DEF ServerNext, IntentStep

\* The server runs the registry as the registry is specified (every route
\* into SessionRegistry's mutex is one of its steps), so what is proved of the
\* registry holds of the server.
THEOREM RegistryRefined == ServerSpec => Spec
<1>1. ServerInit => ServerTypeOK /\ Init
  <2> SUFFICES ASSUME ServerInit PROVE ServerTypeOK /\ Init
    OBVIOUS
  <2>1. Init /\ TypeOK
    BY DEF ServerInit, Init, TypeOK, Link
  <2> QED BY <2>1 DEF ServerInit, ServerTypeOK
<1>2. ServerTypeOK /\ [ServerNext]_all_vars => ServerTypeOK'
  BY ServerTypeStep
<1>3. ServerTypeOK /\ [ServerNext]_all_vars => [Next]_vars
  BY HandlerIsRegistryStep
<1> QED BY <1>1, <1>2, <1>3, PTL DEF ServerSpec, Spec

\* The server's variables keep their types.
THEOREM ServerTypeCorrect == ServerSpec => []ServerTypeOK
<1>1. ServerInit => ServerTypeOK
  <2> SUFFICES ASSUME ServerInit PROVE ServerTypeOK
    OBVIOUS
  <2>1. TypeOK
    BY DEF ServerInit, Init, TypeOK, Link
  <2> QED BY <2>1 DEF ServerInit, ServerTypeOK
<1>2. ServerTypeOK /\ [ServerNext]_all_vars => ServerTypeOK'
  BY ServerTypeStep
<1> QED BY <1>1, <1>2, PTL DEF ServerSpec

\* ServerInv holds always: the registry's parties are connected because the
\* server runs the registry.
THEOREM ServerInvCorrect == ServerSpec => []ServerInv
<1>1. ServerInit /\ ServerTypeOK => ServerInv
  <2> SUFFICES ASSUME ServerInit, ServerTypeOK PROVE ServerInv
    OBVIOUS
  <2>1. /\ \A s \in Sid : sessions[s] = None
        /\ \A h \in Host : otp[h] = None /\ wrong[h] = 0
        /\ \A c \in Conn : task[c] = None
        /\ \A h \in Host : accepted[h] = {}
    BY DEF ServerInit, Init
  <2> QED BY <2>1 DEF ServerInv, SessionsAreUsed, TasksPending, WrongIsCounted, BoundToOwnSession,
                      AcceptSpendsBoundCode, OnlyAdmissionSpends, Creating, Consuming
<1>2. ServerInv /\ PartiesConnected /\ ServerTypeOK' /\ [ServerNext]_all_vars => ServerInv'
  BY ServerInvStep
<1>3. ServerSpec => [](PartiesConnected /\ PresenceConnected)
  BY RegistryRefined, ConnectedCorrect
<1> QED BY <1>1, <1>2, <1>3, ServerTypeCorrect, PTL DEF ServerSpec

\* A code is checked against at most MAX_OTP_ATTEMPTS wrong guesses, however
\* many viewers guess at once and in whatever order (otp.rs prefilter_bind).
THEOREM GuessesCorrect == ServerSpec => []GuessesBounded
<1>1. ServerInv => GuessesBounded
  BY OtpAssumption DEF ServerInv, ServerTypeOK, Row, WrongIsCounted, GuessesBounded
<1> QED BY <1>1, ServerInvCorrect, PTL

\* A code is spent by the accept of the session it is bound to, and by
\* nothing else (otp.rs consume_for_session; ws.rs SessionAccept).
THEOREM CodesCorrect == ServerSpec => []CodesSpentRight
<1>1. ServerInv => CodesSpentRight
  BY DEF ServerInv, CodesSpentRight
<1> QED BY <1>1, ServerInvCorrect, PTL

=============================================================================
