--------------------------- MODULE ViewerProofs ---------------------------
(***************************************************************************)
(* Proofs about ViewerSession and ViewerWorker, for any capacities of the  *)
(* queues and any number of connects, events and messages.                 *)
(*                                                                         *)
(* A call on the session is a fold over its callback buffer; what holds of *)
(* each entry holds of the fold, because a set of numbers that contains 0  *)
(* and i with i - 1 contains all (NatMin, Climb, StepsStay).  Every call   *)
(* then is a step from a sound session to a sound one (Became).  Input is  *)
(* a line: what went out on the current connection is older than the       *)
(* waiting pointer position, which is older than the samples queued for    *)
(* the worker, which are older than the next event (InputInv); numbers     *)
(* taken, position and samples waiting never exceed the events so far.     *)
(***************************************************************************)
EXTENDS ViewerWorker, SequenceTheorems, WellFoundedInduction, TLAPS

-----------------------------------------------------------------------------
\* Folds.

\* A set of natural numbers has a least one.
LEMMA NatMin ==
    ASSUME NEW T, T \subseteq Nat, T # {}
    PROVE  \E x \in T : \A y \in T : x <= y
  <1>1. PICK x \in T : \A y \in T : ~ (<<y, x>> \in OpToRel(<, Nat))
    BY NatLessThanWellFounded, WFMin
  <1>2. \A y \in T : y < x => <<y, x>> \in OpToRel(<, Nat)
    BY DEF OpToRel
  <1>3. \A y \in T : x <= y
    <2> TAKE y \in T
    <2>1. x \in Nat /\ y \in Nat
      OBVIOUS
    <2>2. ~(y < x)
      BY <1>1, <1>2
    <2> QED BY <2>1, <2>2
  <1> QED BY <1>3

\* What holds first and is passed on holds to the end.
LEMMA Climb ==
    ASSUME NEW n \in Nat, NEW P,
           0 \in P, \A i \in 1 .. n : i - 1 \in P => i \in P
    PROVE  \A i \in 0 .. n : i \in P
  <1> SUFFICES ASSUME NEW i0 \in 0 .. n, i0 \notin P PROVE FALSE
    OBVIOUS
  <1> DEFINE T == {i \in 0 .. n : i \notin P}
  <1>1. T \subseteq Nat /\ T # {}
    OBVIOUS
  <1>2. PICK x \in T : \A y \in T : x <= y
    BY <1>1, NatMin
  <1>3. x \in 1 .. n /\ x - 1 \in 0 .. n
    BY <1>2
  <1>4. x - 1 \notin T
    BY <1>2, <1>3
  <1> QED BY <1>2, <1>3, <1>4

\* A function that is applied to what it made of the entries before.
Steps(G, v, b, n, f) ==
    f = [i \in 0 .. n |-> IF i = 0 THEN v ELSE G[<<f[i - 1], b[i]>>]]

\* Such a function exists, which lets the fold over a buffer (Each) be unfolded.
LEMMA StepsExist ==
    ASSUME NEW G, NEW v, NEW b, NEW n \in Nat
    PROVE  \E f : Steps(G, v, b, n, f)
  <1> DEFINE P == {m \in Nat : \E f : Steps(G, v, b, m, f)}
  <1>1. 0 \in P
    <2>1. Steps(G, v, b, 0, [i \in 0 .. 0 |-> v])
      BY DEF Steps
    <2> QED BY <2>1
  <1>2. ASSUME NEW m \in 1 .. n, m - 1 \in P PROVE m \in P
    <2>1. PICK f : Steps(G, v, b, m - 1, f)
      BY <1>2
    <2> DEFINE g == [i \in 0 .. m |-> IF i = m THEN G[<<f[m - 1], b[m]>>] ELSE f[i]]
    <2>2. \A i \in 0 .. m - 1 : g[i] = f[i] /\ f[i] = IF i = 0 THEN v ELSE G[<<f[i - 1], b[i]>>]
      BY <2>1 DEF Steps
    <2>3. \A i \in 0 .. m : g[i] = IF i = 0 THEN v ELSE G[<<g[i - 1], b[i]>>]
      <3> TAKE i \in 0 .. m
      <3>1. CASE i = m
        <4>1. m - 1 \in 0 .. m - 1 /\ m - 1 \in 0 .. m /\ m # 0 /\ m - 1 # m
          OBVIOUS
        <4>2. g[m] = G[<<f[m - 1], b[m]>>] /\ g[m - 1] = f[m - 1]
          BY <4>1
        <4> QED BY <3>1, <4>1, <4>2
      <3>2. CASE i # m
        <4>1. i \in 0 .. m - 1
          BY <3>2
        <4>2. g[i] = f[i] /\ f[i] = IF i = 0 THEN v ELSE G[<<f[i - 1], b[i]>>]
          BY <2>2, <4>1
        <4>3. i # 0 => i - 1 \in 0 .. m - 1
          BY <4>1
        <4>4. i # 0 => g[i - 1] = f[i - 1]
          BY <2>2, <4>3
        <4> QED BY <4>2, <4>4
      <3> QED BY <3>1, <3>2
    <2>4. Steps(G, v, b, m, g)
      BY <2>3 DEF Steps
    <2> QED BY <2>4
  <1> HIDE DEF P
  <1>3. \A i \in 0 .. n : i \in P
    BY <1>1, <1>2, Climb
  <1> QED BY <1>3 DEF P

\* Applied inside a set, it stays there.
LEMMA StepsStay ==
    ASSUME NEW R, NEW T, NEW G \in [R \X T -> R], NEW v \in R, NEW b \in Seq(T)
    PROVE  \E f : Steps(G, v, b, Len(b), f) /\ \A i \in 0 .. Len(b) : f[i] \in R
  <1>1. Len(b) \in Nat
    OBVIOUS
  <1>2. PICK f : Steps(G, v, b, Len(b), f)
    BY <1>1, StepsExist
  <1> DEFINE P == {i \in 0 .. Len(b) : f[i] \in R}
  <1>3. 0 \in P
    BY <1>1, <1>2 DEF Steps
  <1>4. ASSUME NEW i \in 1 .. Len(b), i - 1 \in P PROVE i \in P
    <2>1. i \in 0 .. Len(b) /\ i # 0 /\ b[i] \in T /\ f[i - 1] \in R
      BY <1>1, <1>4
    <2>2. f[i] = G[<<f[i - 1], b[i]>>]
      BY <1>2, <2>1 DEF Steps
    <2> QED BY <2>1, <2>2
  <1> HIDE DEF P
  <1>5. \A i \in 0 .. Len(b) : i \in P
    BY <1>1, <1>3, <1>4, Climb
  <1> QED BY <1>2, <1>5 DEF P

-----------------------------------------------------------------------------
\* The session.

Lost == {"failed", "disconnected", "closed"}
Told == {"new", "connecting", "connected"} \cup Lost
Changes == {"connected", "disconnected", "failed"}

\* What a transport calls back with.
Entry ==
    [kind : {"video"}, format : {"mock", "plain", "empty"}]
    \cup [kind : {"audio"}, format : {"pcm", "odd"}]
    \cup [kind : {"identity"}, ok : BOOLEAN, attempt : Nat]
    \cup [kind : {"state"}, s : Changes]
    \cup [kind : {"bad"}]

Capture == [focused : BOOLEAN, always : BOOLEAN, pending : Nat, due : BOOLEAN]

Viewer ==
    [phase : ViewerPhase, told : Told, attempt : Nat, sid : {"none", ConnectStub},
     authorized : BOOLEAN, bound : BOOLEAN, status : {"unbound", "pending", "bound"},
     buf : Seq(Entry), video : Seq(Nat), decoded : Nat,
     auto : BOOLEAN, audio : Seq(Nat), enqueued : Nat, dropped : Nat, played : Nat,
     seq : Nat, capture : Capture]

\* What a buffer holds of challenges came over connection a.
Fresh(q, a) == \A i \in 1 .. Len(q) : q[i].kind = "identity" => q[i].attempt = a

\* A queue holds the newest of n entries, and no more than it may.
Newest(q, n, cap) ==
    /\ Len(q) <= cap
    /\ \A i \in 1 .. Len(q) : q[i] = n - Len(q) + i

\* The session's media queues.
MediaOk(v) ==
    /\ Newest(v.video, v.decoded, VideoCap)
    /\ Len(v.audio) <= AudioCap
    /\ v.enqueued = v.played + v.dropped + Len(v.audio)

\* A phase that lets input through follows from what the transport told.
PhaseOk(v) == v.phase \in CanSendInput => v.told \notin Lost

\* A session between two calls.
ViewerOk(v) ==
    /\ v \in Viewer /\ MediaOk(v) /\ PhaseOk(v)
    /\ v.status = BindStatus(v)
    /\ Fresh(v.buf, v.attempt)

\* A bounded queue keeps the newest entries.
LEMMA PushKeepsNewest ==
    ASSUME NEW q \in Seq(Nat), NEW n \in Nat, NEW cap \in Nat \ {0}, Len(q) <= cap
    PROVE  /\ PushBounded(q, n + 1, cap) \in Seq(Nat)
           /\ Len(PushBounded(q, n + 1, cap)) = IF Len(q) >= cap THEN Len(q) ELSE Len(q) + 1
           /\ Newest(q, n, cap) => Newest(PushBounded(q, n + 1, cap), n + 1, cap)
  <1> DEFINE r == IF Len(q) >= cap THEN SubSeq(q, Len(q) - cap + 2, Len(q)) ELSE q
  <1>1. CASE Len(q) >= cap
    <2>1. Len(q) = cap /\ r = SubSeq(q, 2, cap) /\ cap \in Nat
      BY <1>1
    <2>2. /\ r \in Seq(Nat) /\ Len(r) = cap - 1
          /\ \A i \in 1 .. cap - 1 : r[i] = q[i + 1]
      <3> DEFINE u == SubSeq(q, 2, cap)
      <3>1. 2 \in Int /\ cap \in Int /\ \A i \in 2 .. cap : q[i] \in Nat
        BY <2>1
      <3>2. /\ u \in Seq(Nat) /\ Len(u) = IF 2 <= cap THEN cap - 2 + 1 ELSE 0
            /\ \A i \in 1 .. cap - 2 + 1 : u[i] = q[2 + i - 1]
        BY <3>1, SubSeqProperties
      <3> HIDE DEF u
      <3>3. r = u
        BY <2>1 DEF u
      <3> HIDE DEF r
      <3>4. cap - 2 + 1 = cap - 1 /\ \A i \in 1 .. cap - 1 : 2 + i - 1 = i + 1
        BY <2>1
      <3>5. Len(u) = cap - 1
        BY <2>1, <3>2
      <3> QED BY <3>2, <3>3, <3>4, <3>5
    <2> HIDE DEF r
    <2>3. PushBounded(q, n + 1, cap) = Append(r, n + 1)
      BY DEF PushBounded, r
    <2>4. /\ Append(r, n + 1) \in Seq(Nat) /\ Len(Append(r, n + 1)) = cap
          /\ \A i \in 1 .. cap : Append(r, n + 1)[i] = IF i = cap THEN n + 1 ELSE q[i + 1]
      BY <2>1, <2>2
    <2> DEFINE p == Append(r, n + 1)
    <2> HIDE DEF p
    <2>5. /\ p \in Seq(Nat) /\ Len(p) = cap
          /\ \A i \in 1 .. cap : p[i] = IF i = cap THEN n + 1 ELSE q[i + 1]
      BY <2>4 DEF p
    <2>6. ASSUME Newest(q, n, cap) PROVE Newest(p, n + 1, cap)
      <3>1. \A i \in 1 .. cap : q[i] = n - cap + i
        BY <2>1, <2>6 DEF Newest
      <3>2. ASSUME NEW i \in 1 .. cap PROVE p[i] = (n + 1) - cap + i
        <4>1. i # cap => i + 1 \in 1 .. cap
          BY <2>1
        <4>2. i # cap => q[i + 1] = n - cap + (i + 1)
          BY <3>1, <4>1
        <4> QED BY <2>5, <4>2
      <3> QED BY <2>5, <3>2 DEF Newest
    <2> QED BY <2>1, <2>3, <2>5, <2>6 DEF p
  <1>2. CASE ~(Len(q) >= cap)
    <2>1. PushBounded(q, n + 1, cap) = Append(q, n + 1)
      BY <1>2 DEF PushBounded
    <2>2. /\ Append(q, n + 1) \in Seq(Nat) /\ Len(Append(q, n + 1)) = Len(q) + 1
          /\ \A i \in 1 .. Len(q) + 1 :
                 Append(q, n + 1)[i] = IF i = Len(q) + 1 THEN n + 1 ELSE q[i]
      OBVIOUS
    <2> DEFINE p == Append(q, n + 1)
    <2> HIDE DEF p
    <2>3. /\ p \in Seq(Nat) /\ Len(p) = Len(q) + 1
          /\ \A i \in 1 .. Len(q) + 1 : p[i] = IF i = Len(q) + 1 THEN n + 1 ELSE q[i]
      BY <2>2 DEF p
    <2>4. ASSUME Newest(q, n, cap) PROVE Newest(p, n + 1, cap)
      <3>1. \A i \in 1 .. Len(q) : q[i] = n - Len(q) + i
        BY <2>4 DEF Newest
      <3>2. ASSUME NEW i \in 1 .. Len(q) + 1 PROVE p[i] = (n + 1) - (Len(q) + 1) + i
        BY <2>3, <3>1
      <3> QED BY <1>2, <2>3, <3>2 DEF Newest
    <2> QED BY <1>2, <2>1, <2>3, <2>4 DEF p
  <1> QED BY <1>1, <1>2

\* What callbacks leave alone: w is v with other news, phase and media.
Kept(v, w) ==
    /\ w.attempt = v.attempt /\ w.sid = v.sid /\ w.authorized = v.authorized
    /\ w.bound = v.bound /\ w.status = v.status /\ w.buf = v.buf /\ w.auto = v.auto
    /\ w.seq = v.seq /\ w.capture = v.capture
    /\ v.phase \in Lost => w.phase \in Lost

\* The sessions that callbacks can make of v.
Reach(v) == {w \in Viewer : MediaOk(w) /\ PhaseOk(w) /\ Kept(v, w)}

\* A state change: lost stays lost, and a phase that lets input through follows
\* from the change.
LEMMA HandleStateReach ==
    ASSUME NEW v, NEW w \in Reach(v), NEW e \in Entry
    PROVE  HandleState(w, e) \in Reach(v)
  <1>1. CASE e.kind # "state"
    BY <1>1 DEF HandleState
  <1>2. CASE e.kind = "state"
    <2> DEFINE ph == OnTransportState(w.phase, e.s)
    <2>1. w \in Viewer /\ MediaOk(w) /\ PhaseOk(w) /\ Kept(v, w)
      BY DEF Reach
    <2>2. e.s \in Changes /\ w.phase \in ViewerPhase
      BY <1>2, <2>1 DEF Entry, Viewer
    <2>3. /\ ph \in ViewerPhase
          /\ w.phase \in Lost => ph \in Lost
          /\ ph \in CanSendInput => e.s \notin Lost
      BY <2>2 DEF OnTransportState, ViewerPhase, Changes, Lost, Active, CanSendInput
    <2> HIDE DEF ph
    <2> DEFINE x == [w EXCEPT !.phase = ph, !.told = e.s]
    <2>4. HandleState(w, e) = x
      BY <1>2 DEF HandleState, ph
    <2>5. /\ x \in Viewer /\ x.phase = ph /\ x.told = e.s
          /\ x.attempt = w.attempt /\ x.sid = w.sid /\ x.authorized = w.authorized
          /\ x.bound = w.bound /\ x.status = w.status /\ x.buf = w.buf /\ x.auto = w.auto
          /\ x.seq = w.seq /\ x.capture = w.capture /\ x.video = w.video
          /\ x.decoded = w.decoded /\ x.audio = w.audio /\ x.enqueued = w.enqueued
          /\ x.dropped = w.dropped /\ x.played = w.played
      <3>1. e.s \in Told
        BY <2>2 DEF Changes, Told, Lost
      <3>2. x \in Viewer
        BY <2>1, <2>3, <3>1 DEF Viewer
      <3> QED BY <2>1, <3>2 DEF Viewer
    <2> HIDE DEF x
    <2> QED BY <2>1, <2>3, <2>4, <2>5 DEF Reach, MediaOk, PhaseOk, Kept
  <1> QED BY <1>1, <1>2

\* A track changes the phase, the queues and their counts.
LEMMA MediaReach ==
    ASSUME NEW v, NEW w \in Reach(v), NEW x \in Viewer, MediaOk(x),
           x.phase = OnMediaReceived(w.phase), x.told = w.told,
           x.attempt = w.attempt, x.sid = w.sid, x.authorized = w.authorized,
           x.bound = w.bound, x.status = w.status, x.buf = w.buf, x.auto = w.auto,
           x.seq = w.seq, x.capture = w.capture
    PROVE  x \in Reach(v)
  <1>1. w \in Viewer /\ PhaseOk(w) /\ Kept(v, w)
    BY DEF Reach
  <1>2. /\ x.phase \in CanSendInput => w.phase \in CanSendInput
        /\ w.phase \in Lost => x.phase \in Lost
    BY <1>1 DEF OnMediaReceived, CanSendInput, Lost
  <1> QED BY <1>1, <1>2 DEF Reach, PhaseOk, Kept

\* A frame.
LEMMA HandleVideoReach ==
    ASSUME NEW v, NEW w \in Reach(v)
    PROVE  HandleVideo(w) \in Reach(v)
  <1>1. w \in Viewer /\ MediaOk(w)
    BY DEF Reach
  <1> DEFINE q == PushBounded(w.video, w.decoded + 1, VideoCap)
             ph == OnMediaReceived(w.phase)
  <1>2. w.video \in Seq(Nat) /\ w.decoded \in Nat /\ w.phase \in ViewerPhase
    BY <1>1 DEF Viewer
  <1>3. q \in Seq(Nat) /\ Newest(q, w.decoded + 1, VideoCap)
    <2>1. Newest(w.video, w.decoded, VideoCap) /\ VideoCap \in Nat \ {0}
      BY <1>1, ViewerAssumption DEF MediaOk
    <2>2. Len(w.video) <= VideoCap
      BY <2>1 DEF Newest
    <2> QED BY <1>2, <2>1, <2>2, PushKeepsNewest
  <1>4. ph \in ViewerPhase
    BY <1>2 DEF OnMediaReceived, ViewerPhase
  <1> DEFINE d == w.decoded + 1
             x == [w EXCEPT !.decoded = d, !.video = q, !.phase = ph]
  <1>5. HandleVideo(w) = x
    BY DEF HandleVideo
  <1>a. d \in Nat
    BY <1>2
  <1> HIDE DEF q, ph, d
  <1>6. x \in Viewer
    BY <1>1, <1>a, <1>3, <1>4 DEF Viewer
  <1>7. /\ x.phase = ph /\ x.video = q /\ x.decoded = d /\ x.told = w.told
        /\ x.attempt = w.attempt /\ x.sid = w.sid /\ x.authorized = w.authorized
        /\ x.bound = w.bound /\ x.status = w.status /\ x.buf = w.buf /\ x.auto = w.auto
        /\ x.seq = w.seq /\ x.capture = w.capture /\ x.audio = w.audio
        /\ x.enqueued = w.enqueued /\ x.dropped = w.dropped /\ x.played = w.played
    BY <1>1 DEF Viewer
  <1> HIDE DEF x
  <1>8. MediaOk(x)
    BY <1>1, <1>3, <1>7 DEF MediaOk, d
  <1> QED BY <1>5, <1>6, <1>7, <1>8, MediaReach DEF ph

\* A packet is queued, at the cost of the oldest if the queue is full.
LEMMA PushPacketSound ==
    ASSUME NEW w \in Viewer, MediaOk(w)
    PROVE  LET x == PushPacket(w) IN
           /\ x \in Viewer /\ MediaOk(x) /\ x.audio # <<>>
           /\ x.phase = w.phase /\ x.told = w.told
           /\ x.attempt = w.attempt /\ x.sid = w.sid /\ x.authorized = w.authorized
           /\ x.bound = w.bound /\ x.status = w.status /\ x.buf = w.buf /\ x.auto = w.auto
           /\ x.seq = w.seq /\ x.capture = w.capture
  <1> DEFINE q == PushBounded(w.audio, w.enqueued + 1, AudioCap)
             d == IF Len(w.audio) >= AudioCap THEN 1 ELSE 0
  <1>1. /\ w.audio \in Seq(Nat) /\ w.enqueued \in Nat /\ w.dropped \in Nat /\ w.played \in Nat
        /\ Len(w.audio) <= AudioCap
        /\ w.enqueued = w.played + w.dropped + Len(w.audio)
    BY DEF Viewer, MediaOk
  <1>2. /\ q \in Seq(Nat)
        /\ Len(q) = IF Len(w.audio) >= AudioCap THEN Len(w.audio) ELSE Len(w.audio) + 1
    <2>1. AudioCap \in Nat \ {0}
      BY ViewerAssumption
    <2> QED BY <1>1, <2>1, PushKeepsNewest
  <1> DEFINE n == w.enqueued + 1
             m == w.dropped + d
             x == [w EXCEPT !.enqueued = n, !.dropped = m, !.audio = q]
  <1> HIDE DEF q
  <1>3. /\ Len(q) <= AudioCap /\ Len(q) > 0
        /\ n \in Nat /\ m \in Nat /\ n = w.played + m + Len(q)
    <2>1. AudioCap \in Nat \ {0} /\ Len(w.audio) \in Nat
      BY <1>1, ViewerAssumption
    <2>2. CASE Len(w.audio) >= AudioCap
      <3>1. d = 1 /\ Len(q) = Len(w.audio) /\ Len(q) = AudioCap
        BY <1>1, <1>2, <2>1, <2>2
      <3> QED BY <1>1, <2>1, <3>1
    <2>3. CASE ~(Len(w.audio) >= AudioCap)
      <3>1. d = 0 /\ Len(q) = Len(w.audio) + 1 /\ Len(w.audio) + 1 <= AudioCap
        BY <1>2, <2>1, <2>3
      <3>2. m = w.dropped /\ n \in Nat
        BY <1>1, <3>1
      <3> HIDE DEF m, n
      <3>3. n = w.played + w.dropped + (Len(w.audio) + 1)
        BY <1>1, <2>1 DEF n
      <3>4. Len(q) <= AudioCap /\ Len(q) > 0 /\ m \in Nat /\ n = w.played + m + Len(q)
        BY <1>1, <2>1, <3>1, <3>2, <3>3
      <3> QED BY <3>2, <3>4
    <2> QED BY <2>2, <2>3
  <1>4. PushPacket(w) = x
    BY DEF PushPacket, q
  <1> HIDE DEF n, m
  <1>5. x \in Viewer
    BY <1>2, <1>3 DEF Viewer
  <1>6. /\ x.enqueued = n /\ x.dropped = m /\ x.audio = q
        /\ x.played = w.played /\ x.video = w.video /\ x.decoded = w.decoded
        /\ x.phase = w.phase /\ x.told = w.told
        /\ x.attempt = w.attempt /\ x.sid = w.sid /\ x.authorized = w.authorized
        /\ x.bound = w.bound /\ x.status = w.status /\ x.buf = w.buf /\ x.auto = w.auto
        /\ x.seq = w.seq /\ x.capture = w.capture
    BY DEF Viewer
  <1> HIDE DEF x
  <1>7. MediaOk(x)
    BY <1>3, <1>6 DEF MediaOk
  <1>8. x.audio # <<>>
    BY <1>2, <1>3, <1>6
  <1> QED BY <1>4, <1>5, <1>6, <1>7, <1>8

\* The oldest packet is played.
LEMMA PlayOneSound ==
    ASSUME NEW w \in Viewer, MediaOk(w)
    PROVE  LET x == PlayOne(w) IN
           /\ x \in Viewer /\ MediaOk(x)
           /\ x.phase = w.phase /\ x.told = w.told
           /\ x.attempt = w.attempt /\ x.sid = w.sid /\ x.authorized = w.authorized
           /\ x.bound = w.bound /\ x.status = w.status /\ x.buf = w.buf /\ x.auto = w.auto
           /\ x.seq = w.seq /\ x.capture = w.capture
  <1>1. CASE w.audio = <<>>
    BY <1>1 DEF PlayOne
  <1>2. CASE w.audio # <<>>
    <2> DEFINE q == Tail(w.audio)
    <2>1. /\ w.audio \in Seq(Nat) /\ w.enqueued \in Nat /\ w.dropped \in Nat /\ w.played \in Nat
          /\ Len(w.audio) <= AudioCap
          /\ w.enqueued = w.played + w.dropped + Len(w.audio)
      BY DEF Viewer, MediaOk
    <2>2. q \in Seq(Nat) /\ Len(q) = Len(w.audio) - 1
      BY <1>2, <2>1
    <2>3. /\ Len(q) <= AudioCap
          /\ w.enqueued = (w.played + 1) + w.dropped + Len(q)
      BY <2>1, <2>2, ViewerAssumption
    <2> DEFINE n == w.played + 1
               x == [w EXCEPT !.audio = q, !.played = n]
    <2>4. PlayOne(w) = x
      BY <1>2 DEF PlayOne
    <2>a. n \in Nat
      BY <2>1
    <2> HIDE DEF q, n
    <2>5. x \in Viewer
      BY <2>2, <2>a DEF Viewer
    <2>6. /\ x.audio = q /\ x.played = n /\ x.enqueued = w.enqueued
          /\ x.dropped = w.dropped /\ x.video = w.video /\ x.decoded = w.decoded
          /\ x.phase = w.phase /\ x.told = w.told
          /\ x.attempt = w.attempt /\ x.sid = w.sid /\ x.authorized = w.authorized
          /\ x.bound = w.bound /\ x.status = w.status /\ x.buf = w.buf /\ x.auto = w.auto
          /\ x.seq = w.seq /\ x.capture = w.capture
      BY DEF Viewer
    <2> HIDE DEF x
    <2>7. MediaOk(x)
      BY <2>3, <2>6 DEF MediaOk, n
    <2> QED BY <2>4, <2>5, <2>6, <2>7
  <1> QED BY <1>1, <1>2

\* A packet, put in the playout queue and played at once or left there.
LEMMA HandleAudioReach ==
    ASSUME NEW v, NEW w \in Reach(v)
    PROVE  HandleAudio(w) \in Reach(v)
  <1>1. w \in Viewer /\ MediaOk(w)
    BY DEF Reach
  <1> DEFINE p == PushPacket(w)
             q == IF w.auto THEN PlayOne(p) ELSE p
             ph == OnMediaReceived(q.phase)
             x == [q EXCEPT !.phase = ph]
  <1>2. /\ p \in Viewer /\ MediaOk(p)
        /\ p.phase = w.phase /\ p.told = w.told
        /\ p.attempt = w.attempt /\ p.sid = w.sid /\ p.authorized = w.authorized
        /\ p.bound = w.bound /\ p.status = w.status /\ p.buf = w.buf /\ p.auto = w.auto
        /\ p.seq = w.seq /\ p.capture = w.capture
    BY <1>1, PushPacketSound
  <1> HIDE DEF p
  <1>3. /\ q \in Viewer /\ MediaOk(q)
        /\ q.phase = w.phase /\ q.told = w.told
        /\ q.attempt = w.attempt /\ q.sid = w.sid /\ q.authorized = w.authorized
        /\ q.bound = w.bound /\ q.status = w.status /\ q.buf = w.buf /\ q.auto = w.auto
        /\ q.seq = w.seq /\ q.capture = w.capture
    BY <1>2, PlayOneSound
  <1>4. HandleAudio(w) = x
    BY DEF HandleAudio, p
  <1> HIDE DEF q
  <1>5. ph \in ViewerPhase
    BY <1>1, <1>3 DEF OnMediaReceived, ViewerPhase, Viewer
  <1>6. x \in Viewer
    BY <1>3, <1>5 DEF Viewer
  <1>7. /\ x.phase = OnMediaReceived(w.phase) /\ x.told = q.told
        /\ x.attempt = q.attempt /\ x.sid = q.sid /\ x.authorized = q.authorized
        /\ x.bound = q.bound /\ x.status = q.status /\ x.buf = q.buf /\ x.auto = q.auto
        /\ x.seq = q.seq /\ x.capture = q.capture /\ x.audio = q.audio /\ x.played = q.played
        /\ x.enqueued = q.enqueued /\ x.dropped = q.dropped
        /\ x.video = q.video /\ x.decoded = q.decoded
    BY <1>3 DEF Viewer
  <1> HIDE DEF x
  <1>8. MediaOk(x)
    BY <1>3, <1>7 DEF MediaOk
  <1> QED BY <1>3, <1>4, <1>6, <1>7, <1>8, MediaReach

\* A unit of a track, decodable or not.
LEMMA HandleTrackReach ==
    ASSUME NEW v, NEW w \in Reach(v), NEW e \in Entry
    PROVE  HandleTrack(w, e) \in Reach(v)
  BY HandleVideoReach, HandleAudioReach DEF HandleTrack

\* All state changes of a buffer.
LEMMA EachStateReach ==
    ASSUME NEW v, NEW w \in Reach(v), NEW b \in Seq(Entry)
    PROVE  Each(HandleState, w, b) \in Reach(v)
  <1> DEFINE R == Reach(v)
             n == Len(b)
             Is(a) == a = [i \in 0 .. n |-> IF i = 0 THEN w ELSE HandleState(a[i - 1], b[i])]
             G == [x \in R \X Entry |-> HandleState(x[1], x[2])]
             after == CHOOSE a : Is(a)
  <1>1. Each(HandleState, w, b) = after[n]
    BY DEF Each
  <1>2. \A x \in R, e \in Entry : HandleState(x, e) \in R
    BY HandleStateReach
  <1> HIDE DEF R
  <1>3. n \in Nat /\ w \in R /\ \A i \in 1 .. n : b[i] \in Entry
    BY DEF R
  <1>4. G \in [R \X Entry -> R]
    BY <1>2
  <1>5. \A x \in R, e \in Entry : G[<<x, e>>] = HandleState(x, e)
    OBVIOUS
  <1> HIDE DEF G
  <1>6. PICK f : Steps(G, w, b, n, f) /\ \A i \in 0 .. n : f[i] \in R
    BY <1>3, <1>4, StepsStay
  <1>7. Is(f)
    <2>1. ASSUME NEW i \in 0 .. n, i # 0 PROVE G[<<f[i - 1], b[i]>>] = HandleState(f[i - 1], b[i])
      <3>1. i - 1 \in 0 .. n /\ i \in 1 .. n
        BY <1>3, <2>1
      <3> QED BY <1>3, <1>5, <1>6, <3>1
    <2>2. f = [i \in 0 .. n |-> IF i = 0 THEN w ELSE G[<<f[i - 1], b[i]>>]]
      BY <1>6 DEF Steps
    <2>3. [i \in 0 .. n |-> IF i = 0 THEN w ELSE G[<<f[i - 1], b[i]>>]]
              = [i \in 0 .. n |-> IF i = 0 THEN w ELSE HandleState(f[i - 1], b[i])]
      BY <2>1
    <2> QED BY <2>2, <2>3
  <1>8. Is(after)
    BY <1>7
  <1> DEFINE P == {i \in 0 .. n : after[i] \in R}
  <1> HIDE DEF after
  <1>9. /\ after[0] = w
        /\ \A i \in 1 .. n : after[i] = HandleState(after[i - 1], b[i])
    BY <1>3, <1>8
  <1>10. 0 \in P
    BY <1>3, <1>9
  <1>11. ASSUME NEW i \in 1 .. n, i - 1 \in P PROVE i \in P
    <2>1. i \in 0 .. n /\ after[i - 1] \in R /\ b[i] \in Entry
      BY <1>3, <1>11
    <2> QED BY <1>2, <1>9, <2>1
  <1> HIDE DEF P
  <1>12. n \in P
    <2> HIDE DEF n
    <2>1. n \in Nat
      BY <1>3
    <2>2. \A i \in 0 .. n : i \in P
      BY <2>1, <1>10, <1>11, Climb
    <2> QED BY <2>1, <2>2
  <1> QED BY <1>1, <1>12 DEF P, R

\* All units of a buffer.
LEMMA EachTrackReach ==
    ASSUME NEW v, NEW w \in Reach(v), NEW b \in Seq(Entry)
    PROVE  Each(HandleTrack, w, b) \in Reach(v)
  <1> DEFINE R == Reach(v)
             n == Len(b)
             Is(a) == a = [i \in 0 .. n |-> IF i = 0 THEN w ELSE HandleTrack(a[i - 1], b[i])]
             G == [x \in R \X Entry |-> HandleTrack(x[1], x[2])]
             after == CHOOSE a : Is(a)
  <1>1. Each(HandleTrack, w, b) = after[n]
    BY DEF Each
  <1>2. \A x \in R, e \in Entry : HandleTrack(x, e) \in R
    BY HandleTrackReach
  <1> HIDE DEF R
  <1>3. n \in Nat /\ w \in R /\ \A i \in 1 .. n : b[i] \in Entry
    BY DEF R
  <1>4. G \in [R \X Entry -> R]
    BY <1>2
  <1>5. \A x \in R, e \in Entry : G[<<x, e>>] = HandleTrack(x, e)
    OBVIOUS
  <1> HIDE DEF G
  <1>6. PICK f : Steps(G, w, b, n, f) /\ \A i \in 0 .. n : f[i] \in R
    BY <1>3, <1>4, StepsStay
  <1>7. Is(f)
    <2>1. ASSUME NEW i \in 0 .. n, i # 0 PROVE G[<<f[i - 1], b[i]>>] = HandleTrack(f[i - 1], b[i])
      <3>1. i - 1 \in 0 .. n /\ i \in 1 .. n
        BY <1>3, <2>1
      <3> QED BY <1>3, <1>5, <1>6, <3>1
    <2>2. f = [i \in 0 .. n |-> IF i = 0 THEN w ELSE G[<<f[i - 1], b[i]>>]]
      BY <1>6 DEF Steps
    <2>3. [i \in 0 .. n |-> IF i = 0 THEN w ELSE G[<<f[i - 1], b[i]>>]]
              = [i \in 0 .. n |-> IF i = 0 THEN w ELSE HandleTrack(f[i - 1], b[i])]
      BY <2>1
    <2> QED BY <2>2, <2>3
  <1>8. Is(after)
    BY <1>7
  <1> DEFINE P == {i \in 0 .. n : after[i] \in R}
  <1> HIDE DEF after
  <1>9. /\ after[0] = w
        /\ \A i \in 1 .. n : after[i] = HandleTrack(after[i - 1], b[i])
    BY <1>3, <1>8
  <1>10. 0 \in P
    BY <1>3, <1>9
  <1>11. ASSUME NEW i \in 1 .. n, i - 1 \in P PROVE i \in P
    <2>1. i \in 0 .. n /\ after[i - 1] \in R /\ b[i] \in Entry
      BY <1>3, <1>11
    <2> QED BY <1>2, <1>9, <2>1
  <1> HIDE DEF P
  <1>12. n \in P
    <2> HIDE DEF n
    <2>1. n \in Nat
      BY <1>3
    <2>2. \A i \in 0 .. n : i \in P
      BY <2>1, <1>10, <1>11, Climb
    <2> QED BY <2>1, <2>2
  <1> QED BY <1>1, <1>12 DEF P, R

-----------------------------------------------------------------------------
\* What the calls make of a session.

\* w is what v became in a call: nothing but callbacks happened to it, so it
\* is bound only if it was, or if a challenge of its connection was answered.
Became(v, w) ==
    /\ ViewerOk(w)
    /\ w.attempt = v.attempt /\ w.seq = v.seq /\ w.capture = v.capture
    /\ v.phase \in Lost => w.phase \in Lost

\* One call after the other.
LEMMA BecameTransitive ==
    ASSUME NEW u, NEW v, NEW w, Became(u, v), Became(v, w) PROVE Became(u, w)
  BY DEF Became

\* The first challenge of a buffer.
LEMMA FirstIdentity ==
    ASSUME NEW v, ViewerOk(v), AnswersFirst(v)
    PROVE  v.buf[Min(Identities(v.buf))].attempt = v.attempt
  <1>1. v.buf \in Seq(Entry) /\ Fresh(v.buf, v.attempt)
    BY DEF ViewerOk, Viewer
  <1>2. Identities(v.buf) \subseteq Nat /\ Identities(v.buf) # {}
    BY <1>1 DEF AnswersFirst, Identities
  <1>3. Min(Identities(v.buf)) \in Identities(v.buf)
    BY <1>2, NatMin DEF Min
  <1> QED BY <1>1, <1>3 DEF Identities, Fresh

\* drain_callback_buf: the session stays sound, and is bound afterwards only if it
\* was or if the answer sent went over its own connection.
LEMMA Drained ==
    ASSUME NEW v, ViewerOk(v)
    PROVE  /\ Became(v, Drain(v))
           /\ Drain(v).bound => v.bound \/ Response(v).attempt = v.attempt
           /\ Response(v).attempt = v.attempt \/ Response(v) = response
           /\ Drain(v).buf = <<>>
  <1>1. v \in Reach(v) /\ v.buf \in Seq(Entry) /\ v \in Viewer
    BY DEF ViewerOk, Reach, Kept, Viewer
  <1> DEFINE w == Each(HandleTrack, Each(HandleState, v, v.buf), v.buf)
             x == [w EXCEPT !.buf = <<>>]
             y == [x EXCEPT !.bound = TRUE]
             z == [y EXCEPT !.status = "bound"]
  <1>2. w \in Reach(v)
    BY <1>1, EachStateReach, EachTrackReach
  <1> HIDE DEF w
  <1>3. w \in Viewer /\ MediaOk(w) /\ PhaseOk(w) /\ Kept(v, w)
    BY <1>2 DEF Reach
  <1>4. /\ x \in Viewer /\ x.buf = <<>> /\ x.phase = w.phase /\ x.told = w.told
        /\ x.attempt = w.attempt /\ x.authorized = w.authorized /\ x.bound = w.bound
        /\ x.status = w.status /\ x.seq = w.seq /\ x.capture = w.capture
        /\ x.video = w.video /\ x.decoded = w.decoded /\ x.audio = w.audio
        /\ x.enqueued = w.enqueued /\ x.dropped = w.dropped /\ x.played = w.played
    <2>1. <<>> \in Seq(Entry)
      OBVIOUS
    <2>2. x \in Viewer
      BY <1>3, <2>1 DEF Viewer
    <2> QED BY <1>3, <2>2 DEF Viewer
  <1> HIDE DEF x
  <1>5. /\ z \in Viewer /\ z.buf = <<>> /\ z.phase = w.phase /\ z.told = w.told
        /\ z.attempt = w.attempt /\ z.bound /\ z.status = "bound"
        /\ z.seq = w.seq /\ z.capture = w.capture
        /\ z.video = w.video /\ z.decoded = w.decoded /\ z.audio = w.audio
        /\ z.enqueued = w.enqueued /\ z.dropped = w.dropped /\ z.played = w.played
    <2>1. /\ y \in Viewer /\ y.bound /\ y.buf = x.buf /\ y.phase = x.phase /\ y.told = x.told
          /\ y.attempt = x.attempt /\ y.seq = x.seq /\ y.capture = x.capture
          /\ y.video = x.video /\ y.decoded = x.decoded /\ y.audio = x.audio
          /\ y.enqueued = x.enqueued /\ y.dropped = x.dropped /\ y.played = x.played
      BY <1>4 DEF Viewer
    <2> HIDE DEF y
    <2>2. /\ z \in Viewer /\ z.bound = y.bound /\ z.status = "bound"
          /\ z.buf = y.buf /\ z.phase = y.phase /\ z.told = y.told
          /\ z.attempt = y.attempt /\ z.seq = y.seq /\ z.capture = y.capture
          /\ z.video = y.video /\ z.decoded = y.decoded /\ z.audio = y.audio
          /\ z.enqueued = y.enqueued /\ z.dropped = y.dropped /\ z.played = y.played
      BY <2>1 DEF Viewer
    <2> QED BY <1>4, <2>1, <2>2
  <1>6. Drain(v) = IF AnswersFirst(v) THEN z ELSE x
    <2>1. y.bound
      BY <1>4 DEF Viewer
    <2> QED BY <2>1 DEF Drain, SyncBindStatus, BindStatus, w, x
  <1> HIDE DEF z
  <1>7. Became(v, x) /\ x.bound = v.bound
    <2>1. x.status = BindStatus(x)
      BY <1>3, <1>4 DEF ViewerOk, BindStatus, Kept
    <2> QED BY <1>3, <1>4, <2>1 DEF Became, ViewerOk, MediaOk, PhaseOk, Fresh, Kept
  <1>8. Became(v, z)
    <2>1. z.status = BindStatus(z)
      BY <1>5 DEF BindStatus
    <2> QED BY <1>3, <1>5, <2>1 DEF Became, ViewerOk, MediaOk, PhaseOk, Fresh, Kept
  <1>9. AnswersFirst(v) => Response(v).attempt = v.attempt
    BY FirstIdentity DEF Response
  <1>10. ~AnswersFirst(v) => Response(v) = response
    BY DEF Response
  <1> QED BY <1>4, <1>5, <1>6, <1>7, <1>8, <1>9, <1>10

\* What a poll delivers is part of what waited.
LEMMA DeliveredPart ==
    ASSUME NEW q \in Seq(Entry), NEW a, Fresh(q, a)
    PROVE  Delivered(q) \in Seq(Entry) /\ Fresh(Delivered(q), a)
  <1> DEFINE bad == {i \in 1 .. Len(q) : q[i].kind = "bad"}
  <1>1. CASE bad = {}
    BY <1>1 DEF Delivered
  <1>2. CASE bad # {}
    <2>1. bad \subseteq Nat
      OBVIOUS
    <2>2. Min(bad) \in bad
      BY <1>2, <2>1, NatMin DEF Min
    <2> DEFINE m == Min(bad) - 1
               p == SubSeq(q, 1, m)
    <2>3. Delivered(q) = p
      BY <1>2 DEF Delivered
    <2>4. m \in 0 .. Len(q)
      BY <2>2
    <2> HIDE DEF m
    <2>5. p \in Seq(Entry) /\ Len(p) = m /\ \A i \in 1 .. m : p[i] = q[i]
      BY <2>4
    <2> QED BY <2>3, <2>4, <2>5 DEF Fresh
  <1> QED BY <1>1, <1>2

\* Two buffers of one connection, one after the other.
LEMMA ConcatFresh ==
    ASSUME NEW p \in Seq(Entry), NEW q \in Seq(Entry), NEW a, Fresh(p, a), Fresh(q, a)
    PROVE  p \o q \in Seq(Entry) /\ Fresh(p \o q, a)
  <1>1. /\ p \o q \in Seq(Entry) /\ Len(p \o q) = Len(p) + Len(q)
        /\ \A i \in 1 .. Len(p) + Len(q) :
               (p \o q)[i] = IF i <= Len(p) THEN p[i] ELSE q[i - Len(p)]
    BY ConcatProperties
  <1>2. ASSUME NEW i \in 1 .. Len(p) + Len(q), (p \o q)[i].kind = "identity"
        PROVE  (p \o q)[i].attempt = a
    <2>1. CASE i <= Len(p)
      BY <1>1, <1>2, <2>1 DEF Fresh
    <2>2. CASE ~(i <= Len(p))
      <3>1. i - Len(p) \in 1 .. Len(q) /\ (p \o q)[i] = q[i - Len(p)]
        BY <1>1, <2>2
      <3> QED BY <1>2, <3>1 DEF Fresh
    <2> QED BY <2>1, <2>2
  <1> QED BY <1>1, <1>2 DEF Fresh

\* The transport's poll puts what waited into the buffer.
LEMMA PolledOk ==
    ASSUME NEW v, ViewerOk(v), NEW t, t.inbox \in Seq(Entry), Fresh(t.inbox, v.attempt)
    PROVE  Became(v, Polled(v, t)) /\ Polled(v, t).bound = v.bound
  <1> DEFINE b == v.buf \o Delivered(t.inbox)
             x == [v EXCEPT !.buf = b]
  <1>1. v \in Viewer /\ v.buf \in Seq(Entry) /\ Fresh(v.buf, v.attempt)
    BY DEF ViewerOk, Viewer
  <1>2. b \in Seq(Entry) /\ Fresh(b, v.attempt)
    BY <1>1, DeliveredPart, ConcatFresh
  <1>3. Polled(v, t) = x
    BY DEF Polled
  <1> HIDE DEF b
  <1>4. x \in Viewer
    BY <1>1, <1>2 DEF Viewer
  <1>5. /\ x.buf = b /\ x.phase = v.phase /\ x.told = v.told
        /\ x.attempt = v.attempt /\ x.authorized = v.authorized /\ x.bound = v.bound
        /\ x.status = v.status /\ x.seq = v.seq /\ x.capture = v.capture
        /\ x.video = v.video /\ x.decoded = v.decoded /\ x.audio = v.audio
        /\ x.enqueued = v.enqueued /\ x.dropped = v.dropped /\ x.played = v.played
    BY <1>1 DEF Viewer
  <1> HIDE DEF x
  <1> QED BY <1>2, <1>3, <1>4, <1>5 DEF Became, ViewerOk, MediaOk, PhaseOk, BindStatus

\* ViewerSession::poll, with an error of the transport or without.
LEMMA PollSessionOk ==
    ASSUME NEW v, ViewerOk(v), NEW t, t.inbox \in Seq(Entry), Fresh(t.inbox, v.attempt)
    PROVE  /\ Became(v, PollSession(v, t))
           /\ PollSession(v, t).bound => v.bound \/ PollResponse(v, t).attempt = v.attempt
           /\ PollResponse(v, t).attempt = v.attempt \/ PollResponse(v, t) = response
  <1> DEFINE p == Polled(v, t)
  <1>1. Became(v, p) /\ p.bound = v.bound
    BY PolledOk
  <1>2. ViewerOk(p) /\ p.attempt = v.attempt
    BY <1>1 DEF Became
  <1>3. /\ PollSession(v, t) = IF PollError(t.inbox) THEN p ELSE Drain(p)
        /\ PollResponse(v, t) = IF PollError(t.inbox) THEN response ELSE Response(p)
    BY DEF PollSession, PollResponse
  <1> HIDE DEF p
  <1>4. /\ Became(v, Drain(p))
        /\ Drain(p).bound => v.bound \/ Response(p).attempt = v.attempt
        /\ Response(p).attempt = v.attempt \/ Response(p) = response
    BY <1>1, <1>2, Drained, BecameTransitive
  <1> QED BY <1>1, <1>3, <1>4

-----------------------------------------------------------------------------
\* Input on its way.

Sample == [kind : RawKinds, n : Nat]
Message == [seq : Nat, n : Nat, attempt : Nat, bound : BOOLEAN]

\* Of what went out, everything of connection a is numbered below s and was
\* made before lo.
Ordered(o, a, s, lo) ==
    /\ o \in Seq(Message)
    /\ \A i \in 1 .. Len(o) :
           /\ o[i].attempt <= a
           /\ o[i].attempt = a => o[i].seq < s /\ o[i].n < lo
    /\ \A i, j \in 1 .. Len(o) :
           i < j /\ o[i].attempt = o[j].attempt => o[i].seq < o[j].seq /\ o[i].n < o[j].n

\* The oldest sample that may still go out: p the waiting pointer position, q
\* the queued samples, n the events so far.
Foremost(q, n) == IF q = <<>> THEN n + 1 ELSE q[1].n
Oldest(p, q, n) == IF p # 0 THEN p ELSE Foremost(q, n)

InLine(p, q, n) ==
    /\ q \in Seq(Sample)
    /\ \A i \in 1 .. Len(q) : 1 <= q[i].n /\ q[i].n <= n
    /\ \A i, j \in 1 .. Len(q) : i < j => q[i].n < q[j].n
    /\ p # 0 => p < Foremost(q, n)

\* Numbers taken, position and samples waiting: all come of events.
Budget(p, q, s, n) == s >= 1 /\ s - 1 + (IF p = 0 THEN 0 ELSE 1) + Len(q) <= n

\* What goes out next, in order and from the line, keeps the order.
LEMMA SendKeepsOrder ==
    ASSUME NEW a \in Nat, NEW s \in Nat, NEW lo \in Nat, NEW hi \in Nat, NEW o,
           Ordered(o, a, s, lo), NEW k \in Nat, NEW e \in Seq(Message), Len(e) = k,
           \A i \in 1 .. k : /\ e[i].seq = s + i - 1 /\ e[i].attempt = a
                             /\ lo <= e[i].n /\ e[i].n < hi,
           \A i, j \in 1 .. k : i < j => e[i].n < e[j].n,
           lo <= hi
    PROVE  Ordered(o \o e, a, s + k, hi)
  <1> DEFINE r == o \o e
  <1>1. o \in Seq(Message) /\ Len(o) \in Nat
    BY DEF Ordered
  <1>2. /\ r \in Seq(Message) /\ Len(r) = Len(o) + k
        /\ \A i \in 1 .. Len(o) : r[i] = o[i]
        /\ \A i \in Len(o) + 1 .. Len(o) + k : r[i] = e[i - Len(o)] /\ i - Len(o) \in 1 .. k
    <2>1. /\ r \in Seq(Message) /\ Len(r) = Len(o) + Len(e)
          /\ \A i \in 1 .. Len(o) + Len(e) : r[i] = IF i <= Len(o) THEN o[i] ELSE e[i - Len(o)]
      BY <1>1, ConcatProperties
    <2> HIDE DEF r
    <2>2. \A i \in 1 .. Len(o) : i \in 1 .. Len(o) + Len(e) /\ i <= Len(o)
      BY <1>1
    <2>3. \A i \in Len(o) + 1 .. Len(o) + k :
              i \in 1 .. Len(o) + Len(e) /\ ~(i <= Len(o)) /\ i - Len(o) \in 1 .. k
      BY <1>1
    <2> QED BY <2>1, <2>2, <2>3
  <1> HIDE DEF r
  <1>3. ASSUME NEW i \in 1 .. Len(r)
        PROVE  /\ r[i].attempt <= a
               /\ r[i].attempt = a => r[i].seq < s + k /\ r[i].n < hi
    <2>1. CASE i \in 1 .. Len(o)
      <3>1. o[i] \in Message /\ r[i] = o[i]
        BY <1>1, <1>2, <2>1
      <3>2. o[i].seq \in Nat /\ o[i].n \in Nat
        BY <3>1 DEF Message
      <3> QED BY <2>1, <3>1, <3>2 DEF Ordered
    <2>2. CASE i \in Len(o) + 1 .. Len(o) + k
      <3>1. r[i] = e[i - Len(o)] /\ i - Len(o) \in 1 .. k
        BY <1>2, <2>2
      <3> QED BY <3>1
    <2> QED BY <1>1, <1>2, <2>1, <2>2
  <1>4. ASSUME NEW i \in 1 .. Len(r), NEW j \in 1 .. Len(r), i < j,
               r[i].attempt = r[j].attempt
        PROVE  r[i].seq < r[j].seq /\ r[i].n < r[j].n
    <2>1. CASE j \in 1 .. Len(o)
      <3>1. i \in 1 .. Len(o) /\ r[i] = o[i] /\ r[j] = o[j]
        BY <1>1, <1>2, <1>4, <2>1
      <3> QED BY <1>4, <2>1, <3>1 DEF Ordered
    <2>2. CASE j \in Len(o) + 1 .. Len(o) + k /\ i \in 1 .. Len(o)
      <3>1. r[j] = e[j - Len(o)] /\ j - Len(o) \in 1 .. k
        BY <1>2, <2>2
      <3>2. r[j].seq >= s /\ r[j].n >= lo /\ r[j].attempt = a /\ e[j - Len(o)] \in Message
        BY <3>1
      <3>3. r[i] = o[i] /\ o[i] \in Message
        BY <1>1, <1>2, <2>2
      <3>4. r[i].seq < s /\ r[i].n < lo
        BY <1>4, <2>2, <3>2, <3>3 DEF Ordered
      <3>5. r[i].seq \in Nat /\ r[i].n \in Nat /\ r[j].seq \in Nat /\ r[j].n \in Nat
        BY <3>1, <3>2, <3>3 DEF Message
      <3>6. \A x, y, z \in Nat : x < y /\ z >= y => x < z
        OBVIOUS
      <3>7. r[i].seq < r[j].seq
        BY <3>2, <3>4, <3>5, <3>6
      <3>8. r[i].n < r[j].n
        BY <3>2, <3>4, <3>5, <3>6
      <3> QED BY <3>7, <3>8
    <2>3. CASE i \in Len(o) + 1 .. Len(o) + k
      <3>1. j \in Len(o) + 1 .. Len(o) + k
        BY <1>1, <1>2, <1>4, <2>3
      <3>2. /\ r[i] = e[i - Len(o)] /\ i - Len(o) \in 1 .. k
            /\ r[j] = e[j - Len(o)] /\ j - Len(o) \in 1 .. k
        BY <1>2, <2>3, <3>1
      <3>3. i - Len(o) < j - Len(o)
        BY <1>1, <1>4
      <3> DEFINE x == i - Len(o)
                 y == j - Len(o)
      <3>4. x \in 1 .. k /\ y \in 1 .. k /\ x < y /\ r[i] = e[x] /\ r[j] = e[y]
        BY <3>2, <3>3
      <3> HIDE DEF x, y
      <3>5. e[x].n < e[y].n /\ e[x].seq = s + x - 1 /\ e[y].seq = s + y - 1
        BY <3>4
      <3> QED BY <3>4, <3>5
    <2> QED BY <1>1, <1>2, <2>1, <2>2, <2>3
  <1> QED BY <1>2, <1>3, <1>4 DEF Ordered, r

\* The order is kept when numbers or samples are given up.
LEMMA OrderedLater ==
    ASSUME NEW a \in Nat, NEW s \in Nat, NEW t \in Nat, NEW lo \in Nat, NEW hi \in Nat, NEW o,
           Ordered(o, a, s, lo), s <= t, lo <= hi
    PROVE  Ordered(o, a, t, hi)
  <1>1. \A i \in 1 .. Len(o) : o[i].seq \in Nat /\ o[i].n \in Nat
    <2>1. \A i \in 1 .. Len(o) : o[i] \in Message
      BY DEF Ordered
    <2> QED BY <2>1 DEF Message
  <1> QED BY <1>1 DEF Ordered

\* A connection starts with nothing sent.
LEMMA OrderedAnew ==
    ASSUME NEW a \in Nat, NEW s \in Nat, NEW t \in Nat, NEW lo \in Nat, NEW hi \in Nat, NEW o,
           Ordered(o, a, s, lo)
    PROVE  Ordered(o, a + 1, t, hi)
  <1>1. \A i \in 1 .. Len(o) : o[i].attempt \in Nat
    <2>1. \A i \in 1 .. Len(o) : o[i] \in Message
      BY DEF Ordered
    <2> QED BY <2>1 DEF Message
  <1> QED BY <1>1 DEF Ordered

\* The line and its front are numbers.
LEMMA ForemostNat ==
    ASSUME NEW p \in Nat, NEW q, NEW n \in Nat, InLine(p, q, n)
    PROVE  /\ Foremost(q, n) \in Nat /\ Foremost(q, n) >= 1 /\ Foremost(q, n) <= n + 1
           /\ Oldest(p, q, n) \in Nat
           /\ Len(q) \in Nat /\ p <= n
  <1>1. q \in Seq(Sample) /\ Len(q) \in Nat
    BY DEF InLine
  <1>2. CASE q = <<>>
    BY <1>1, <1>2 DEF Foremost, Oldest, InLine
  <1>3. CASE q # <<>>
    <2>1. 1 \in 1 .. Len(q)
      BY <1>1, <1>3
    <2>2. q[1] \in Sample
      BY <1>1, <2>1
    <2>3. q[1].n \in Nat
      BY <2>2 DEF Sample
    <2> QED BY <1>1, <1>3, <2>1, <2>3 DEF Foremost, Oldest, InLine
  <1> QED BY <1>2, <1>3

\* A new sample joins the line.
LEMMA JoinLine ==
    ASSUME NEW p \in Nat, NEW q, NEW n \in Nat, InLine(p, q, n),
           NEW x \in Sample, x.n = n + 1
    PROVE  /\ InLine(p, Append(q, x), n + 1)
           /\ Oldest(p, Append(q, x), n + 1) = Oldest(p, q, n)
  <1> DEFINE r == Append(q, x)
  <1>1. q \in Seq(Sample) /\ Len(q) \in Nat
    BY DEF InLine
  <1>2. /\ r \in Seq(Sample) /\ Len(r) = Len(q) + 1 /\ r # <<>>
        /\ \A i \in 1 .. Len(q) + 1 : r[i] = IF i = Len(q) + 1 THEN x ELSE q[i]
    BY <1>1
  <1> HIDE DEF r
  <1>3. Foremost(r, n + 1) = Foremost(q, n)
    BY <1>1, <1>2 DEF Foremost
  <1>4. \A i \in 1 .. Len(q) : q[i].n \in Nat /\ 1 <= q[i].n /\ q[i].n <= n
    <2>1. \A i \in 1 .. Len(q) : q[i] \in Sample
      BY <1>1
    <2> QED BY <2>1 DEF InLine, Sample
  <1>5. \A i \in 1 .. Len(r) : 1 <= r[i].n /\ r[i].n <= n + 1
    BY <1>1, <1>2, <1>4
  <1>6. ASSUME NEW i \in 1 .. Len(r), NEW j \in 1 .. Len(r), i < j PROVE r[i].n < r[j].n
    <2>1. i \in 1 .. Len(q) /\ r[i] = q[i]
      BY <1>1, <1>2, <1>6
    <2>2. CASE j = Len(q) + 1
      BY <1>2, <1>4, <2>1, <2>2
    <2>3. CASE j # Len(q) + 1
      BY <1>1, <1>2, <1>6, <2>1, <2>3 DEF InLine
    <2> QED BY <2>2, <2>3
  <1>7. p # 0 => p < Foremost(r, n + 1)
    BY <1>3 DEF InLine
  <1> QED BY <1>2, <1>3, <1>5, <1>6, <1>7 DEF InLine, Oldest, r

\* The oldest sample leaves the line.
LEMMA LeaveLine ==
    ASSUME NEW p \in Nat, NEW q, NEW n \in Nat, InLine(p, q, n), q # <<>>
    PROVE  /\ Head(q) \in Sample /\ Head(q).n \in Nat \ {0} /\ Head(q).n = Foremost(q, n)
           /\ Head(q).n < Foremost(Tail(q), n)
           /\ InLine(p, Tail(q), n) /\ InLine(0, Tail(q), n)
           /\ InLine(Head(q).n, Tail(q), n)
           /\ Len(Tail(q)) = Len(q) - 1 /\ Len(q) \in Nat
  <1> DEFINE r == Tail(q)
             x == Head(q)
  <1>1. q \in Seq(Sample) /\ Len(q) \in Nat /\ 1 \in 1 .. Len(q)
    BY DEF InLine
  <1>2. /\ r \in Seq(Sample) /\ Len(r) = Len(q) - 1 /\ x = q[1] /\ x \in Sample
        /\ \A i \in 1 .. Len(q) - 1 : r[i] = q[i + 1]
    BY <1>1
  <1> HIDE DEF r, x
  <1>3. \A i \in 1 .. Len(q) : q[i].n \in Nat /\ 1 <= q[i].n /\ q[i].n <= n
    <2>1. \A i \in 1 .. Len(q) : q[i] \in Sample
      BY <1>1
    <2> QED BY <2>1 DEF InLine, Sample
  <1>4. x.n \in Nat \ {0} /\ x.n = Foremost(q, n) /\ x.n <= n
    BY <1>1, <1>2, <1>3 DEF Foremost
  <1>5. x.n < Foremost(r, n)
    <2>1. CASE r = <<>>
      BY <1>4, <2>1 DEF Foremost
    <2>2. CASE r # <<>>
      <3>1. 2 \in 1 .. Len(q) /\ r[1] = q[2]
        BY <1>1, <1>2, <2>2
      <3>2. q[1].n < q[2].n
        BY <1>1, <3>1 DEF InLine
      <3> QED BY <1>2, <2>2, <3>1, <3>2 DEF Foremost
    <2> QED BY <2>1, <2>2
  <1>6. \A i \in 1 .. Len(r) : 1 <= r[i].n /\ r[i].n <= n
    BY <1>1, <1>2, <1>3
  <1>7. ASSUME NEW i \in 1 .. Len(r), NEW j \in 1 .. Len(r), i < j PROVE r[i].n < r[j].n
    <2>1. /\ i + 1 \in 1 .. Len(q) /\ j + 1 \in 1 .. Len(q) /\ i + 1 < j + 1
          /\ r[i] = q[i + 1] /\ r[j] = q[j + 1]
      BY <1>1, <1>2, <1>7
    <2> QED BY <2>1 DEF InLine
  <1>8. Foremost(r, n) \in Nat
    <2>1. r # <<>> => r[1] \in Sample
      BY <1>2
    <2> QED BY <2>1 DEF Foremost, Sample
  <1>9. p # 0 => p < Foremost(r, n)
    BY <1>4, <1>5, <1>8 DEF InLine
  <1> QED BY <1>1, <1>2, <1>4, <1>5, <1>6, <1>7, <1>9 DEF InLine, r, x

\* Captured only while it may be.
Kosher(c) == c \in Capture /\ (~MayCapture(c) => c.pending = 0)

One(p) == IF p = 0 THEN 0 ELSE 1

\* A capture c with line q sends e and becomes d with line r.
Emits(c, q, n, e, d, r) ==
    /\ Kosher(d) /\ InLine(d.pending, r, n)
    /\ Oldest(c.pending, q, n) <= Oldest(d.pending, r, n)
    /\ e \in Seq(Sample)
    /\ \A i \in 1 .. Len(e) :
           Oldest(c.pending, q, n) <= e[i].n /\ e[i].n < Oldest(d.pending, r, n)
    /\ \A i, j \in 1 .. Len(e) : i < j => e[i].n < e[j].n
    /\ Len(e) + One(d.pending) + Len(r) <= One(c.pending) + Len(q)

\* A sample that is refused.
LEMMA RefusedEmits ==
    ASSUME NEW c, Kosher(c), NEW q, NEW n \in Nat, InLine(c.pending, q, n), q # <<>>
    PROVE  Emits(c, q, n, <<>>, c, Tail(q))
  <1>1. c.pending \in Nat
    BY DEF Kosher, Capture
  <1>2. /\ Head(q).n = Foremost(q, n) /\ Head(q).n < Foremost(Tail(q), n) /\ Head(q).n \in Nat
        /\ InLine(c.pending, Tail(q), n)
        /\ Len(Tail(q)) = Len(q) - 1 /\ Len(q) \in Nat
    BY <1>1, LeaveLine
  <1>3. Foremost(Tail(q), n) \in Nat
    BY <1>1, <1>2, ForemostNat
  <1>4. Oldest(c.pending, q, n) <= Oldest(c.pending, Tail(q), n)
    BY <1>1, <1>2, <1>3 DEF Oldest
  <1>5. <<>> \in Seq(Sample) /\ Len(<<>>) = 0
    OBVIOUS
  <1>6. Len(<<>>) + One(c.pending) + Len(Tail(q)) <= One(c.pending) + Len(q)
    BY <1>2, <1>5 DEF One
  <1> QED BY <1>2, <1>4, <1>5, <1>6 DEF Emits

\* Sequences of one and two samples.
LEMMA FewSamples ==
    ASSUME NEW x \in Sample, NEW y \in Sample
    PROVE  /\ <<x>> \in Seq(Sample) /\ Len(<<x>>) = 1 /\ <<x>>[1] = x
           /\ Append(<<x>>, y) \in Seq(Sample) /\ Len(Append(<<x>>, y)) = 2
           /\ Append(<<x>>, y)[1] = x /\ Append(<<x>>, y)[2] = y
           /\ Append(<<>>, x) = <<x>>
  OBVIOUS

\* The waiting position has gone out.
LEMMA TakeEmitKosher ==
    ASSUME NEW c, Kosher(c)
    PROVE  /\ Kosher(TakeEmit(c)) /\ TakeEmit(c).pending = 0
           /\ MayCapture(TakeEmit(c)) <=> MayCapture(c)
  BY DEF Kosher, Capture, TakeEmit, MayCapture

\* A sample is captured.
LEMMA CaptureEmits ==
    ASSUME NEW c, Kosher(c), NEW q, NEW n \in Nat, InLine(c.pending, q, n), q # <<>>
    PROVE  Emits(c, q, n, Captured(c, Head(q)), AfterPush(c, Head(q)), Tail(q))
  <1> DEFINE x == Head(q)
             r == Tail(q)
  <1>1. c.pending \in Nat
    BY DEF Kosher, Capture
  <1>2. /\ x \in Sample /\ x.n \in Nat \ {0} /\ x.n = Foremost(q, n)
        /\ x.n < Foremost(r, n)
        /\ InLine(c.pending, r, n) /\ InLine(0, r, n) /\ InLine(x.n, r, n)
        /\ Len(r) = Len(q) - 1 /\ Len(q) \in Nat
    BY <1>1, LeaveLine
  <1>3. Foremost(r, n) \in Nat /\ Oldest(0, r, n) = Foremost(r, n) /\ Oldest(x.n, r, n) = x.n
    BY <1>1, <1>2, ForemostNat DEF Oldest
  <1>4. Emits(c, q, n, <<>>, c, r)
    BY RefusedEmits
  <1> HIDE DEF x, r
  <1>5. CASE ~MayCapture(c) \/ x.kind = "unmapped"
    BY <1>4, <1>5 DEF Captured, AfterPush, Taken, x, r
  <1>6. x.kind \in RawKinds
    BY <1>2 DEF Sample
  <1>7. /\ Oldest(c.pending, q, n) \in Nat /\ Oldest(c.pending, q, n) <= x.n
        /\ c.pending # 0 => c.pending < x.n /\ Oldest(c.pending, q, n) = c.pending
    BY <1>1, <1>2 DEF Oldest, InLine
  <1>8. CASE MayCapture(c) /\ x.kind = "move" /\ ~c.due
    <2> DEFINE d == [c EXCEPT !.pending = x.n]
    <2>1. Captured(c, x) = <<>> /\ AfterPush(c, x) = d
      BY <1>8 DEF Captured, AfterPush, Taken
    <2>2. Kosher(d) /\ d.pending = x.n
      BY <1>2, <1>8 DEF Kosher, Capture, MayCapture
    <2> HIDE DEF d
    <2>3. <<>> \in Seq(Sample) /\ Len(<<>>) = 0
      OBVIOUS
    <2>4. Len(<<>>) + One(d.pending) + Len(r) <= One(c.pending) + Len(q)
      BY <1>2, <2>2, <2>3 DEF One
    <2>5. Emits(c, q, n, <<>>, d, r)
      BY <1>2, <1>3, <1>7, <2>2, <2>3, <2>4 DEF Emits
    <2> QED BY <2>1, <2>5 DEF x, r
  <1>9. CASE MayCapture(c) /\ x.kind = "move" /\ c.due
    <2>1. Captured(c, x) = <<x>> /\ AfterPush(c, x) = TakeEmit(c)
      BY <1>9 DEF Captured, AfterPush, Taken
    <2> DEFINE e == <<x>>
               d == TakeEmit(c)
    <2>2. Kosher(d) /\ d.pending = 0
      BY TakeEmitKosher
    <2>3. e \in Seq(Sample) /\ Len(e) = 1 /\ e[1] = x
      BY <1>2
    <2> HIDE DEF d, e
    <2>4. Len(e) + One(d.pending) + Len(r) <= One(c.pending) + Len(q)
      BY <1>2, <2>2, <2>3 DEF One
    <2>5. \A i \in 1 .. Len(e) :
              Oldest(c.pending, q, n) <= e[i].n /\ e[i].n < Oldest(d.pending, r, n)
      BY <1>2, <1>3, <1>7, <2>2, <2>3
    <2>6. Oldest(c.pending, q, n) <= Oldest(d.pending, r, n)
      BY <1>2, <1>3, <1>7, <2>2
    <2>7. \A i, j \in 1 .. Len(e) : i < j => e[i].n < e[j].n
      BY <2>3
    <2>8. Emits(c, q, n, e, d, r)
      BY <1>2, <2>2, <2>3, <2>4, <2>5, <2>6, <2>7 DEF Emits
    <2> QED BY <2>1, <2>8 DEF d, e, x, r
  <1>10. CASE MayCapture(c) /\ x.kind = "reliable"
    <2> DEFINE e == Append(FlushedMove(c), x)
               d == Flushed(c)
    <2>1. Captured(c, x) = e /\ AfterPush(c, x) = d
      BY <1>10 DEF Captured, AfterPush, Taken
    <2>2. Kosher(d) /\ d.pending = 0
      BY <1>10, TakeEmitKosher DEF Flushed
    <2>3. /\ e \in Seq(Sample) /\ Len(e) = One(c.pending) + 1
          /\ \A i \in 1 .. Len(e) : e[i].n = IF i = Len(e) THEN x.n ELSE c.pending
          /\ c.pending = 0 => Len(e) = 1
          /\ c.pending # 0 => Len(e) = 2
      <3>1. CASE c.pending = 0
        <4>1. e = <<x>>
          BY <1>2, <3>1, FewSamples DEF FlushedMove
        <4> HIDE DEF e
        <4>2. e \in Seq(Sample) /\ Len(e) = 1 /\ e[1] = x
          BY <1>2, <4>1, FewSamples
        <4> QED BY <3>1, <4>2 DEF One
      <3>2. CASE c.pending # 0
        <4> DEFINE y == [kind |-> "move", n |-> c.pending]
        <4>1. y \in Sample /\ y.n = c.pending
          BY <1>1 DEF Sample, RawKinds
        <4> HIDE DEF y
        <4>2. e = Append(<<y>>, x)
          BY <3>2 DEF FlushedMove, y
        <4> HIDE DEF e
        <4>3. e \in Seq(Sample) /\ Len(e) = 2 /\ e[1] = y /\ e[2] = x
          BY <1>2, <4>1, <4>2, FewSamples
        <4> QED BY <3>2, <4>1, <4>3 DEF One
      <3> QED BY <3>1, <3>2
    <2> HIDE DEF d, e
    <2>4. Len(e) + One(d.pending) + Len(r) <= One(c.pending) + Len(q)
      BY <1>2, <2>2, <2>3 DEF One
    <2>5. \A i \in 1 .. Len(e) :
              Oldest(c.pending, q, n) <= e[i].n /\ e[i].n < Oldest(d.pending, r, n)
      BY <1>1, <1>2, <1>3, <1>7, <2>2, <2>3
    <2>6. Oldest(c.pending, q, n) <= Oldest(d.pending, r, n)
      BY <1>2, <1>3, <1>7, <2>2
    <2>7. \A i, j \in 1 .. Len(e) : i < j => e[i].n < e[j].n
      BY <1>1, <1>2, <1>7, <2>3
    <2>8. Emits(c, q, n, e, d, r)
      BY <1>2, <2>2, <2>3, <2>4, <2>5, <2>6, <2>7 DEF Emits
    <2> QED BY <2>1, <2>8 DEF d, e, x, r
  <1> QED BY <1>5, <1>6, <1>8, <1>9, <1>10 DEF RawKinds

\* The waiting position goes out by itself.
LEMMA PollEmits ==
    ASSUME NEW c, Kosher(c), NEW q, NEW n \in Nat, InLine(c.pending, q, n)
    PROVE  Emits(c, q, n, CapturedByPoll(c), AfterPoll(c), q)
  <1>1. c.pending \in Nat
    BY DEF Kosher, Capture
  <1>2. Foremost(q, n) \in Nat /\ Len(q) \in Nat
    BY <1>1, ForemostNat
  <1>3. CASE ~(MayCapture(c) /\ c.due /\ c.pending # 0)
    <2>1. CapturedByPoll(c) = <<>> /\ AfterPoll(c) = c
      BY <1>3 DEF CapturedByPoll, AfterPoll, Flushed, FlushedMove
    <2>2. <<>> \in Seq(Sample) /\ Len(<<>>) = 0
      OBVIOUS
    <2>3. Len(<<>>) + One(c.pending) + Len(q) <= One(c.pending) + Len(q)
      BY <1>2, <2>2 DEF One
    <2>4. Oldest(c.pending, q, n) <= Oldest(c.pending, q, n)
      BY <1>1, <1>2 DEF Oldest
    <2>5. Emits(c, q, n, <<>>, c, q)
      BY <2>2, <2>3, <2>4 DEF Emits
    <2> QED BY <2>1, <2>5
  <1>4. CASE MayCapture(c) /\ c.due /\ c.pending # 0
    <2> DEFINE y == [kind |-> "move", n |-> c.pending]
               e == <<y>>
               d == TakeEmit(c)
    <2>1. CapturedByPoll(c) = e /\ AfterPoll(c) = d
      BY <1>4 DEF CapturedByPoll, AfterPoll, Flushed, FlushedMove
    <2>2. y \in Sample /\ y.n = c.pending
      BY <1>1 DEF Sample, RawKinds
    <2> HIDE DEF y
    <2>3. e \in Seq(Sample) /\ Len(e) = 1 /\ e[1] = y
      BY <2>2
    <2>4. Kosher(d) /\ d.pending = 0
      BY TakeEmitKosher
    <2> HIDE DEF d, e
    <2>5. Oldest(c.pending, q, n) = c.pending /\ Oldest(d.pending, q, n) = Foremost(q, n)
          /\ c.pending < Foremost(q, n)
      BY <1>4, <2>4 DEF Oldest, InLine
    <2>6. InLine(d.pending, q, n)
      BY <2>4 DEF InLine
    <2>7. Len(e) + One(d.pending) + Len(q) <= One(c.pending) + Len(q)
      BY <1>2, <1>4, <2>3, <2>4 DEF One
    <2>8. \A i \in 1 .. Len(e) :
              Oldest(c.pending, q, n) <= e[i].n /\ e[i].n < Oldest(d.pending, q, n)
      BY <1>1, <1>2, <2>2, <2>3, <2>5
    <2>9. Oldest(c.pending, q, n) <= Oldest(d.pending, q, n)
      BY <1>1, <1>2, <2>5
    <2>10. \A i, j \in 1 .. Len(e) : i < j => e[i].n < e[j].n
      BY <2>3
    <2>11. Emits(c, q, n, e, d, q)
      BY <2>3, <2>4, <2>6, <2>7, <2>8, <2>9, <2>10 DEF Emits
    <2> QED BY <2>1, <2>11 DEF d, e
  <1> QED BY <1>3, <1>4

-----------------------------------------------------------------------------
\* The invariant.

TransportStates == {"none", "new", "connecting", "connected", "disconnected", "failed"}
Transport == [state : TransportStates, inbox : Seq(Entry)]

\* The session: sound by itself, fed by its own connection, and bound by an
\* answer given there.
SessionInv ==
    /\ ViewerOk(viewer) /\ Kosher(viewer.capture)
    /\ tr \in Transport /\ Fresh(tr.inbox, viewer.attempt)
    /\ BoundHere

\* What went out is older than what waits, and what waits is in line.
InputInv ==
    /\ Ordered(out, viewer.attempt, viewer.seq,
               Oldest(viewer.capture.pending, user.input, count.events))
    /\ InLine(viewer.capture.pending, user.input, count.events)
    /\ Budget(viewer.capture.pending, user.input, viewer.seq, count.events)
    /\ NoInputUnbound

\* Until the server has accepted the session there is none.
Early == {"off", "connect", "hello", "accept"}
USE DEF Early

\* The worker connects once, a window has none.
WorkerInv ==
    /\ driver \in Drivers /\ key \in BOOLEAN
    /\ worker \in [pc : Pcs, offer : BOOLEAN]
    /\ sig \in Seq(Signals)
    /\ user \in [stop : BOOLEAN, input : Seq(Sample)]
    /\ count \in [events : Nat, flap : Nat, signal : Nat]
    /\ viewer.attempt <= MaxConnect
    /\ driver = "ui" => worker.pc = "off" /\ user.input = <<>>
    /\ driver # "ui" /\ worker.pc \in Early => viewer.attempt = 0

ViewerInv == SessionInv /\ InputInv /\ WorkerInv

\* The types of the parts.
LEMMA ViewerTypes ==
    ASSUME ViewerInv
    PROVE  /\ viewer.attempt \in Nat /\ viewer.seq \in Nat /\ viewer.capture \in Capture
           /\ viewer.capture.pending \in Nat /\ viewer.phase \in ViewerPhase
           /\ viewer.bound \in BOOLEAN /\ viewer.authorized \in BOOLEAN
           /\ viewer.auto \in BOOLEAN /\ viewer.buf \in Seq(Entry) /\ viewer \in Viewer
           /\ tr.state \in TransportStates /\ tr.inbox \in Seq(Entry)
           /\ count.events \in Nat /\ count.flap \in Nat /\ count.signal \in Nat
           /\ user.input \in Seq(Sample) /\ user.stop \in BOOLEAN
           /\ worker.pc \in Pcs /\ worker.offer \in BOOLEAN
           /\ ViewerOk(viewer)
  <1>1. viewer \in Viewer /\ viewer.capture \in Capture /\ ViewerOk(viewer)
    BY DEF ViewerInv, SessionInv, ViewerOk, Kosher
  <1>2. /\ viewer.attempt \in Nat /\ viewer.seq \in Nat /\ viewer.phase \in ViewerPhase
        /\ viewer.bound \in BOOLEAN /\ viewer.authorized \in BOOLEAN
        /\ viewer.auto \in BOOLEAN /\ viewer.buf \in Seq(Entry)
    BY <1>1 DEF Viewer
  <1>3. viewer.capture.pending \in Nat
    BY <1>1 DEF Capture
  <1>4. tr.state \in TransportStates /\ tr.inbox \in Seq(Entry)
    BY DEF ViewerInv, SessionInv, Transport
  <1> QED BY <1>1, <1>2, <1>3, <1>4 DEF ViewerInv, WorkerInv

\* The invariant gives what it is for.
LEMMA ViewerInvGuards ==
    ASSUME ViewerInv PROVE InputGuarded /\ QueuesSound
  <1>1. TypeOK
    <2>1. /\ viewer.phase \in ViewerPhase /\ viewer.told \in Told
          /\ viewer.status \in {"unbound", "pending", "bound"} /\ viewer.attempt \in Nat
          /\ Len(viewer.video) <= VideoCap /\ Len(viewer.audio) <= AudioCap
      BY DEF ViewerInv, SessionInv, ViewerOk, Viewer, MediaOk, Newest
    <2>2. viewer.seq \in 1 .. count.events + 1
      <3>1. /\ viewer.seq >= 1 /\ Len(user.input) \in Nat
            /\ viewer.seq - 1 + One(viewer.capture.pending) + Len(user.input) <= count.events
        BY ViewerTypes DEF ViewerInv, InputInv, Budget, One
      <3>2. One(viewer.capture.pending) \in Nat
        BY DEF One
      <3> QED BY <3>1, <3>2, ViewerTypes
    <2>3. viewer.capture.pending \in 0 .. count.events
      BY ViewerTypes, ForemostNat DEF ViewerInv, InputInv
    <2>4. Range(sig) \subseteq Signals
      BY DEF ViewerInv, WorkerInv, Range
    <2> QED BY <2>1, <2>2, <2>3, <2>4, ViewerTypes
            DEF TypeOK, ViewerInv, WorkerInv, Told, Lost, TransportStates
  <1>2. InputInOrder
    BY DEF ViewerInv, InputInv, Ordered, InputInOrder
  <1>3. NoStaleMove /\ BoundHere /\ NoInputUnbound /\ PhaseFollows /\ StatusAgrees
    BY DEF ViewerInv, SessionInv, InputInv, ViewerOk, PhaseOk, Kosher, NoStaleMove,
           PhaseFollows, StatusAgrees, Lost
  <1>4. QueuesSound
    BY DEF ViewerInv, SessionInv, ViewerOk, MediaOk, Newest, QueuesSound, NewestFrames,
           AudioAccounted
  <1> QED BY <1>1, <1>2, <1>3, <1>4 DEF InputGuarded

-----------------------------------------------------------------------------
\* The kinds of steps.

\* A lost session is lost.
StaysLost == viewer.phase \in Lost => viewer'.phase \in Lost \/ viewer'.attempt > viewer.attempt

\* Callbacks have run, and challenges may have been answered.
CallStep ==
    /\ Became(viewer, viewer')
    /\ viewer'.bound => viewer.bound \/ response'.attempt = viewer.attempt
    /\ response'.attempt = viewer.attempt \/ response' = response
    /\ tr' \in Transport /\ Fresh(tr'.inbox, viewer.attempt)
    /\ UNCHANGED <<driver, key, out, count>> /\ user'.input = user.input

\* Callbacks keep what concerns the session and its input.
LEMMA CallKeeps ==
    ASSUME ViewerInv, CallStep PROVE SessionInv' /\ InputInv' /\ StaysLost
  <1>1. /\ ViewerOk(viewer') /\ viewer'.attempt = viewer.attempt /\ viewer'.seq = viewer.seq
        /\ viewer'.capture = viewer.capture
        /\ viewer.phase \in Lost => viewer'.phase \in Lost
    BY DEF CallStep, Became
  <1>2. BoundHere'
    BY <1>1 DEF CallStep, BoundHere, ViewerInv, SessionInv
  <1>3. SessionInv'
    BY <1>1, <1>2 DEF CallStep, ViewerInv, SessionInv
  <1>4. InputInv'
    BY <1>1 DEF CallStep, ViewerInv, InputInv, NoInputUnbound
  <1> QED BY <1>1, <1>3, <1>4 DEF StaysLost

\* The session stays as it is.
LEMMA RestKeeps ==
    ASSUME ViewerInv, tr' \in Transport, Fresh(tr'.inbox, viewer.attempt),
           UNCHANGED <<driver, key, viewer, response, out>>,
           count'.events \in Nat, user'.input = user.input, count'.events = count.events
    PROVE  SessionInv' /\ InputInv' /\ StaysLost
  BY DEF ViewerInv, SessionInv, InputInv, BoundHere, NoInputUnbound, StaysLost

\* An event more leaves the line as it is.
LEMMA MoreInLine ==
    ASSUME NEW p \in Nat, NEW q, NEW s \in Nat, NEW a \in Nat, NEW n \in Nat, NEW o,
           InLine(p, q, n), Budget(p, q, s, n), Ordered(o, a, s, Oldest(p, q, n))
    PROVE  /\ InLine(p, q, n + 1) /\ Budget(p, q, s, n + 1)
           /\ Ordered(o, a, s, Oldest(p, q, n + 1))
  <1>1. Foremost(q, n) \in Nat /\ Len(q) \in Nat /\ Oldest(p, q, n) \in Nat
    BY ForemostNat
  <1>2. Foremost(q, n) <= Foremost(q, n + 1) /\ Foremost(q, n + 1) \in Nat
    BY <1>1 DEF Foremost
  <1>3. InLine(p, q, n + 1)
    <2>1. \A i \in 1 .. Len(q) : q[i] \in Sample
      BY DEF InLine
    <2>2. \A i \in 1 .. Len(q) : 1 <= q[i].n /\ q[i].n <= n + 1
      BY <2>1 DEF InLine, Sample
    <2>3. p # 0 => p < Foremost(q, n + 1)
      BY <1>1, <1>2 DEF InLine
    <2> QED BY <2>2, <2>3 DEF InLine
  <1>4. Budget(p, q, s, n + 1)
    BY <1>1 DEF Budget
  <1>5. Oldest(p, q, n) <= Oldest(p, q, n + 1) /\ Oldest(p, q, n + 1) \in Nat
    BY <1>1, <1>2 DEF Oldest
  <1>6. Ordered(o, a, s, Oldest(p, q, n + 1))
    BY <1>1, <1>5, OrderedLater
  <1> QED BY <1>3, <1>4, <1>6

\* An event that is not a sample.
LEMMA EventKeeps ==
    ASSUME ViewerInv, tr' \in Transport, Fresh(tr'.inbox, viewer.attempt),
           UNCHANGED <<driver, key, viewer, response, out, user>>,
           count' = [count EXCEPT !.events = @ + 1]
    PROVE  SessionInv' /\ InputInv' /\ StaysLost
  <1>1. count'.events = count.events + 1 /\ count.events \in Nat
    BY DEF ViewerInv, WorkerInv
  <1>2. SessionInv' /\ StaysLost
    BY DEF ViewerInv, SessionInv, BoundHere, StaysLost
  <1>3. InputInv'
    BY <1>1, ViewerTypes, MoreInLine DEF ViewerInv, InputInv, NoInputUnbound
  <1> QED BY <1>2, <1>3

\* A connection begins.
LEMMA BegunOk ==
    ASSUME NEW v \in Viewer, NEW w, w = BegunConnect(v)
    PROVE  /\ ViewerOk(w) /\ w.attempt = v.attempt + 1 /\ ~w.bound /\ w.seq = 1
           /\ w.capture = NewCapture(v.capture.always) /\ w.buf = <<>>
  <1>1. v.attempt \in Nat /\ v.auto \in BOOLEAN /\ v.capture.always \in BOOLEAN
    BY DEF Viewer, Capture
  <1> DEFINE c == NewCapture(v.capture.always)
             b == Teardown(v).buf
             n == v.attempt + 1
             x == [NewViewer EXCEPT !.phase = "connecting", !.attempt = n,
                      !.sid = ConnectStub, !.auto = v.auto, !.buf = b, !.capture = c]
  <1>2. c \in Capture /\ b = <<>> /\ n \in Nat
    BY <1>1 DEF NewCapture, Capture, Teardown, Viewer
  <1> HIDE DEF c, b, n
  <1> DEFINE z == NewViewer
             y == [z EXCEPT !.phase = "connecting", !.attempt = n, !.sid = ConnectStub,
                            !.auto = v.auto, !.buf = b, !.capture = c]
  <1>3. /\ z \in Viewer /\ z.video = <<>> /\ z.audio = <<>> /\ z.decoded = 0 /\ z.enqueued = 0
        /\ z.played = 0 /\ z.dropped = 0 /\ z.status = "unbound" /\ ~z.bound
        /\ ~z.authorized /\ z.seq = 1
    <2>1. NewCapture(FALSE) \in Capture
      BY DEF NewCapture, Capture
    <2>2. <<>> \in Seq(Entry) /\ <<>> \in Seq(Nat)
      OBVIOUS
    <2>3. NewViewer \in Viewer
      BY <2>1, <2>2 DEF NewViewer, Viewer, ViewerPhase, Told
    <2> QED BY <2>3 DEF NewViewer
  <1>4. x = y
    OBVIOUS
  <1> HIDE DEF z
  <1>5. /\ y \in Viewer /\ y.video = <<>> /\ y.audio = <<>> /\ y.decoded = 0 /\ y.enqueued = 0
        /\ y.played = 0 /\ y.dropped = 0 /\ y.phase = "connecting" /\ y.status = "unbound"
        /\ ~y.bound /\ ~y.authorized /\ y.buf = <<>> /\ y.attempt = n /\ y.seq = 1
        /\ y.capture = c
    <2>1. y \in Viewer
      <3> DEFINE y1 == [z EXCEPT !.phase = "connecting", !.attempt = n, !.sid = ConnectStub]
                 y2 == [y1 EXCEPT !.auto = v.auto, !.buf = b, !.capture = c]
      <3>1. y1 \in Viewer
        BY <1>2, <1>3 DEF Viewer, ViewerPhase
      <3> HIDE DEF y1
      <3>2. b \in Seq(Entry)
        BY <1>2
      <3>3. y2 \in Viewer
        BY <1>1, <1>2, <3>1, <3>2 DEF Viewer
      <3>4. y = y2
        BY DEF y1
      <3> QED BY <3>3, <3>4
    <2> QED BY <1>2, <1>3, <2>1 DEF Viewer
  <1> HIDE DEF y
  <1>6. SyncBindStatus(y) = y
    <2>1. [y EXCEPT !.status = "unbound"] = y
      BY <1>5 DEF Viewer
    <2> QED BY <1>5, <2>1 DEF SyncBindStatus, BindStatus
  <1>7. w = y
    BY <1>4, <1>6 DEF BegunConnect, c, b, n
  <1>8. ViewerOk(y)
    BY <1>5, ViewerAssumption
       DEF ViewerOk, MediaOk, Newest, PhaseOk, BindStatus, Fresh, CanSendInput
  <1> QED BY <1>5, <1>7, <1>8 DEF c, n

\* A new connection has nothing of the old one.
LEMMA ConnectKeeps ==
    ASSUME ViewerInv, NEW v \in Viewer, v.attempt = viewer.attempt,
           viewer' = BegunConnect(v), tr' \in Transport, tr'.inbox = <<>>,
           UNCHANGED <<driver, key, response, out, count, user>>
    PROVE  SessionInv' /\ InputInv' /\ StaysLost
  <1>1. /\ ViewerOk(viewer') /\ viewer'.attempt = viewer.attempt + 1 /\ ~viewer'.bound
        /\ viewer'.seq = 1 /\ viewer'.capture = NewCapture(v.capture.always)
    BY BegunOk
  <1>2. Kosher(viewer'.capture) /\ viewer'.capture.pending = 0
    BY <1>1 DEF Kosher, NewCapture, Capture, Viewer
  <1>3. Fresh(tr'.inbox, viewer'.attempt)
    BY DEF Fresh
  <1>4. SessionInv'
    BY <1>1, <1>2, <1>3 DEF SessionInv, BoundHere
  <1>5. InLine(0, user.input, count.events)
    BY DEF ViewerInv, InputInv, InLine
  <1>6. Budget(0, user.input, 1, count.events)
    <2>1. Len(user.input) \in Nat
      BY ViewerTypes
    <2> QED BY <2>1, ViewerTypes DEF ViewerInv, InputInv, Budget
  <1>7. Ordered(out, viewer.attempt + 1, 1, Oldest(0, user.input, count.events))
    <2>1. /\ Oldest(0, user.input, count.events) \in Nat
          /\ Oldest(viewer.capture.pending, user.input, count.events) \in Nat
      BY <1>5, ViewerTypes, ForemostNat DEF ViewerInv, InputInv
    <2> QED BY <2>1, ViewerTypes, OrderedAnew DEF ViewerInv, InputInv
  <1>8. InputInv'
    BY <1>1, <1>2, <1>5, <1>6, <1>7 DEF ViewerInv, InputInv, NoInputUnbound
  <1> QED BY <1>1, <1>4, <1>8, ViewerTypes DEF StaysLost

\* A session after a send.
WithInput(v, t, c) == [v EXCEPT !.seq = t, !.capture = c]

\* Numbers taken and a capture changed leave the session sound.
LEMMA UpdateOk ==
    ASSUME NEW v, ViewerOk(v), NEW t \in Nat, NEW c \in Capture
    PROVE  LET w == WithInput(v, t, c) IN
           /\ ViewerOk(w) /\ w.attempt = v.attempt /\ w.bound = v.bound
           /\ w.phase = v.phase /\ w.seq = t /\ w.capture = c
  <1> DEFINE w == WithInput(v, t, c)
  <1>1. v \in Viewer
    BY DEF ViewerOk
  <1>2. w \in Viewer
    BY <1>1 DEF Viewer, WithInput
  <1>3. /\ w.buf = v.buf /\ w.phase = v.phase /\ w.told = v.told
        /\ w.attempt = v.attempt /\ w.authorized = v.authorized /\ w.bound = v.bound
        /\ w.status = v.status /\ w.seq = t /\ w.capture = c
        /\ w.video = v.video /\ w.decoded = v.decoded /\ w.audio = v.audio
        /\ w.enqueued = v.enqueued /\ w.dropped = v.dropped /\ w.played = v.played
    BY <1>1 DEF Viewer, WithInput
  <1> QED BY <1>2, <1>3 DEF ViewerOk, MediaOk, PhaseOk, BindStatus

\* Frames that were drawn are gone.
LEMMA DrawnOk ==
    ASSUME NEW v, ViewerOk(v), NEW w, w = [v EXCEPT !.video = <<>>]
    PROVE  /\ ViewerOk(w) /\ w.attempt = v.attempt /\ w.bound = v.bound
           /\ w.phase = v.phase /\ w.seq = v.seq /\ w.capture = v.capture
  <1>1. v \in Viewer /\ <<>> \in Seq(Nat)
    BY DEF ViewerOk
  <1>2. w \in Viewer
    BY <1>1 DEF Viewer
  <1>3. /\ w.buf = v.buf /\ w.phase = v.phase /\ w.told = v.told
        /\ w.attempt = v.attempt /\ w.authorized = v.authorized /\ w.bound = v.bound
        /\ w.status = v.status /\ w.seq = v.seq /\ w.capture = v.capture
        /\ w.video = <<>> /\ w.decoded = v.decoded /\ w.audio = v.audio
        /\ w.enqueued = v.enqueued /\ w.dropped = v.dropped /\ w.played = v.played
    BY <1>1 DEF Viewer
  <1> QED BY <1>2, <1>3, ViewerAssumption
          DEF ViewerOk, MediaOk, Newest, PhaseOk, BindStatus

\* A packet that was played.
LEMMA PlayedOk ==
    ASSUME NEW v, ViewerOk(v), NEW w, w = PlayOne(v)
    PROVE  Became(v, w) /\ w.bound = v.bound
  <1>1. v \in Viewer /\ MediaOk(v)
    BY DEF ViewerOk
  <1> QED BY <1>1, PlayOneSound DEF Became, ViewerOk, PhaseOk, BindStatus

\* The buffer emptied.
LEMMA TeardownOk ==
    ASSUME NEW v, ViewerOk(v)
    PROVE  Became(v, Teardown(v)) /\ Teardown(v).bound = v.bound
  <1> DEFINE w == Teardown(v)
  <1>1. v \in Viewer /\ <<>> \in Seq(Entry)
    BY DEF ViewerOk
  <1>2. w \in Viewer
    BY <1>1 DEF Viewer, Teardown
  <1>3. /\ w.buf = <<>> /\ w.phase = v.phase /\ w.told = v.told
        /\ w.attempt = v.attempt /\ w.authorized = v.authorized /\ w.bound = v.bound
        /\ w.status = v.status /\ w.seq = v.seq /\ w.capture = v.capture
        /\ w.video = v.video /\ w.decoded = v.decoded /\ w.audio = v.audio
        /\ w.enqueued = v.enqueued /\ w.dropped = v.dropped /\ w.played = v.played
    BY <1>1 DEF Viewer, Teardown
  <1> QED BY <1>2, <1>3 DEF Became, ViewerOk, MediaOk, PhaseOk, BindStatus, Fresh

\* A new phase, and news of the transport.
WithPhase(v, ph, s) == [v EXCEPT !.phase = ph, !.told = s]

\* A phase that agrees with the news leaves the session sound.
LEMMA PhaseUpdateOk ==
    ASSUME NEW v, ViewerOk(v), NEW ph \in ViewerPhase, NEW s \in Told,
           ph \in CanSendInput => s \notin Lost, v.phase \in Lost => ph \in Lost
    PROVE  Became(v, WithPhase(v, ph, s)) /\ WithPhase(v, ph, s).bound = v.bound
  <1> DEFINE w == WithPhase(v, ph, s)
  <1>1. v \in Viewer
    BY DEF ViewerOk
  <1>2. w \in Viewer
    BY <1>1 DEF Viewer, WithPhase
  <1>3. /\ w.buf = v.buf /\ w.phase = ph /\ w.told = s
        /\ w.attempt = v.attempt /\ w.authorized = v.authorized /\ w.bound = v.bound
        /\ w.status = v.status /\ w.seq = v.seq /\ w.capture = v.capture
        /\ w.video = v.video /\ w.decoded = v.decoded /\ w.audio = v.audio
        /\ w.enqueued = v.enqueued /\ w.dropped = v.dropped /\ w.played = v.played
    BY <1>1 DEF Viewer, WithPhase
  <1> QED BY <1>2, <1>3 DEF Became, ViewerOk, MediaOk, PhaseOk, BindStatus, Fresh

\* A closed session.
LEMMA ClosedOk ==
    ASSUME NEW v, ViewerOk(v)
    PROVE  Became(v, Closed(v)) /\ Closed(v).bound = v.bound
  <1> DEFINE u == Teardown(v)
  <1>1. Became(v, u) /\ u.bound = v.bound /\ ViewerOk(u)
    BY TeardownOk DEF Became
  <1>2. Closed(v) = WithPhase(u, "closed", "closed")
    BY DEF Closed, WithPhase
  <1> HIDE DEF u
  <1>3. /\ "closed" \in ViewerPhase /\ "closed" \in Told /\ "closed" \notin CanSendInput
        /\ "closed" \in Lost
    BY DEF ViewerPhase, Told, CanSendInput, Lost
  <1>4. Became(u, Closed(v)) /\ Closed(v).bound = u.bound
    BY <1>1, <1>2, <1>3, PhaseUpdateOk
  <1> QED BY <1>1, <1>4, BecameTransitive

\* The phase of a session whose offer arrived.
LEMMA AnsweringOk ==
    ASSUME NEW v, ViewerOk(v)
    PROVE  Became(v, Answering(v)) /\ Answering(v).bound = v.bound
  <1> DEFINE ph == IF v.phase \in {"connecting", "answering"} THEN "answering" ELSE v.phase
  <1>1. v \in Viewer /\ v.phase \in ViewerPhase /\ v.told \in Told /\ PhaseOk(v)
    BY DEF ViewerOk, Viewer
  <1>2. /\ ph \in ViewerPhase
        /\ ph \in CanSendInput => v.told \notin Lost
        /\ v.phase \in Lost => ph \in Lost
    BY <1>1 DEF ViewerPhase, CanSendInput, Lost, PhaseOk
  <1>3. Answering(v) = WithPhase(v, ph, v.told)
    BY <1>1 DEF Answering, Viewer, WithPhase
  <1> HIDE DEF ph
  <1>4. Became(v, WithPhase(v, ph, v.told)) /\ WithPhase(v, ph, v.told).bound = v.bound
    BY <1>1, <1>2, PhaseUpdateOk
  <1> QED BY <1>3, <1>4

\* The messages made of samples.
LEMMA EncodedSound ==
    ASSUME NEW v \in Viewer, NEW e \in Seq(Sample), NEW k \in 0 .. Len(e)
    PROVE  /\ Encoded(v, e, k) \in Seq(Message) /\ Len(Encoded(v, e, k)) = k
           /\ \A i \in 1 .. k : /\ Encoded(v, e, k)[i].seq = v.seq + i - 1
                                /\ Encoded(v, e, k)[i].n = e[i].n
                                /\ Encoded(v, e, k)[i].attempt = v.attempt
                                /\ Encoded(v, e, k)[i].bound = v.bound
  <1> DEFINE m(i) == [seq |-> v.seq + i - 1, n |-> e[i].n, attempt |-> v.attempt,
                      bound |-> v.bound]
             r == [i \in 1 .. k |-> m(i)]
  <1>1. k \in Nat /\ Len(e) \in Nat /\ v.seq \in Nat /\ v.attempt \in Nat /\ v.bound \in BOOLEAN
    BY DEF Viewer
  <1>2. \A i \in 1 .. k : e[i] \in Sample
    BY <1>1
  <1>3. \A i \in 1 .. k : m(i) \in Message
    BY <1>1, <1>2 DEF Message, Sample
  <1>4. Encoded(v, e, k) = r
    BY DEF Encoded
  <1>5. \A i \in 1 .. k : /\ m(i).seq = v.seq + i - 1 /\ m(i).n = e[i].n
                          /\ m(i).attempt = v.attempt /\ m(i).bound = v.bound
    OBVIOUS
  <1> HIDE DEF m
  <1>6. r \in Seq(Message) /\ Len(r) = k /\ \A i \in 1 .. k : r[i] = m(i)
    BY <1>1, <1>3
  <1> QED BY <1>4, <1>5, <1>6

\* Samples in line go out.
LEMMA SendKeeps ==
    ASSUME NEW v, ViewerOk(v), NEW q, NEW r, NEW n \in Nat, NEW e, NEW d,
           Kosher(v.capture), InLine(v.capture.pending, q, n),
           Ordered(out, v.attempt, v.seq, Oldest(v.capture.pending, q, n)),
           Budget(v.capture.pending, q, v.seq, n), Len(q) \in Nat, Len(r) \in Nat,
           NoInputUnbound, key => v.bound, key' = key,
           Emits(v.capture, q, n, e, d, r), SendCaptured(v, e, d)
    PROVE  /\ ViewerOk(viewer') /\ Kosher(viewer'.capture)
           /\ viewer'.attempt = v.attempt /\ viewer'.bound = v.bound /\ viewer'.phase = v.phase
           /\ InLine(viewer'.capture.pending, r, n)
           /\ Ordered(out', viewer'.attempt, viewer'.seq, Oldest(viewer'.capture.pending, r, n))
           /\ Budget(viewer'.capture.pending, r, viewer'.seq, n)
           /\ NoInputUnbound'
  <1>1. /\ v \in Viewer /\ v.seq \in Nat /\ v.attempt \in Nat /\ v.bound \in BOOLEAN
        /\ v.capture.pending \in Nat /\ d \in Capture /\ d.pending \in Nat /\ e \in Seq(Sample)
        /\ Kosher(d) /\ InLine(d.pending, r, n)
    BY DEF ViewerOk, Viewer, Capture, Emits, Kosher
  <1>2. PICK k \in 0 .. Len(e) :
            /\ out' = out \o Encoded(v, e, k)
            /\ viewer' = [v EXCEPT !.seq = @ + (IF k < Len(e) THEN k + 1 ELSE k), !.capture = d]
    <2>1. Len(e) \in Nat
      BY <1>1
    <2>2. 0 .. (IF tr.state = "connected" THEN Len(e) ELSE 0) \subseteq 0 .. Len(e)
      BY <2>1
    <2> QED BY <2>2 DEF SendCaptured
  <1> DEFINE t == v.seq + (IF k < Len(e) THEN k + 1 ELSE k)
             lo == Oldest(v.capture.pending, q, n)
             hi == Oldest(d.pending, r, n)
             m == Encoded(v, e, k)
  <1>3. k \in Nat /\ Len(e) \in Nat /\ t \in Nat /\ v.seq + k <= t /\ t <= v.seq + Len(e)
    BY <1>1, <1>2
  <1>4. viewer' = WithInput(v, t, d)
    BY <1>1, <1>2 DEF Viewer, WithInput
  <1> HIDE DEF t
  <1>5. /\ ViewerOk(viewer') /\ viewer'.attempt = v.attempt /\ viewer'.bound = v.bound
        /\ viewer'.phase = v.phase /\ viewer'.seq = t /\ viewer'.capture = d
    <2> DEFINE w == WithInput(v, t, d)
    <2>1. /\ ViewerOk(w) /\ w.attempt = v.attempt /\ w.bound = v.bound
          /\ w.phase = v.phase /\ w.seq = t /\ w.capture = d
      BY <1>1, <1>3, UpdateOk
    <2> HIDE DEF w
    <2> QED BY <1>4, <2>1 DEF w
  <1>6. lo \in Nat /\ hi \in Nat /\ lo <= hi
    BY <1>1, ForemostNat DEF Emits
  <1>7. /\ m \in Seq(Message) /\ Len(m) = k
        /\ \A i \in 1 .. k : /\ m[i].seq = v.seq + i - 1 /\ m[i].n = e[i].n
                             /\ m[i].attempt = v.attempt /\ m[i].bound = v.bound
    BY <1>1, EncodedSound
  <1>8. \A i \in 1 .. k : lo <= m[i].n /\ m[i].n < hi
    <2>1. \A i \in 1 .. k : i \in 1 .. Len(e)
      BY <1>3
    <2> QED BY <1>7, <2>1 DEF Emits
  <1>9. \A i, j \in 1 .. k : i < j => m[i].n < m[j].n
    <2>1. \A i \in 1 .. k : i \in 1 .. Len(e)
      BY <1>3
    <2> QED BY <1>7, <2>1 DEF Emits
  <1>10. Ordered(out, v.attempt, v.seq, lo)
    OBVIOUS
  <1>11. out' = out \o m
    BY <1>2
  <1> HIDE DEF lo, hi, m
  <1>12. Ordered(out', v.attempt, v.seq + k, hi)
    BY <1>1, <1>3, <1>6, <1>7, <1>8, <1>9, <1>10, <1>11, SendKeepsOrder
  <1>13. Ordered(out', v.attempt, t, hi)
    <2> DEFINE s == v.seq + k
               o == out'
               a == v.attempt
    <2>1. s \in Nat /\ s <= t /\ t \in Nat /\ hi \in Nat /\ hi <= hi /\ a \in Nat
      BY <1>1, <1>3, <1>6
    <2>2. Ordered(o, a, s, hi)
      BY <1>12
    <2> HIDE DEF s, o, a
    <2>3. Ordered(o, a, t, hi)
      BY <2>1, <2>2, OrderedLater
    <2> QED BY <2>3 DEF o, a
  <1>14. Budget(d.pending, r, t, n)
    <2>1. Len(e) + One(d.pending) + Len(r) <= One(v.capture.pending) + Len(q)
      BY DEF Emits
    <2>2. One(d.pending) \in Nat /\ One(v.capture.pending) \in Nat
      BY DEF One
    <2>3. v.seq >= 1 /\ v.seq - 1 + One(v.capture.pending) + Len(q) <= n
      BY DEF Budget, One
    <2>4. t >= 1
      BY <1>1, <1>3, <2>3
    <2>5. \A a, b, x, y, z, l \in Nat :
              a <= b + l /\ l + x + y <= z /\ b - 1 + z <= n => a - 1 + x + y <= n
      OBVIOUS
    <2>6. One(v.capture.pending) + Len(q) \in Nat
          /\ v.seq - 1 + (One(v.capture.pending) + Len(q)) <= n
      BY <1>1, <2>2, <2>3
    <2>7. t - 1 + One(d.pending) + Len(r) <= n
      BY <1>1, <1>3, <2>1, <2>2, <2>5, <2>6
    <2> QED BY <2>4, <2>7 DEF Budget, One
  <1>15. NoInputUnbound'
    <2>1. SUFFICES ASSUME key, NEW i \in 1 .. Len(out') PROVE out'[i].bound
      BY DEF NoInputUnbound
    <2>2. out \in Seq(Message) /\ Len(out) \in Nat
      BY <1>10 DEF Ordered
    <2>3. /\ Len(out') = Len(out) + k
          /\ \A j \in 1 .. Len(out) + k :
                 out'[j] = IF j <= Len(out) THEN out[j] ELSE m[j - Len(out)]
      BY <1>7, <1>11, <2>2, ConcatProperties
    <2>4. CASE i <= Len(out)
      BY <2>1, <2>2, <2>3, <2>4, <1>3 DEF NoInputUnbound
    <2>5. CASE ~(i <= Len(out))
      <3>1. i - Len(out) \in 1 .. k /\ out'[i] = m[i - Len(out)]
        BY <1>3, <2>2, <2>3, <2>5
      <3> QED BY <1>7, <2>1, <3>1
    <2> QED BY <2>4, <2>5
  <1> QED BY <1>1, <1>5, <1>13, <1>14, <1>15 DEF hi

-----------------------------------------------------------------------------
\* The steps, by what they do to the session.

\* What the worker, its signaling and its user may do between connects.
Places == [pc : Pcs, offer : BOOLEAN]
AtWork ==
    /\ worker' \in Places /\ sig' \in Seq(Signals)
    /\ worker'.pc \in Early => worker.pc \in Early
    /\ driver = "ui" => worker'.pc = "off"

\* Between connects the worker's part of the invariant is kept.
LEMMA WorkerKeeps ==
    ASSUME ViewerInv, AtWork, UNCHANGED <<driver, key>>, viewer'.attempt = viewer.attempt,
           user' \in [stop : BOOLEAN, input : Seq(Sample)],
           driver = "ui" => user'.input = <<>>,
           count' \in [events : Nat, flap : Nat, signal : Nat]
    PROVE  WorkerInv'
  BY DEF ViewerInv, WorkerInv, AtWork, Places

\* Whoever stays is at work.
LEMMA StayingPut ==
    ASSUME ViewerInv, UNCHANGED <<worker, sig>> PROVE AtWork
  BY DEF ViewerInv, WorkerInv, AtWork, Places

\* A message taken leaves the others.
LEMMA TakingOne ==
    ASSUME ViewerInv, NEW m, Took(m) PROVE sig' \in Seq(Signals)
  <1>1. sig \in Seq(Signals) /\ sig # <<>> /\ sig' = Tail(sig)
    BY DEF ViewerInv, WorkerInv, Took
  <1> QED BY <1>1

\* The worker is somewhere in its connection.
Connected == {"negotiate", "recv", "poll", "input", "media", "done"}

\* The worker goes on.
LEMMA Moving ==
    ASSUME ViewerInv, worker.pc # "off", NEW pc \in Connected, Goto(pc), sig' \in Seq(Signals)
    PROVE  AtWork
  BY DEF ViewerInv, WorkerInv, AtWork, Places, Goto, Connected, Pcs

\* A call, made by a window or a worker, keeps the invariant.
LEMMA CallStepKeeps ==
    ASSUME ViewerInv, CallStep, AtWork, UNCHANGED user
    PROVE  ViewerInv' /\ StaysLost
  <1>1. SessionInv' /\ InputInv' /\ StaysLost
    BY CallKeeps
  <1>2. UNCHANGED <<driver, key, count>> /\ viewer'.attempt = viewer.attempt
    BY DEF CallStep, Became
  <1>3. WorkerInv'
    BY <1>2, WorkerKeeps DEF ViewerInv, WorkerInv
  <1> QED BY <1>1, <1>3 DEF ViewerInv

\* A transport without callbacks waiting.
LEMMA EmptyInbox ==
    ASSUME NEW t \in Transport, NEW a, NEW s \in TransportStates
    PROVE  /\ Emptied(t) \in Transport /\ Fresh(Emptied(t).inbox, a)
           /\ NoTransport \in Transport /\ Fresh(NoTransport.inbox, a)
           /\ NoTransport.inbox = <<>>
           /\ [NoTransport EXCEPT !.state = s] \in Transport
           /\ [NoTransport EXCEPT !.state = s].inbox = <<>>
           /\ [t EXCEPT !.state = s] \in Transport /\ [t EXCEPT !.state = s].inbox = t.inbox
  <1>1. <<>> \in Seq(Entry)
    OBVIOUS
  <1>2. Emptied(t) \in Transport /\ Emptied(t).inbox = <<>>
    BY <1>1 DEF Emptied, Transport
  <1>3. NoTransport \in Transport /\ NoTransport.inbox = <<>>
    BY <1>1 DEF NoTransport, Transport, TransportStates
  <1>4. [NoTransport EXCEPT !.state = s] \in Transport
        /\ [NoTransport EXCEPT !.state = s].inbox = <<>>
    BY <1>3 DEF Transport
  <1>5. [t EXCEPT !.state = s] \in Transport /\ [t EXCEPT !.state = s].inbox = t.inbox
    BY DEF Transport
  <1> QED BY <1>2, <1>3, <1>4, <1>5 DEF Fresh

\* A poll is a call.
LEMMA PollIsCall ==
    ASSUME ViewerInv, Poll, UNCHANGED <<driver, key, out, user, count>>
    PROVE  CallStep
  <1>1. tr \in Transport /\ tr.inbox \in Seq(Entry) /\ Fresh(tr.inbox, viewer.attempt)
        /\ ViewerOk(viewer)
    BY ViewerTypes DEF ViewerInv, SessionInv
  <1>2. tr' \in Transport /\ Fresh(tr'.inbox, viewer.attempt)
    BY <1>1, EmptyInbox DEF Poll, TransportStates
  <1>3. /\ Became(viewer, PollSession(viewer, tr))
        /\ PollSession(viewer, tr).bound
               => viewer.bound \/ PollResponse(viewer, tr).attempt = viewer.attempt
        /\ PollResponse(viewer, tr).attempt = viewer.attempt
               \/ PollResponse(viewer, tr) = response
    BY <1>1, PollSessionOk
  <1> QED BY <1>2, <1>3 DEF CallStep, Poll

\* So is a buffer drained, whatever phase the session was put in before,
LEMMA DrainIsCall ==
    ASSUME ViewerInv, NEW v, Became(viewer, v), v.bound = viewer.bound,
           viewer' = Drain(v), response' = Response(v),
           tr' \in Transport, Fresh(tr'.inbox, viewer.attempt),
           UNCHANGED <<driver, key, out, user, count>>
    PROVE  CallStep
  <1>1. ViewerOk(v) /\ v.attempt = viewer.attempt
    BY DEF Became
  <1>2. /\ Became(v, Drain(v))
        /\ Drain(v).bound => v.bound \/ Response(v).attempt = v.attempt
        /\ Response(v).attempt = v.attempt \/ Response(v) = response
    BY <1>1, Drained
  <1>3. Became(viewer, Drain(v))
    BY <1>2, BecameTransitive
  <1> QED BY <1>1, <1>2, <1>3 DEF CallStep

\* an offer accepted,
LEMMA AcceptIsCall ==
    ASSUME ViewerInv, AcceptOffer, UNCHANGED <<driver, key, out, user, count>>
    PROVE  CallStep
  <1>1. ViewerOk(viewer) /\ tr \in Transport /\ Fresh(tr.inbox, viewer.attempt)
    BY DEF ViewerInv, SessionInv
  <1>2. Became(viewer, Answering(viewer)) /\ Answering(viewer).bound = viewer.bound
    BY <1>1, AnsweringOk
  <1>3. tr' \in Transport /\ Fresh(tr'.inbox, viewer.attempt)
    BY <1>1, EmptyInbox DEF AcceptOffer, TransportStates
  <1> QED BY <1>2, <1>3, DrainIsCall DEF AcceptOffer

\* A step in which no challenge is answered.
LEMMA QuietIsCall ==
    ASSUME ViewerInv, Became(viewer, viewer'), viewer'.bound = viewer.bound,
           tr' \in Transport, Fresh(tr'.inbox, viewer.attempt),
           UNCHANGED <<driver, key, response, out, user, count>>
    PROVE  CallStep
  BY DEF CallStep

\* a session closed,
LEMMA CloseIsCall ==
    ASSUME ViewerInv, viewer' = Closed(viewer), tr' = NoTransport,
           UNCHANGED <<driver, key, response, out, user, count>>
    PROVE  CallStep
  <1>1. Became(viewer, viewer') /\ viewer'.bound = viewer.bound
    BY ClosedOk DEF ViewerInv, SessionInv
  <1>2. tr' \in Transport /\ Fresh(tr'.inbox, viewer.attempt)
    BY EmptyInbox DEF ViewerInv, SessionInv, TransportStates
  <1> QED BY <1>1, <1>2, QuietIsCall

\* nothing at all,
LEMMA StayIsCall ==
    ASSUME ViewerInv, UNCHANGED <<driver, key, viewer, tr, response, out, user, count>>
    PROVE  CallStep
  <1>1. Became(viewer, viewer) /\ tr \in Transport /\ Fresh(tr.inbox, viewer.attempt)
    BY DEF Became, ViewerInv, SessionInv
  <1> QED BY <1>1, QuietIsCall

\* a candidate that drains the buffer, with the poll behind it,
LEMMA IcePollIsCall ==
    ASSUME ViewerInv, AddIceAndPoll PROVE CallStep
  <1>1. tr \in Transport /\ tr.inbox \in Seq(Entry) /\ Fresh(tr.inbox, viewer.attempt)
        /\ ViewerOk(viewer)
    BY ViewerTypes DEF ViewerInv, SessionInv
  <1>2. tr' \in Transport /\ Fresh(tr'.inbox, viewer.attempt)
    BY <1>1, EmptyInbox DEF AddIceAndPoll, TransportStates
  <1> DEFINE d == Drain(viewer)
             w == PollSession(d, tr)
             r == Response(viewer)
             s == PollResponse(d, tr)
  <1>3. /\ Became(viewer, d)
        /\ d.bound => viewer.bound \/ r.attempt = viewer.attempt
        /\ r.attempt = viewer.attempt \/ r = response
    BY <1>1, Drained
  <1>4. ViewerOk(d) /\ d.attempt = viewer.attempt
    BY <1>1, Drained DEF Became
  <1>5. viewer' = w /\ response' = IF r # response THEN r ELSE s
    BY DEF AddIceAndPoll
  <1> HIDE DEF d, r
  <1>6. /\ Became(d, w)
        /\ w.bound => d.bound \/ s.attempt = d.attempt
        /\ s.attempt = d.attempt \/ s = response
    BY <1>1, <1>4, PollSessionOk
  <1>7. Became(viewer, viewer')
    BY <1>3, <1>5, <1>6, BecameTransitive
  <1> HIDE DEF w, s
  <1>8. /\ viewer'.bound => viewer.bound \/ response'.attempt = viewer.attempt
        /\ response'.attempt = viewer.attempt \/ response' = response
    BY <1>3, <1>4, <1>5, <1>6
  <1> QED BY <1>2, <1>7, <1>8 DEF CallStep, AddIceAndPoll

\* and a poll with a candidate behind it.
LEMMA PollIceIsCall ==
    ASSUME ViewerInv, MediaIce PROVE CallStep
  <1>1. tr \in Transport /\ tr.inbox \in Seq(Entry) /\ Fresh(tr.inbox, viewer.attempt)
        /\ ViewerOk(viewer)
    BY ViewerTypes DEF ViewerInv, SessionInv
  <1>2. tr' \in Transport /\ Fresh(tr'.inbox, viewer.attempt)
    BY <1>1, EmptyInbox DEF MediaIce, TransportStates
  <1> DEFINE p == PollSession(viewer, tr)
             w == Drain(p)
             r == Response(p)
             s == PollResponse(viewer, tr)
  <1>3. /\ Became(viewer, p)
        /\ p.bound => viewer.bound \/ s.attempt = viewer.attempt
        /\ s.attempt = viewer.attempt \/ s = response
    BY <1>1, PollSessionOk
  <1>4. ViewerOk(p) /\ p.attempt = viewer.attempt
    BY <1>3 DEF Became
  <1>5. viewer' = w /\ response' = IF r # response THEN r ELSE s
    BY DEF MediaIce
  <1> HIDE DEF p, s
  <1>6. /\ Became(p, w)
        /\ w.bound => p.bound \/ r.attempt = p.attempt
        /\ r.attempt = p.attempt \/ r = response
    BY <1>4, Drained
  <1>7. Became(viewer, viewer')
    BY <1>3, <1>5, <1>6, BecameTransitive
  <1> HIDE DEF w, r
  <1>8. /\ viewer'.bound => viewer.bound \/ response'.attempt = viewer.attempt
        /\ response'.attempt = viewer.attempt \/ response' = response
    BY <1>3, <1>4, <1>5, <1>6
  <1> QED BY <1>2, <1>7, <1>8 DEF CallStep, MediaIce

-----------------------------------------------------------------------------
\* Calls keep the invariant.

\* The window's calls.
LEMMA WindowCalls ==
    ASSUME ViewerInv, UiAttach \/ UiAcceptOffer \/ UiPoll \/ UiDrain \/ UiClose
    PROVE  ViewerInv' /\ StaysLost
  <1>1. CallStep
    <2>1. CASE UiAttach
      <3>1. Became(viewer, viewer') /\ viewer'.bound = viewer.bound
        BY <2>1, TeardownOk DEF UiAttach, ViewerInv, SessionInv
      <3>2. "new" \in TransportStates /\ tr \in Transport
        BY DEF TransportStates, ViewerInv, SessionInv
      <3>3. tr' \in Transport /\ tr'.inbox = <<>>
        BY <2>1, <3>2, EmptyInbox DEF UiAttach
      <3>4. Fresh(tr'.inbox, viewer.attempt)
        BY <3>3 DEF Fresh
      <3> QED BY <2>1, <3>1, <3>3, <3>4, QuietIsCall DEF UiAttach
    <2>2. CASE UiAcceptOffer
      <3>1. CASE AcceptOffer
        BY <2>2, <3>1, AcceptIsCall DEF UiAcceptOffer
      <3>2. CASE RefuseOffer
        <4>1. Became(viewer, viewer') /\ viewer'.bound = viewer.bound
          BY <3>2, AnsweringOk DEF RefuseOffer, ViewerInv, SessionInv
        <4>2. tr' \in Transport /\ Fresh(tr'.inbox, viewer.attempt)
          BY <3>2 DEF RefuseOffer, ViewerInv, SessionInv
        <4> QED BY <2>2, <3>2, <4>1, <4>2, QuietIsCall DEF UiAcceptOffer, RefuseOffer
      <3> QED BY <2>2, <3>1, <3>2 DEF UiAcceptOffer
    <2>3. CASE UiPoll
      BY <2>3, PollIsCall DEF UiPoll
    <2>4. CASE UiDrain
      <3> DEFINE v == [viewer EXCEPT !.video = <<>>]
      <3>1. /\ ViewerOk(v) /\ v.attempt = viewer.attempt /\ v.bound = viewer.bound
            /\ v.phase = viewer.phase /\ v.seq = viewer.seq /\ v.capture = viewer.capture
        BY DrawnOk DEF ViewerInv, SessionInv
      <3>2. viewer' = PlayOne(v)
        BY <2>4 DEF UiDrain
      <3> HIDE DEF v
      <3>3. Became(v, viewer') /\ viewer'.bound = v.bound
        BY <3>1, <3>2, PlayedOk
      <3>4. Became(viewer, viewer') /\ viewer'.bound = viewer.bound
        BY <3>1, <3>3 DEF Became
      <3>5. tr' \in Transport /\ Fresh(tr'.inbox, viewer.attempt)
        BY <2>4 DEF UiDrain, ViewerInv, SessionInv
      <3> QED BY <2>4, <3>4, <3>5, QuietIsCall DEF UiDrain
    <2>5. CASE UiClose
      BY <2>5, CloseIsCall DEF UiClose
    <2> QED BY <2>1, <2>2, <2>3, <2>4, <2>5
  <1>2. UNCHANGED <<worker, sig, user>>
    BY DEF UiAttach, UiAcceptOffer, UiPoll, UiDrain, UiClose
  <1>3. AtWork
    BY <1>2, StayingPut
  <1> QED BY <1>1, <1>2, <1>3, CallStepKeeps

\* The worker returns.
LEMMA ReturnKeeps ==
    ASSUME ViewerInv, worker.pc # "off", Return, sig' \in Seq(Signals),
           UNCHANGED <<driver, key, response, out, user, count>>
    PROVE  ViewerInv' /\ StaysLost
  <1>1. CallStep
    BY CloseIsCall DEF Return
  <1>2. AtWork
    BY Moving DEF Return, Connected
  <1> QED BY <1>1, <1>2, CallStepKeeps

\* The worker's returns.
LEMMA WorkerReturns ==
    ASSUME ViewerInv,
           \/ NotAccepted \/ NegotiateEnd \/ CliEnd \/ NegotiateStopped
           \/ LiveExit \/ MediaEnd
    PROVE  ViewerInv' /\ StaysLost
  <1>1. sig \in Seq(Signals)
    BY DEF ViewerInv, WorkerInv
  <1>2. sig' \in Seq(Signals)
    <2>1. UNCHANGED sig \/ \E m \in Signals : Took(m)
      BY DEF NotAccepted, NegotiateEnd, CliEnd, NegotiateStopped, LiveExit, MediaEnd, Signals
    <2> QED BY <1>1, <2>1, TakingOne
  <1>3. /\ worker.pc # "off" /\ Return
        /\ UNCHANGED <<driver, key, response, out, user, count>>
    BY DEF NotAccepted, NegotiateEnd, CliEnd, NegotiateStopped, LiveExit, MediaEnd, Return
  <1> QED BY <1>2, <1>3, ReturnKeeps

\* The worker's steps while it negotiates.
LEMMA NegotiationCalls ==
    ASSUME ViewerInv,
           \/ NegotiateOffer \/ CliOffer \/ NegotiatePoll \/ CliIgnores
           \/ NegotiateIce \/ CliIce \/ NegotiateDeadline
    PROVE  ViewerInv' /\ StaysLost
  <1>2. worker.pc = "negotiate" /\ sig \in Seq(Signals)
    BY DEF NegotiateOffer, CliOffer, AnswerOffer, NegotiatePoll, CliIgnores,
           NegotiateIce, CliIce,
           AddIceAndPoll, NegotiateDeadline, ViewerInv, WorkerInv
  <1>3. Negotiated(worker.offer, tr) \in Connected
    BY DEF Negotiated, Connected
  <1>4. CASE AnswerOffer
    <2>1. CallStep
      BY <1>4, AcceptIsCall DEF AnswerOffer
    <2>2. sig' \in Seq(Signals)
      BY <1>4, TakingOne DEF AnswerOffer
    <2>3. AtWork
      BY <1>2, <1>4, <2>2 DEF AnswerOffer, AtWork, Places, ViewerInv, WorkerInv
    <2> QED BY <1>4, <2>1, <2>3, CallStepKeeps DEF AnswerOffer
  <1>5. CASE NegotiatePoll
    <2>1. CallStep
      BY <1>5, PollIsCall DEF NegotiatePoll
    <2>3. AtWork
      BY <1>5, StayingPut DEF NegotiatePoll
    <2> QED BY <1>5, <2>1, <2>3, CallStepKeeps DEF NegotiatePoll
  <1>8. CASE CliIgnores
    <2>1. CallStep
      BY <1>8, PollIsCall DEF CliIgnores
    <2>2. sig' \in Seq(Signals)
      BY <1>2, <1>8, TakingOne DEF CliIgnores
    <2>3. AtWork
      BY <1>2, <1>3, <1>8, <2>2, Moving DEF CliIgnores
    <2> QED BY <1>8, <2>1, <2>3, CallStepKeeps DEF CliIgnores
  <1>6. CASE AddIceAndPoll
    <2>1. CallStep
      BY <1>6, IcePollIsCall
    <2>2. sig' \in Seq(Signals)
      BY <1>6, TakingOne DEF AddIceAndPoll
    <2>3. AtWork
      BY <1>2, <1>3, <1>6, <2>2, Moving DEF AddIceAndPoll
    <2> QED BY <1>6, <2>1, <2>3, CallStepKeeps DEF AddIceAndPoll
  <1>7. CASE NegotiateDeadline
    <2>1. CASE worker.offer
      <3>1. CallStep
        BY <1>7, <2>1, StayIsCall DEF NegotiateDeadline
      <3>2. AtWork
        <4>1. PICK pc \in Connected : Goto(pc)
          BY <1>7, <2>1 DEF NegotiateDeadline, Connected
        <4>2. UNCHANGED sig
          BY <1>7 DEF NegotiateDeadline
        <4> QED BY <1>2, <4>1, <4>2, Moving
      <3> QED BY <1>7, <3>1, <3>2, CallStepKeeps DEF NegotiateDeadline
    <2>2. CASE ~worker.offer
      BY <1>2, <1>7, <2>2, ReturnKeeps DEF NegotiateDeadline
    <2> QED BY <2>1, <2>2
  <1> QED
    BY <1>4, <1>5, <1>6, <1>7, <1>8 DEF NegotiateOffer, CliOffer, NegotiateIce, CliIce

\* The worker's steps while media arrive.
LEMMA StreamCalls ==
    ASSUME ViewerInv, LiveRecv \/ LivePoll \/ MediaPoll \/ MediaIce
    PROVE  ViewerInv' /\ StaysLost
  <1>1. sig \in Seq(Signals) /\ worker \in Places
    BY DEF ViewerInv, WorkerInv, Places
  <1>2. CASE LiveRecv
    <2>1. sig' \in Seq(Signals)
      BY <1>1, <1>2, TakingOne DEF LiveRecv
    <2>2. AtWork
      BY <1>2, <2>1, Moving DEF LiveRecv, Connected
    <2>3. CallStep
      <3>1. CASE AddRemoteIce
        <4>1. ViewerOk(viewer) /\ tr \in Transport /\ Fresh(tr.inbox, viewer.attempt)
          BY DEF ViewerInv, SessionInv
        <4>2. Became(viewer, viewer)
          BY <4>1 DEF Became
        <4> QED BY <1>2, <3>1, <4>1, <4>2, DrainIsCall DEF AddRemoteIce, LiveRecv
      <3>2. CASE UNCHANGED <<viewer, response, tr>>
        BY <1>2, <3>2, StayIsCall DEF LiveRecv
      <3> QED BY <1>2, <3>1, <3>2 DEF LiveRecv
    <2> QED BY <1>2, <2>2, <2>3, CallStepKeeps DEF LiveRecv
  <1>3. CASE LivePoll
    <2>1. AtWork
      BY <1>1, <1>3, Moving DEF LivePoll, Connected
    <2>2. CallStep
      BY <1>3, PollIsCall DEF LivePoll
    <2> QED BY <1>3, <2>1, <2>2, CallStepKeeps DEF LivePoll
  <1>4. CASE MediaPoll
    <2>1. sig' \in Seq(Signals)
      BY <1>1, <1>4, TakingOne DEF MediaPoll
    <2>2. AtWork
      BY <1>4, <2>1 DEF AtWork, Places, MediaPoll, ViewerInv, WorkerInv
    <2>3. CallStep
      BY <1>4, PollIsCall DEF MediaPoll
    <2> QED BY <1>4, <2>2, <2>3, CallStepKeeps DEF MediaPoll
  <1>5. CASE MediaIce
    <2>1. sig' \in Seq(Signals)
      BY <1>5, TakingOne DEF MediaIce
    <2>2. AtWork
      BY <1>5, <2>1 DEF AtWork, Places, MediaIce, ViewerInv, WorkerInv
    <2>3. CallStep
      BY <1>5, PollIceIsCall
    <2> QED BY <1>5, <2>2, <2>3, CallStepKeeps DEF MediaIce
  <1> QED BY <1>2, <1>3, <1>4, <1>5

-----------------------------------------------------------------------------
\* Connects keep the invariant.

\* The window connects, again or for the first time.
LEMMA WindowConnects ==
    ASSUME ViewerInv, UiBeginConnect PROVE ViewerInv' /\ StaysLost
  <1>1. viewer \in Viewer /\ viewer.attempt \in Nat /\ viewer.attempt < MaxConnect
    BY ViewerTypes DEF UiBeginConnect
  <1>2. tr' \in Transport /\ tr'.inbox = <<>>
    BY EmptyInbox DEF UiBeginConnect, ViewerInv, SessionInv, TransportStates
  <1>3. SessionInv' /\ InputInv' /\ StaysLost
    BY <1>1, <1>2, ConnectKeeps DEF UiBeginConnect
  <1>4. viewer'.attempt = viewer.attempt + 1
    BY <1>1, BegunOk DEF UiBeginConnect
  <1>5. WorkerInv'
    BY <1>1, <1>4, ViewerAssumption DEF UiBeginConnect, ViewerInv, WorkerInv
  <1> QED BY <1>3, <1>5 DEF ViewerInv

\* The worker connects, once.
LEMMA WorkerConnects ==
    ASSUME ViewerInv, Accepted PROVE ViewerInv' /\ StaysLost
  <1>1. viewer \in Viewer /\ viewer.attempt = 0
    BY ViewerTypes DEF Accepted, ViewerInv, WorkerInv
  <1>2. tr' \in Transport /\ tr'.inbox = <<>>
    <2>1. "new" \in TransportStates /\ tr \in Transport
      BY DEF TransportStates, ViewerInv, SessionInv
    <2> QED BY <2>1, EmptyInbox DEF Accepted
  <1>3. \E v \in Viewer : v.attempt = viewer.attempt /\ viewer' = BegunConnect(v)
    <2> DEFINE c == [viewer.capture EXCEPT !.always = TRUE, !.focused = TRUE]
               f == [viewer EXCEPT !.capture = c]
               g == [f EXCEPT !.authorized = TRUE]
    <2>1. c \in Capture
      BY ViewerTypes DEF Capture
    <2>2. [viewer EXCEPT !.capture.always = TRUE, !.capture.focused = TRUE] = f
      BY <1>1 DEF Viewer
    <2> HIDE DEF c
    <2>3. f \in Viewer /\ f.attempt = viewer.attempt
      BY <1>1, <2>1 DEF Viewer
    <2>4. MarkAuthorized(f) \in Viewer /\ MarkAuthorized(f).attempt = f.attempt
      <3> HIDE DEF f
      <3>1. g \in Viewer /\ g.attempt = f.attempt
        BY <2>3 DEF Viewer
      <3>2. MarkAuthorized(f) = [g EXCEPT !.status = BindStatus(g)]
        BY DEF MarkAuthorized, SyncBindStatus
      <3>3. BindStatus(g) \in {"unbound", "pending", "bound"}
        BY DEF BindStatus
      <3> HIDE DEF g
      <3> QED BY <3>1, <3>2, <3>3 DEF Viewer
    <2>5. viewer' = BegunConnect(viewer) \/ viewer' = BegunConnect(f)
          \/ viewer' = BegunConnect(MarkAuthorized(f))
      BY <2>2 DEF Accepted, LiveSession, CliSession
    <2> HIDE DEF f
    <2> QED BY <1>1, <2>3, <2>4, <2>5
  <1>4. SessionInv' /\ InputInv' /\ StaysLost
    BY <1>2, <1>3, ConnectKeeps DEF Accepted
  <1>5. viewer'.attempt = 1
    BY <1>1, <1>3, BegunOk
  <1>6. sig' \in Seq(Signals)
    BY TakingOne DEF Accepted
  <1>7. driver # "ui" /\ worker'.pc = "negotiate" /\ worker' \in Places
    BY DEF Accepted, Goto, ViewerInv, WorkerInv, Places, Pcs
  <1>8. WorkerInv'
    BY <1>5, <1>6, <1>7, ViewerAssumption DEF Accepted, ViewerInv, WorkerInv, Places
  <1> QED BY <1>4, <1>8 DEF ViewerInv

-----------------------------------------------------------------------------
\* Input keeps the invariant.

\* The line of a session, its order and its budget.
Line(o, v, q, n) ==
    /\ InLine(v.capture.pending, q, n)
    /\ Ordered(o, v.attempt, v.seq, Oldest(v.capture.pending, q, n))
    /\ Budget(v.capture.pending, q, v.seq, n)

\* The first sample of a line is pushed.
LEMMA PushKeeps ==
    ASSUME ViewerInv, key' = key, NEW q, q # <<>>, NEW n \in Nat, Line(out, viewer, q, n),
           PushRawInput(Head(q))
    PROVE  /\ ViewerOk(viewer') /\ Kosher(viewer'.capture)
           /\ viewer'.attempt = viewer.attempt /\ viewer'.bound = viewer.bound
           /\ viewer'.phase = viewer.phase
           /\ Line(out', viewer', Tail(q), n)
           /\ NoInputUnbound'
  <1> DEFINE c == viewer.capture
             x == Head(q)
             r == Tail(q)
  <1>1. ViewerOk(viewer) /\ Kosher(c) /\ NoInputUnbound /\ c.pending \in Nat
        /\ viewer.seq \in Nat /\ viewer.attempt \in Nat
    BY ViewerTypes DEF ViewerInv, SessionInv, InputInv
  <1>2. InLine(c.pending, q, n) /\ Budget(c.pending, q, viewer.seq, n)
        /\ Ordered(out, viewer.attempt, viewer.seq, Oldest(c.pending, q, n))
    BY DEF Line
  <1>3. Len(q) \in Nat /\ Len(r) \in Nat /\ Oldest(c.pending, q, n) \in Nat
    BY <1>1, <1>2, LeaveLine, ForemostNat
  <1>4. CASE EnsureCanSendInput(viewer)
    <2>1. Emits(c, q, n, Captured(c, x), AfterPush(c, x), r)
      BY <1>1, <1>2, CaptureEmits
    <2>2. SendCaptured(viewer, Captured(c, x), AfterPush(c, x))
      BY <1>4 DEF PushRawInput
    <2>3. key => viewer.bound
      BY <1>4 DEF EnsureCanSendInput
    <2> HIDE DEF x, r
    <2> QED BY <1>1, <1>2, <1>3, <2>1, <2>2, <2>3, SendKeeps DEF Line, r
  <1>5. CASE ~EnsureCanSendInput(viewer)
    <2>1. viewer' = viewer /\ out' = out
      BY <1>5 DEF PushRawInput
    <2>2. Emits(c, q, n, <<>>, c, r)
      BY <1>1, <1>2, RefusedEmits
    <2>3. InLine(c.pending, r, n) /\ Oldest(c.pending, q, n) <= Oldest(c.pending, r, n)
      BY <2>2 DEF Emits
    <2>4. Oldest(c.pending, r, n) \in Nat
      BY <1>1, <2>3, ForemostNat
    <2>5. Ordered(out, viewer.attempt, viewer.seq, Oldest(c.pending, r, n))
      BY <1>1, <1>2, <1>3, <2>3, <2>4, OrderedLater
    <2>6. Len(r) <= Len(q)
      BY <1>1, <1>2, <1>3, LeaveLine
    <2>7. Budget(c.pending, r, viewer.seq, n)
      BY <1>1, <1>2, <1>3, <2>6 DEF Budget
    <2> QED BY <1>1, <2>1, <2>3, <2>5, <2>7 DEF Line, NoInputUnbound
  <1> QED BY <1>4, <1>5

\* The waiting position is sent.
LEMMA PollInputKeeps ==
    ASSUME ViewerInv, key' = key, NEW v, ViewerOk(v), Kosher(v.capture),
           NEW q, NEW n \in Nat, Line(out, v, q, n), PollInputCapture(v)
    PROVE  /\ ViewerOk(viewer') /\ Kosher(viewer'.capture)
           /\ viewer'.attempt = v.attempt /\ viewer'.bound = v.bound
           /\ viewer'.phase = v.phase
           /\ Line(out', viewer', q, n)
           /\ NoInputUnbound'
  <1> DEFINE c == v.capture
  <1>1. NoInputUnbound /\ c.pending \in Nat
    BY DEF ViewerInv, InputInv, Kosher, Capture
  <1>2. InLine(c.pending, q, n) /\ Budget(c.pending, q, v.seq, n)
        /\ Ordered(out, v.attempt, v.seq, Oldest(c.pending, q, n))
    BY DEF Line
  <1>3. Len(q) \in Nat
    BY <1>1, <1>2, ForemostNat
  <1>4. CASE EnsureCanSendInput(v)
    <2>1. Emits(c, q, n, CapturedByPoll(c), AfterPoll(c), q)
      BY <1>2, PollEmits
    <2>2. SendCaptured(v, CapturedByPoll(c), AfterPoll(c))
      BY <1>4 DEF PollInputCapture
    <2>3. key => v.bound
      BY <1>4 DEF EnsureCanSendInput
    <2> QED BY <1>1, <1>2, <1>3, <2>1, <2>2, <2>3, SendKeeps DEF Line
  <1>5. CASE ~EnsureCanSendInput(v)
    <2>1. viewer' = v /\ out' = out
      BY <1>5 DEF PollInputCapture
    <2> QED BY <1>1, <1>2, <2>1 DEF Line, NoInputUnbound
  <1> QED BY <1>4, <1>5

\* What an input step leaves of the session.
LEMMA InputStepKeeps ==
    ASSUME ViewerInv, ViewerOk(viewer'), Kosher(viewer'.capture),
           viewer'.attempt = viewer.attempt, viewer'.bound = viewer.bound,
           viewer'.phase = viewer.phase, Line(out', viewer', user'.input, count'.events),
           NoInputUnbound', UNCHANGED <<driver, key, tr, response>>, AtWork,
           user' \in [stop : BOOLEAN, input : Seq(Sample)],
           driver = "ui" => user'.input = <<>>,
           count' \in [events : Nat, flap : Nat, signal : Nat]
    PROVE  ViewerInv' /\ StaysLost
  <1>1. SessionInv'
    BY DEF ViewerInv, SessionInv, BoundHere
  <1>2. InputInv'
    BY DEF InputInv, Line
  <1>3. WorkerInv'
    BY WorkerKeeps
  <1> QED BY <1>1, <1>2, <1>3 DEF ViewerInv, StaysLost

\* One event more.
LEMMA OneMore ==
    ASSUME ViewerInv, MoreEvents
    PROVE  /\ count'.events = count.events + 1
           /\ count' \in [events : Nat, flap : Nat, signal : Nat]
           /\ count' = [count EXCEPT !.events = @ + 1]
  BY DEF ViewerInv, WorkerInv, MoreEvents

\* A sample made now is the newest.
LEMMA RawIsSample ==
    ASSUME ViewerInv, NEW kind \in RawKinds
    PROVE  Raw(kind) \in Sample /\ Raw(kind).n = count.events + 1
  BY ViewerTypes DEF Raw, Sample

\* A sample joins the samples waiting.
LEMMA JoinKeepsLine ==
    ASSUME ViewerInv, NEW x \in Sample, x.n = count.events + 1
    PROVE  Line(out, viewer, Append(user.input, x), count.events + 1)
  <1> DEFINE p == viewer.capture.pending
             q == user.input
             n == count.events
             s == viewer.seq
  <1>1. p \in Nat /\ n \in Nat /\ s \in Nat /\ q \in Seq(Sample) /\ Len(q) \in Nat
    BY ViewerTypes
  <1>2. InLine(p, q, n) /\ Budget(p, q, s, n) /\ Ordered(out, viewer.attempt, s, Oldest(p, q, n))
    BY DEF ViewerInv, InputInv
  <1> HIDE DEF p, q, n, s
  <1>3. InLine(p, Append(q, x), n + 1) /\ Oldest(p, Append(q, x), n + 1) = Oldest(p, q, n)
    BY <1>1, <1>2, JoinLine DEF n
  <1>4. Len(Append(q, x)) = Len(q) + 1
    BY <1>1
  <1>5. Budget(p, Append(q, x), s, n + 1)
    BY <1>1, <1>2, <1>4 DEF Budget
  <1> QED BY <1>2, <1>3, <1>5 DEF Line, p, q, n, s

\* The line as the invariant has it.
LEMMA LineNow ==
    ASSUME ViewerInv PROVE Line(out, viewer, user.input, count.events)
  BY DEF ViewerInv, InputInv, Line

\* The window pushes a sample.
LEMMA WindowInput ==
    ASSUME ViewerInv, NEW kind \in RawKinds, UiInput(kind)
    PROVE  ViewerInv' /\ StaysLost
  <1> DEFINE x == Raw(kind)
             q == <<x>>
             n == count.events + 1
  <1>1. x \in Sample /\ x.n = n
    BY RawIsSample
  <1>2. user.input = <<>> /\ count.events \in Nat
    BY ViewerTypes DEF ViewerInv, WorkerInv, UiInput
  <1> HIDE DEF x
  <1>3. q # <<>> /\ Head(q) = x /\ Tail(q) = <<>> /\ q = Append(<<>>, x)
    BY <1>1
  <1>4. Line(out, viewer, q, n)
    BY <1>1, <1>2, <1>3, JoinKeepsLine
  <1>5. PushRawInput(Head(q)) /\ key' = key /\ n \in Nat
    BY <1>2, <1>3 DEF UiInput, x
  <1> HIDE DEF q, n
  <1>6. /\ ViewerOk(viewer') /\ Kosher(viewer'.capture)
        /\ viewer'.attempt = viewer.attempt /\ viewer'.bound = viewer.bound
        /\ viewer'.phase = viewer.phase
        /\ Line(out', viewer', Tail(q), n)
        /\ NoInputUnbound'
    BY <1>3, <1>4, <1>5, PushKeeps
  <1>7. /\ count'.events = n /\ count' \in [events : Nat, flap : Nat, signal : Nat]
        /\ UNCHANGED <<driver, key, tr, response, worker, sig, user>>
    BY OneMore DEF UiInput, n
  <1>8. AtWork
    BY <1>7, StayingPut
  <1>9. Line(out', viewer', user'.input, count'.events)
    BY <1>2, <1>3, <1>6, <1>7 DEF Line
  <1>10. user' \in [stop : BOOLEAN, input : Seq(Sample)] /\ user'.input = <<>>
    BY <1>2, <1>7 DEF ViewerInv, WorkerInv
  <1> QED BY <1>6, <1>7, <1>8, <1>9, <1>10, InputStepKeeps

\* The window sends the waiting position.
LEMMA WindowPollsInput ==
    ASSUME ViewerInv, UiPollInput PROVE ViewerInv' /\ StaysLost
  <1>1. /\ PollInputCapture(viewer)
        /\ UNCHANGED <<driver, key, tr, response, worker, sig, user, count>>
    BY DEF UiPollInput
  <1>2. /\ ViewerOk(viewer') /\ Kosher(viewer'.capture)
        /\ viewer'.attempt = viewer.attempt /\ viewer'.bound = viewer.bound
        /\ viewer'.phase = viewer.phase
        /\ Line(out', viewer', user.input, count.events)
        /\ NoInputUnbound'
    <2>1. ViewerOk(viewer) /\ Kosher(viewer.capture) /\ count.events \in Nat
      BY ViewerTypes DEF ViewerInv, SessionInv
    <2> QED BY <1>1, <2>1, LineNow, PollInputKeeps
  <1>3. AtWork
    BY <1>1, StayingPut
  <1>4. /\ user' \in [stop : BOOLEAN, input : Seq(Sample)]
        /\ count' \in [events : Nat, flap : Nat, signal : Nat]
        /\ driver = "ui" => user'.input = <<>>
    BY <1>1 DEF ViewerInv, WorkerInv
  <1> QED BY <1>1, <1>2, <1>3, <1>4, InputStepKeeps DEF Line

\* The worker pushes the oldest sample queued for it.
LEMMA WorkerInput ==
    ASSUME ViewerInv, LiveInput PROVE ViewerInv' /\ StaysLost
  <1>1. /\ user.input # <<>> /\ PushRawInput(Head(user.input))
        /\ user' = [user EXCEPT !.input = Tail(@)]
        /\ UNCHANGED <<driver, key, tr, response, worker, sig, count>>
    BY DEF LiveInput
  <1>2. user.input \in Seq(Sample) /\ count.events \in Nat
        /\ user \in [stop : BOOLEAN, input : Seq(Sample)]
    BY ViewerTypes DEF ViewerInv, WorkerInv
  <1>3. /\ ViewerOk(viewer') /\ Kosher(viewer'.capture)
        /\ viewer'.attempt = viewer.attempt /\ viewer'.bound = viewer.bound
        /\ viewer'.phase = viewer.phase
        /\ Line(out', viewer', Tail(user.input), count.events)
        /\ NoInputUnbound'
    BY <1>1, <1>2, LineNow, PushKeeps
  <1>4. Tail(user.input) \in Seq(Sample)
    BY <1>1, <1>2
  <1>5. user' \in [stop : BOOLEAN, input : Seq(Sample)] /\ user'.input = Tail(user.input)
    BY <1>1, <1>2, <1>4
  <1>6. AtWork
    BY <1>1, StayingPut
  <1>7. /\ driver # "ui"
        /\ count' \in [events : Nat, flap : Nat, signal : Nat] /\ count' = count
    BY <1>1 DEF LiveInput, ViewerInv, WorkerInv
  <1>8. Line(out', viewer', user'.input, count'.events)
    BY <1>3, <1>5, <1>7
  <1> QED BY <1>1, <1>3, <1>5, <1>6, <1>7, <1>8, InputStepKeeps

\* The worker takes the frame and sends the waiting position.
LEMMA WorkerShows ==
    ASSUME ViewerInv, LiveShow PROVE ViewerInv' /\ StaysLost
  <1> DEFINE v == [viewer EXCEPT !.video = <<>>]
  <1>1. /\ PollInputCapture(v)
        /\ UNCHANGED <<driver, key, tr, response, sig, user, count>>
        /\ worker.pc = "input" /\ Goto("recv")
    BY DEF LiveShow
  <1>2. ViewerOk(viewer) /\ Kosher(viewer.capture) /\ count.events \in Nat
    BY ViewerTypes DEF ViewerInv, SessionInv
  <1>3. /\ ViewerOk(v) /\ v.attempt = viewer.attempt /\ v.bound = viewer.bound
        /\ v.phase = viewer.phase /\ v.seq = viewer.seq /\ v.capture = viewer.capture
    BY <1>2, DrawnOk
  <1> HIDE DEF v
  <1>4. Line(out, v, user.input, count.events)
    BY <1>3, LineNow DEF Line
  <1>5. /\ ViewerOk(viewer') /\ Kosher(viewer'.capture)
        /\ viewer'.attempt = viewer.attempt /\ viewer'.bound = viewer.bound
        /\ viewer'.phase = viewer.phase
        /\ Line(out', viewer', user.input, count.events)
        /\ NoInputUnbound'
    BY <1>1, <1>2, <1>3, <1>4, PollInputKeeps
  <1>6. AtWork
    BY <1>1, Moving DEF Connected, ViewerInv, WorkerInv
  <1>7. /\ user' \in [stop : BOOLEAN, input : Seq(Sample)] /\ user' = user
        /\ count' \in [events : Nat, flap : Nat, signal : Nat] /\ count' = count
        /\ driver = "ui" => user'.input = <<>>
    BY <1>1 DEF ViewerInv, WorkerInv
  <1>8. Line(out', viewer', user'.input, count'.events)
    BY <1>5, <1>7
  <1> QED BY <1>1, <1>5, <1>6, <1>7, <1>8, InputStepKeeps

\* A sample is queued for the worker.
LEMMA WorkerQueues ==
    ASSUME ViewerInv, NEW kind \in RawKinds, SendInput(kind)
    PROVE  ViewerInv' /\ StaysLost
  <1> DEFINE x == Raw(kind)
  <1>1. x \in Sample /\ x.n = count.events + 1
    BY RawIsSample
  <1>2. /\ driver = "live" /\ user' = [user EXCEPT !.input = Append(@, x)]
        /\ UNCHANGED <<driver, key, viewer, tr, response, out, worker, sig>>
        /\ count'.events = count.events + 1
        /\ count' \in [events : Nat, flap : Nat, signal : Nat]
    BY OneMore DEF SendInput
  <1> HIDE DEF x
  <1>3. Line(out, viewer, Append(user.input, x), count.events + 1)
    BY <1>1, JoinKeepsLine
  <1>4. Append(user.input, x) \in Seq(Sample) /\ user \in [stop : BOOLEAN, input : Seq(Sample)]
    BY <1>1, ViewerTypes DEF ViewerInv, WorkerInv
  <1>5. user' \in [stop : BOOLEAN, input : Seq(Sample)] /\ user'.input = Append(user.input, x)
    BY <1>2, <1>4
  <1>6. Line(out', viewer', user'.input, count'.events)
    BY <1>2, <1>3, <1>5
  <1>7. ViewerOk(viewer') /\ Kosher(viewer'.capture) /\ NoInputUnbound'
    BY <1>2 DEF ViewerInv, SessionInv, InputInv, NoInputUnbound
  <1>8. AtWork
    BY <1>2, StayingPut
  <1> QED BY <1>2, <1>5, <1>6, <1>7, <1>8, InputStepKeeps

\* A capture that changes, and may lose its waiting position.
LEMMA ForgetMove ==
    ASSUME ViewerInv, NEW d, Kosher(d), d.pending \in {0, viewer.capture.pending},
           NEW v, v.attempt = viewer.attempt, v.seq = viewer.seq, v.capture = d
    PROVE  Line(out, v, user.input, count.events)
  <1> DEFINE p == viewer.capture.pending
             q == user.input
             n == count.events
             s == viewer.seq
             a == viewer.attempt
  <1>1. p \in Nat /\ n \in Nat /\ s \in Nat /\ a \in Nat /\ Len(q) \in Nat
    BY ViewerTypes
  <1>2. InLine(p, q, n) /\ Budget(p, q, s, n) /\ Ordered(out, a, s, Oldest(p, q, n))
    BY DEF ViewerInv, InputInv
  <1> HIDE DEF p, q, n, s, a
  <1>3. InLine(0, q, n) /\ Budget(0, q, s, n)
    BY <1>1, <1>2 DEF InLine, Budget
  <1>4. /\ Oldest(p, q, n) \in Nat /\ Oldest(0, q, n) \in Nat
        /\ Oldest(p, q, n) <= Oldest(0, q, n)
    BY <1>1, <1>2, <1>3, ForemostNat DEF Oldest, InLine
  <1>5. Ordered(out, a, s, Oldest(0, q, n))
    BY <1>1, <1>2, <1>4, OrderedLater
  <1>6. d.pending \in {0, p} /\ v.attempt = a /\ v.seq = s
    BY DEF p, a, s
  <1>7. Line(out, v, q, n)
    BY <1>2, <1>3, <1>5, <1>6 DEF Line
  <1> QED BY <1>7 DEF q, n

\* The capture alone changes.
LEMMA CaptureOnly ==
    ASSUME ViewerInv, NEW d, Kosher(d), viewer' = [viewer EXCEPT !.capture = d]
    PROVE  /\ ViewerOk(viewer') /\ viewer'.attempt = viewer.attempt
           /\ viewer'.bound = viewer.bound /\ viewer'.phase = viewer.phase
           /\ viewer'.seq = viewer.seq /\ viewer'.capture = d
  <1>1. ViewerOk(viewer) /\ viewer \in Viewer /\ viewer.seq \in Nat /\ d \in Capture
    BY ViewerTypes DEF Kosher
  <1> DEFINE w == WithInput(viewer, viewer.seq, d)
  <1>2. /\ ViewerOk(w) /\ w.attempt = viewer.attempt /\ w.bound = viewer.bound
        /\ w.phase = viewer.phase /\ w.seq = viewer.seq /\ w.capture = d
    BY <1>1, UpdateOk
  <1>3. viewer' = w
    BY <1>1 DEF WithInput, Viewer
  <1> HIDE DEF w
  <1> QED BY <1>2, <1>3

\* A change of focus or of always_capture that ends the permission drops the
\* waiting position.
LEMMA FocusKosher ==
    ASSUME NEW c, Kosher(c), NEW b \in BOOLEAN
    PROVE  /\ Kosher(SetFocused(c, b)) /\ SetFocused(c, b).pending \in {0, c.pending}
           /\ Kosher(SetAlwaysCapture(c, b)) /\ SetAlwaysCapture(c, b).pending \in {0, c.pending}
  <1>1. c \in Capture /\ c.pending \in Nat
    BY DEF Kosher, Capture
  <1>2. SetFocused(c, b) \in Capture /\ SetAlwaysCapture(c, b) \in Capture
    BY <1>1 DEF SetFocused, SetAlwaysCapture, Capture
  <1>3. /\ SetFocused(c, b).pending \in {0, c.pending}
        /\ SetAlwaysCapture(c, b).pending \in {0, c.pending}
    BY <1>1 DEF SetFocused, SetAlwaysCapture, Capture
  <1>4. ~MayCapture(SetFocused(c, b)) => SetFocused(c, b).pending = 0
    BY <1>1 DEF SetFocused, Capture, Kosher, MayCapture
  <1>5. ~MayCapture(SetAlwaysCapture(c, b)) => SetAlwaysCapture(c, b).pending = 0
    BY <1>1 DEF SetAlwaysCapture, Capture, Kosher, MayCapture
  <1> QED BY <1>2, <1>3, <1>4, <1>5 DEF Kosher

\* The window gets or loses the focus, or always_capture is switched.
LEMMA WindowFocuses ==
    ASSUME ViewerInv, UiFocus PROVE ViewerInv' /\ StaysLost
  <1> DEFINE c == viewer.capture
  <1>1. Kosher(c) /\ (~c.focused) \in BOOLEAN /\ (~c.always) \in BOOLEAN
    <2>1. Kosher(c)
      BY DEF ViewerInv, SessionInv
    <2>2. c.focused \in BOOLEAN /\ c.always \in BOOLEAN
      BY <2>1 DEF Kosher, Capture
    <2> QED BY <2>1, <2>2
  <1>2. /\ MoreEvents /\ UNCHANGED <<driver, key, tr, response, out, worker, sig, user>>
        /\ driver = "ui"
    BY DEF UiFocus
  <1>3. PICK d : /\ Kosher(d) /\ d.pending \in {0, c.pending}
                 /\ viewer' = [viewer EXCEPT !.capture = d]
    <2>1. viewer' = [viewer EXCEPT !.capture = SetFocused(c, ~c.focused)]
          \/ viewer' = [viewer EXCEPT !.capture = SetAlwaysCapture(c, ~c.always)]
      BY ViewerTypes DEF UiFocus, Viewer
    <2> QED BY <1>1, <2>1, FocusKosher
  <1>4. /\ ViewerOk(viewer') /\ viewer'.attempt = viewer.attempt
        /\ viewer'.bound = viewer.bound /\ viewer'.phase = viewer.phase
        /\ viewer'.seq = viewer.seq /\ viewer'.capture = d
    BY <1>3, CaptureOnly
  <1>5. Line(out, viewer', user.input, count.events)
    BY <1>3, <1>4, ForgetMove
  <1>6. d.pending \in Nat /\ viewer.seq \in Nat /\ viewer.attempt \in Nat /\ count.events \in Nat
    BY <1>3, ViewerTypes DEF Kosher, Capture
  <1>7. Line(out, viewer', user.input, count.events + 1)
    BY <1>4, <1>5, <1>6, MoreInLine DEF Line
  <1>8. /\ count'.events = count.events + 1
        /\ count' \in [events : Nat, flap : Nat, signal : Nat]
    BY <1>2, OneMore
  <1>9. AtWork
    BY <1>2, StayingPut
  <1>10. /\ user' \in [stop : BOOLEAN, input : Seq(Sample)] /\ user' = user
         /\ driver = "ui" => user'.input = <<>>
    BY <1>2 DEF ViewerInv, WorkerInv
  <1>11. Line(out', viewer', user'.input, count'.events)
    BY <1>2, <1>7, <1>8
  <1>12. NoInputUnbound'
    BY <1>2 DEF ViewerInv, InputInv, NoInputUnbound
  <1> QED BY <1>2, <1>3, <1>4, <1>8, <1>9, <1>10, <1>11, <1>12, InputStepKeeps

\* The coalescing interval passes.
LEMMA TimePasses ==
    ASSUME ViewerInv, Tick PROVE ViewerInv' /\ StaysLost
  <1> DEFINE c == viewer.capture
             d == [c EXCEPT !.due = TRUE]
  <1>1. Kosher(c)
    BY DEF ViewerInv, SessionInv
  <1>2. Kosher(d) /\ d.pending = c.pending
    BY <1>1 DEF Kosher, Capture, MayCapture
  <1>3. viewer' = [viewer EXCEPT !.capture = d]
    BY ViewerTypes DEF Tick, Viewer, Capture
  <1> HIDE DEF d
  <1>4. /\ ViewerOk(viewer') /\ viewer'.attempt = viewer.attempt
        /\ viewer'.bound = viewer.bound /\ viewer'.phase = viewer.phase
        /\ viewer'.seq = viewer.seq /\ viewer'.capture = d
    BY <1>2, <1>3, CaptureOnly
  <1>5. Line(out, viewer', user.input, count.events)
    BY <1>2, <1>4, ForgetMove
  <1>6. UNCHANGED <<driver, key, tr, response, out, worker, sig, user, count>>
    BY DEF Tick
  <1>7. AtWork
    BY <1>6, StayingPut
  <1>8. /\ user' \in [stop : BOOLEAN, input : Seq(Sample)]
        /\ count' \in [events : Nat, flap : Nat, signal : Nat]
        /\ driver = "ui" => user'.input = <<>>
    BY <1>6 DEF ViewerInv, WorkerInv
  <1>9. NoInputUnbound'
    BY <1>6 DEF ViewerInv, InputInv, NoInputUnbound
  <1> QED BY <1>2, <1>4, <1>5, <1>6, <1>7, <1>8, <1>9, InputStepKeeps

-----------------------------------------------------------------------------
\* The surroundings keep the invariant.

\* An entry more waits for the next poll.
LEMMA InboxGrows ==
    ASSUME ViewerInv, NEW e \in Entry, e.kind = "identity" => e.attempt = viewer.attempt,
           NEW s \in TransportStates
    PROVE  LET t == [state |-> s, inbox |-> Append(tr.inbox, e)]
           IN  t \in Transport /\ Fresh(t.inbox, viewer.attempt)
  <1> DEFINE q == tr.inbox
             r == Append(q, e)
  <1>1. q \in Seq(Entry) /\ Len(q) \in Nat /\ Fresh(q, viewer.attempt)
    BY ViewerTypes DEF ViewerInv, SessionInv
  <1>2. /\ r \in Seq(Entry) /\ Len(r) = Len(q) + 1
        /\ \A i \in 1 .. Len(q) + 1 : r[i] = IF i = Len(q) + 1 THEN e ELSE q[i]
    BY <1>1
  <1> HIDE DEF r, q
  <1>3. Fresh(r, viewer.attempt)
    <2> SUFFICES ASSUME NEW i \in 1 .. Len(r), r[i].kind = "identity"
                 PROVE  r[i].attempt = viewer.attempt
      BY DEF Fresh
    <2>1. CASE i = Len(q) + 1
      BY <1>1, <1>2, <2>1
    <2>2. CASE i # Len(q) + 1
      <3>1. i \in 1 .. Len(q) /\ r[i] = q[i]
        BY <1>1, <1>2, <2>2
      <3> QED BY <1>1, <3>1 DEF Fresh
    <2> QED BY <2>1, <2>2
  <1> QED BY <1>2, <1>3 DEF Transport, r, q

\* The host sends, or the transport's poll will be an error.
LEMMA HostKeeps ==
    ASSUME ViewerInv, (\E e \in Items : HostSends(e)) \/ HostUnknown
    PROVE  ViewerInv' /\ StaysLost
  <1>1. PICK e \in Entry : /\ e.kind = "identity" => e.attempt = viewer.attempt
                           /\ Queue(e)
    <2>1. CASE HostUnknown
      <3>1. [kind |-> "bad"] \in Entry /\ [kind |-> "bad"].kind # "identity"
        BY DEF Entry
      <3> QED BY <2>1, <3>1 DEF HostUnknown
    <2>2. CASE \E e \in Items : HostSends(e)
      <3>1. PICK e \in Items : HostSends(e)
        BY <2>2
      <3>2. e \in Entry /\ (e.kind = "identity" => e.attempt = viewer.attempt)
        BY <3>1, ViewerTypes DEF Items, Entry
      <3> QED BY <3>1, <3>2 DEF HostSends
    <2> QED BY <2>1, <2>2
  <1>2. MoreEvents /\ UNCHANGED <<driver, key, viewer, response, out, worker, sig, user>>
    BY DEF HostSends, HostUnknown
  <1>3. tr' = [state |-> tr.state, inbox |-> Append(tr.inbox, e)]
    BY <1>1, ViewerTypes DEF Queue, ViewerInv, SessionInv, Transport
  <1>4. tr' \in Transport /\ Fresh(tr'.inbox, viewer.attempt)
    BY <1>1, <1>3, InboxGrows, ViewerTypes
  <1>5. SessionInv' /\ InputInv' /\ StaysLost
    BY <1>2, <1>4, OneMore, EventKeeps
  <1>6. AtWork
    BY <1>2, StayingPut
  <1>7. WorkerInv'
    <2>1. /\ user' \in [stop : BOOLEAN, input : Seq(Sample)]
          /\ driver = "ui" => user'.input = <<>>
      BY <1>2 DEF ViewerInv, WorkerInv
    <2> QED BY <1>2, <1>6, <2>1, OneMore, WorkerKeeps
  <1> QED BY <1>5, <1>7 DEF ViewerInv

\* What leaves the session as it is.
LEMMA RestStepKeeps ==
    ASSUME ViewerInv, tr' \in Transport, Fresh(tr'.inbox, viewer.attempt),
           UNCHANGED <<driver, key, viewer, response, out>>, AtWork,
           user' \in [stop : BOOLEAN, input : Seq(Sample)], user'.input = user.input,
           count' \in [events : Nat, flap : Nat, signal : Nat], count'.events = count.events
    PROVE  ViewerInv' /\ StaysLost
  <1>1. SessionInv' /\ InputInv' /\ StaysLost
    BY RestKeeps
  <1>2. driver = "ui" => user'.input = <<>>
    BY DEF ViewerInv, WorkerInv
  <1>3. WorkerInv'
    BY <1>2, WorkerKeeps
  <1> QED BY <1>1, <1>3 DEF ViewerInv

\* The transport's state changes.
LEMMA TransportKeeps ==
    ASSUME ViewerInv, NEW s \in Changes, TransportChange(s)
    PROVE  ViewerInv' /\ StaysLost
  <1> DEFINE e == [kind |-> "state", s |-> s]
  <1>1. e \in Entry /\ e.kind # "identity" /\ s \in TransportStates
    BY DEF Entry, Changes, TransportStates
  <1>2. tr' = [state |-> s, inbox |-> Append(tr.inbox, e)]
    BY DEF TransportChange
  <1> HIDE DEF e
  <1>3. tr' \in Transport /\ Fresh(tr'.inbox, viewer.attempt)
    BY <1>1, <1>2, InboxGrows
  <1>4. UNCHANGED <<driver, key, viewer, response, out, worker, sig, user>>
    BY DEF TransportChange
  <1>5. /\ count' \in [events : Nat, flap : Nat, signal : Nat]
        /\ count'.events = count.events
    <2> DEFINE d == IF tr.state = "disconnected" /\ s = "connected" THEN 1 ELSE 0
    <2>1. d \in Nat /\ count \in [events : Nat, flap : Nat, signal : Nat]
      BY DEF ViewerInv, WorkerInv
    <2>2. count' = [count EXCEPT !.flap = @ + d]
      BY DEF TransportChange
    <2> HIDE DEF d
    <2> QED BY <2>1, <2>2
  <1>6. user' \in [stop : BOOLEAN, input : Seq(Sample)] /\ user'.input = user.input
    BY <1>4 DEF ViewerInv, WorkerInv
  <1>7. AtWork
    BY <1>4, StayingPut
  <1> QED BY <1>3, <1>4, <1>5, <1>6, <1>7, RestStepKeeps

\* The worker's way to the server.
Begins == Start \/ StartCli \/ SocketOpens \/ ConnectFails \/ HelloOk \/ HelloFails

\* The server relays, the user hangs up, the worker starts.
LEMMA OthersKeep ==
    ASSUME ViewerInv,
           (\E m \in Signals : ServerSends(m)) \/ RequestStop
           \/ Begins
    PROVE  ViewerInv' /\ StaysLost
  <1>1. UNCHANGED <<driver, key, viewer, tr, response, out>>
    BY DEF ServerSends, RequestStop, Begins, Start, StartCli, Begin, SocketOpens,
           ConnectFails, HelloOk, HelloFails, Handshake
  <1>2. tr' \in Transport /\ Fresh(tr'.inbox, viewer.attempt)
    BY <1>1 DEF ViewerInv, SessionInv
  <1>3. /\ user' \in [stop : BOOLEAN, input : Seq(Sample)] /\ user'.input = user.input
        /\ count' \in [events : Nat, flap : Nat, signal : Nat]
        /\ count'.events = count.events
    <2>1. /\ user \in [stop : BOOLEAN, input : Seq(Sample)]
          /\ count \in [events : Nat, flap : Nat, signal : Nat]
      BY DEF ViewerInv, WorkerInv
    <2>2. CASE \E m \in Signals : ServerSends(m)
      BY <2>1, <2>2 DEF ServerSends
    <2>3. CASE RequestStop
      BY <2>1, <2>3 DEF RequestStop
    <2>4. CASE Begins
      BY <2>1, <2>4 DEF Begins, Start, StartCli, Begin, SocketOpens, ConnectFails, HelloOk,
                        HelloFails, Handshake
    <2> QED BY <2>2, <2>3, <2>4
  <1>4. AtWork
    <2>1. worker \in Places /\ sig \in Seq(Signals)
      BY DEF ViewerInv, WorkerInv, Places
    <2>2. sig' \in Seq(Signals)
      BY <2>1 DEF ServerSends, RequestStop, Begins, Start, StartCli, Begin, SocketOpens,
           ConnectFails, HelloOk, HelloFails, Handshake
    <2>3. CASE UNCHANGED worker
      BY <2>1, <2>2, <2>3 DEF AtWork, ViewerInv, WorkerInv
    <2>4. CASE Begins
      <3>1. PICK from \in Early, to \in Early \cup {"done"} :
                /\ worker.pc = from /\ worker' = [worker EXCEPT !.pc = to]
                /\ from = "off" => driver # "ui" /\ to # "off"
                /\ to # "off"
        BY <2>4 DEF Begins, Start, StartCli, Begin, SocketOpens, ConnectFails, HelloOk,
                    HelloFails, Handshake, Goto
      <3> QED
        BY <1>1, <2>1, <2>2, <3>1 DEF AtWork, Places, Pcs, ViewerInv, WorkerInv
    <2> QED BY <2>3, <2>4 DEF ServerSends, RequestStop
  <1> QED BY <1>1, <1>2, <1>3, <1>4, RestStepKeeps

-----------------------------------------------------------------------------
\* The invariant.

\* It holds at first.
LEMMA ViewerInitially == Init => ViewerInv
  <1> SUFFICES ASSUME Init PROVE ViewerInv
    OBVIOUS
  <1>1. PICK auto \in BOOLEAN, always \in BOOLEAN :
            viewer = [NewViewer EXCEPT !.auto = auto, !.capture = NewCapture(always)]
    BY DEF Init
  <1> DEFINE c == NewCapture(always)
             z == NewViewer
  <1>2. c \in Capture /\ c.pending = 0
    BY DEF NewCapture, Capture
  <1>3. /\ z \in Viewer /\ z.video = <<>> /\ z.audio = <<>> /\ z.decoded = 0 /\ z.enqueued = 0
        /\ z.played = 0 /\ z.dropped = 0 /\ z.status = "unbound" /\ ~z.bound
        /\ ~z.authorized /\ z.seq = 1 /\ z.attempt = 0 /\ z.phase = "idle" /\ z.buf = <<>>
    <2>1. NewCapture(FALSE) \in Capture
      BY DEF NewCapture, Capture
    <2>2. <<>> \in Seq(Entry) /\ <<>> \in Seq(Nat)
      OBVIOUS
    <2>3. NewViewer \in Viewer
      BY <2>1, <2>2 DEF NewViewer, Viewer, ViewerPhase, Told
    <2> QED BY <2>3 DEF NewViewer
  <1> HIDE DEF c, z
  <1>4. /\ viewer \in Viewer /\ viewer.video = <<>> /\ viewer.audio = <<>>
        /\ viewer.decoded = 0 /\ viewer.enqueued = 0
        /\ viewer.played = 0 /\ viewer.dropped = 0 /\ viewer.status = "unbound"
        /\ ~viewer.bound /\ ~viewer.authorized /\ viewer.seq = 1 /\ viewer.attempt = 0
        /\ viewer.phase = "idle" /\ viewer.buf = <<>> /\ viewer.capture = c
    <2>1. viewer = [z EXCEPT !.auto = auto, !.capture = c]
      BY <1>1 DEF z, c
    <2> QED BY <1>2, <1>3, <2>1 DEF Viewer
  <1>5. ViewerOk(viewer) /\ Kosher(viewer.capture)
    BY <1>2, <1>4, ViewerAssumption
       DEF ViewerOk, MediaOk, Newest, PhaseOk, BindStatus, Fresh, CanSendInput, Kosher
  <1>6. tr \in Transport /\ Fresh(tr.inbox, viewer.attempt)
    <2>1. tr = NoTransport
      BY DEF Init
    <2>2. <<>> \in Seq(Entry)
      OBVIOUS
    <2> QED BY <2>1, <2>2 DEF Transport, NoTransport, TransportStates, Fresh
  <1>7. SessionInv
    BY <1>4, <1>5, <1>6 DEF SessionInv, BoundHere
  <1>8. /\ out = <<>> /\ user = [stop |-> FALSE, input |-> <<>>]
        /\ count = [events |-> 0, flap |-> 0, signal |-> 0]
    BY DEF Init
  <1>9. <<>> \in Seq(Message) /\ <<>> \in Seq(Sample) /\ Len(<<>>) = 0 /\ <<>> \in Seq(Signals)
    OBVIOUS
  <1>10. InputInv
    <2>1. viewer.capture.pending = 0 /\ user.input = <<>> /\ count.events = 0
      BY <1>2, <1>4, <1>8
    <2>2. Ordered(out, viewer.attempt, viewer.seq, Oldest(0, <<>>, 0))
      BY <1>8, <1>9 DEF Ordered
    <2>3. InLine(0, <<>>, 0) /\ Budget(0, <<>>, viewer.seq, 0)
      BY <1>4, <1>9 DEF InLine, Budget
    <2>4. NoInputUnbound
      BY <1>8, <1>9 DEF NoInputUnbound
    <2> QED BY <2>1, <2>2, <2>3, <2>4 DEF InputInv
  <1>11. WorkerInv
    BY <1>4, <1>8, <1>9, ViewerAssumption DEF WorkerInv, Init, Pcs
  <1> QED BY <1>7, <1>10, <1>11 DEF ViewerInv

\* One step.
LEMMA ViewerStep == ViewerInv /\ [Next]_vars => ViewerInv' /\ StaysLost
  <1> SUFFICES ASSUME ViewerInv, [Next]_vars PROVE ViewerInv' /\ StaysLost
    OBVIOUS
  <1>1. CASE UiAttach \/ UiAcceptOffer \/ UiPoll \/ UiDrain \/ UiClose
    BY <1>1, WindowCalls
  <1>2. CASE UiBeginConnect
    BY <1>2, WindowConnects
  <1>3. CASE UiFocus
    BY <1>3, WindowFocuses
  <1>4. CASE UiPollInput
    BY <1>4, WindowPollsInput
  <1>5. CASE \E kind \in RawKinds : UiInput(kind) \/ SendInput(kind)
    BY <1>5, WindowInput, WorkerQueues
  <1>6. CASE (\E e \in Items : HostSends(e)) \/ HostUnknown
    BY <1>6, HostKeeps
  <1>7. CASE Tick
    BY <1>7, TimePasses
  <1>8. CASE \E s \in {"connected", "disconnected", "failed"} : TransportChange(s)
    BY <1>8, TransportKeeps DEF Changes
  <1>9. CASE (\E m \in Signals : ServerSends(m)) \/ RequestStop \/ Begins
    BY <1>9, OthersKeep
  <1>10. CASE Accepted
    BY <1>10, WorkerConnects
  <1>11. CASE \/ NotAccepted \/ NegotiateEnd \/ CliEnd \/ NegotiateStopped
              \/ LiveExit \/ MediaEnd
    BY <1>11, WorkerReturns
  <1>12. CASE \/ NegotiateOffer \/ CliOffer \/ NegotiatePoll \/ CliIgnores
              \/ NegotiateIce \/ CliIce \/ NegotiateDeadline
    BY <1>12, NegotiationCalls
  <1>13. CASE LiveRecv \/ LivePoll \/ MediaPoll \/ MediaIce
    BY <1>13, StreamCalls
  <1>14. CASE LiveInput
    BY <1>14, WorkerInput
  <1>15. CASE LiveShow
    BY <1>15, WorkerShows
  <1>16. CASE UNCHANGED vars
    <2>1. UNCHANGED <<worker, sig, driver, key, viewer, tr, response, out, user, count>>
      BY <1>16 DEF vars
    <2>2. AtWork /\ CallStep
      BY <2>1, StayingPut, StayIsCall
    <2> QED BY <2>1, <2>2, CallStepKeeps
  <1> QED
    BY <1>1, <1>2, <1>3, <1>4, <1>5, <1>6, <1>7, <1>8, <1>9, <1>10, <1>11, <1>12,
       <1>13, <1>14, <1>15, <1>16 DEF Next, Begins

\* It holds in every reachable state.
LEMMA ViewerInvAlways == Spec => []ViewerInv
  BY ViewerInitially, ViewerStep, PTL DEF Spec

\* Input leaves a session in the order it was made, under the proof of identity
\* given on its own connection and only in a phase the transport's last news
\* allows; no pointer position waits without the permission to capture it, and
\* the bind status shown is the one the gate uses (push_raw_input,
\* poll_input_capture, drain_callback_buf): for any number of connects, events
\* and entries of the callback buffer, and whoever drives the session.
THEOREM GuardedCorrect == Spec => []InputGuarded
  <1>1. ViewerInv => InputGuarded
    BY ViewerInvGuards
  <1> QED BY <1>1, ViewerInvAlways, PTL

\* What waits to be drawn or played is the newest without a gap, and every packet
\* is counted as played, dropped or waiting (handle_track), for any capacities.
THEOREM QueuesCorrect == Spec => []QueuesSound
  <1>1. ViewerInv => QueuesSound
    BY ViewerInvGuards
  <1> QED BY <1>1, ViewerInvAlways, PTL

\* Only a new connect makes a lost session active again (on_transport_state),
\* whatever the transport reports and in whatever order it is polled.
THEOREM LostCorrect == Spec => LostUntilReconnect
  <1>1. ViewerInv /\ [Next]_vars =>
            [viewer.phase \in {"failed", "disconnected", "closed"} /\ viewer'.phase \in Active
                => viewer'.attempt > viewer.attempt]_vars
    BY ViewerStep DEF StaysLost, Lost, Active
  <1> QED BY <1>1, ViewerInvAlways, PTL DEF Spec, LostUntilReconnect

=============================================================================
