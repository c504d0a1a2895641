------------------------ MODULE PeerTransportProofs ------------------------
(***************************************************************************)
(* Proofs about PeerTransport, for any transports, any units to send, any  *)
(* numbers of reconnections and any bounds: the application is given what  *)
(* the other peer sent, in order, once and without loss, and told of the   *)
(* state its peer is in; and a peer that was lost stays lost until it is   *)
(* negotiated anew.                                                        *)
(***************************************************************************)
EXTENDS PeerTransport, SequenceTheorems, WellFoundedInduction, TLAPS

-----------------------------------------------------------------------------
\* A set of positions has a least element.
LEMMA LeastOf ==
    ASSUME NEW T, T \subseteq Nat, T # {}
    PROVE  \E x \in T : \A y \in T : x <= y
  <1>1. PICK x \in T : \A y \in T : ~ (<<y, x>> \in OpToRel(<, Nat))
    BY NatLessThanWellFounded, WFMin
  <1>2. \A y \in T : y < x => <<y, x>> \in OpToRel(<, Nat)
    BY DEF OpToRel
  <1>3. \A y \in T : x <= y
    <2> TAKE y \in T
    <2>1. x \in Nat /\ y \in Nat
      OBVIOUS
    <2>2. ~(y < x)
      BY <1>1, <1>2
    <2> QED BY <2>1, <2>2
  <1> QED BY <1>3

\* A set of positions in a sequence has a greatest element.
LEMMA GreatestOf ==
    ASSUME NEW n \in Nat, NEW T, T \subseteq 1 .. n, T # {}
    PROVE  \E x \in T : \A y \in T : y <= x
  <1> DEFINE U == {i \in 0 .. n : n - i \in T}
  <1>1. U \subseteq Nat
    OBVIOUS
  <1>2. U # {}
    <2>1. PICK t \in T : TRUE
      OBVIOUS
    <2>2. t \in 1 .. n
      OBVIOUS
    <2>3. n - t \in 0 .. n /\ n - (n - t) = t
      BY <2>2
    <2>4. n - t \in U
      BY <2>1, <2>3
    <2> QED
      BY <2>4
  <1>3. PICK u \in U : \A v \in U : u <= v
    BY <1>1, <1>2, LeastOf
  <1>4. n - u \in T
    OBVIOUS
  <1>5. ASSUME NEW y \in T PROVE y <= n - u
    <2>1. y \in 1 .. n /\ u \in 0 .. n
      OBVIOUS
    <2>2. n - y \in 0 .. n /\ n - (n - y) = y
      BY <2>1
    <2>3. n - y \in U
      BY <1>5, <2>2
    <2>4. u <= n - y
      BY <1>3, <2>3
    <2> QED
      BY <2>1, <2>4
  <1> QED
    BY <1>4, <1>5

\* What holds first and is passed on holds to the end.
LEMMA Climb ==
    ASSUME NEW n \in Nat, NEW P,
           0 \in P, \A i \in 1 .. n : i - 1 \in P => i \in P
    PROVE  \A i \in 0 .. n : i \in P
  <1> SUFFICES ASSUME NEW i0 \in 0 .. n, i0 \notin P PROVE FALSE
    OBVIOUS
  <1> DEFINE T == {i \in 0 .. n : i \notin P}
  <1>1. T \subseteq Nat /\ T # {}
    OBVIOUS
  <1>2. PICK x \in T : \A y \in T : x <= y
    BY <1>1, LeastOf
  <1>3. x \in 1 .. n /\ x - 1 \in 0 .. n
    BY <1>2
  <1>4. x - 1 \notin T
    BY <1>2, <1>3
  <1> QED BY <1>2, <1>3, <1>4

-----------------------------------------------------------------------------
\* The units of a queue.

\* u lists, for each length, the units among that many entries of q.
UpTo(q, u) ==
    u = [i \in 0 .. Len(q) |->
            IF i = 0 THEN <<>>
            ELSE IF q[i].kind = "unit" THEN Append(u[i - 1], q[i].n) ELSE u[i - 1]]

\* Such a list starts empty and grows with each unit of the queue.
LEMMA UpToStep ==
    ASSUME NEW q, Len(q) \in Nat, NEW u, UpTo(q, u)
    PROVE  /\ u[0] = <<>>
           /\ \A i \in 1 .. Len(q) :
                u[i] = IF q[i].kind = "unit" THEN Append(u[i - 1], q[i].n) ELSE u[i - 1]
  <1> DEFINE F(i) == IF i = 0 THEN <<>>
                     ELSE IF q[i].kind = "unit" THEN Append(u[i - 1], q[i].n) ELSE u[i - 1]
  <1>1. u = [i \in 0 .. Len(q) |-> F(i)]
    BY DEF UpTo
  <1> HIDE DEF F
  <1>2. \A i \in 0 .. Len(q) : u[i] = F(i)
    BY <1>1
  <1>3. u[0] = <<>>
    BY <1>2 DEF F
  <1>4. ASSUME NEW i \in 1 .. Len(q)
        PROVE  u[i] = IF q[i].kind = "unit" THEN Append(u[i - 1], q[i].n) ELSE u[i - 1]
    <2>1. i \in 0 .. Len(q) /\ i # 0
      OBVIOUS
    <2> QED
      BY <1>2, <2>1 DEF F
  <1> QED
    BY <1>3, <1>4

\* Such a list exists, which lets Units be unfolded.
LEMMA UpToExists ==
    ASSUME NEW q, Len(q) \in Nat
    PROVE  \E u : UpTo(q, u)
  <1> DEFINE n == Len(q)
             Part(m, u) == u = [i \in 0 .. m |->
                IF i = 0 THEN <<>>
                ELSE IF q[i].kind = "unit" THEN Append(u[i - 1], q[i].n) ELSE u[i - 1]]
             P == {m \in Nat : \E u : Part(m, u)}
  <1>1. 0 \in P
    <2>1. Part(0, [i \in 0 .. 0 |-> <<>>])
      OBVIOUS
    <2> QED
      BY <2>1
  <1>2. ASSUME NEW m \in 1 .. n, m - 1 \in P PROVE m \in P
    <2>1. PICK u : Part(m - 1, u)
      BY <1>2
    <2> DEFINE last == IF q[m].kind = "unit" THEN Append(u[m - 1], q[m].n) ELSE u[m - 1]
               v == [i \in 0 .. m |-> IF i = m THEN last ELSE u[i]]
    <2>2. v = [i \in 0 .. m |->
                IF i = 0 THEN <<>>
                ELSE IF q[i].kind = "unit" THEN Append(v[i - 1], q[i].n) ELSE v[i - 1]]
      <3>1. ASSUME NEW i \in 0 .. m
            PROVE  v[i] = IF i = 0 THEN <<>>
                          ELSE IF q[i].kind = "unit" THEN Append(v[i - 1], q[i].n) ELSE v[i - 1]
        <4>1. CASE i = m
          <5>1. v[m] = last /\ v[m - 1] = u[m - 1]
            OBVIOUS
          <5> QED
            BY <4>1, <5>1
        <4>2. CASE i # m
          <5>1. i \in 0 .. m - 1 /\ v[i] = u[i] /\ (i # 0 => i - 1 \in 0 .. m /\ i - 1 # m)
            BY <4>2
          <5>2. i # 0 => v[i - 1] = u[i - 1]
            BY <5>1
          <5>3. u[i] = IF i = 0 THEN <<>>
                       ELSE IF q[i].kind = "unit" THEN Append(u[i - 1], q[i].n) ELSE u[i - 1]
            BY <2>1, <5>1
          <5> QED
            BY <5>1, <5>2, <5>3
        <4> QED
          BY <4>1, <4>2
      <3> QED
        BY <3>1
    <2> HIDE DEF v
    <2>3. \E w : Part(m, w)
      BY <2>2
    <2> HIDE DEF Part
    <2> QED
      BY <2>3
  <1> HIDE DEF P
  <1>p. \A m \in 0 .. n : m \in P
    BY <1>1, <1>2, Climb
  <1>3. n \in P
    BY <1>p
  <1>4. \E u : Part(n, u)
    BY <1>3 DEF P
  <1> QED
    BY <1>4 DEF UpTo

\* Units is the last entry of such a list.
LEMMA UnitsAre ==
    ASSUME NEW q, Len(q) \in Nat
    PROVE  \E u : UpTo(q, u) /\ Units(q) = u[Len(q)]
  <1> DEFINE u == CHOOSE u : UpTo(q, u)
  <1>1. UpTo(q, u)
    BY UpToExists
  <1>2. Units(q) = u[Len(q)]
    BY DEF Units, UpTo
  <1> QED
    BY <1>1, <1>2

\* The units of two queues are the same as far as the queues are.
LEMMA UpToSame ==
    ASSUME NEW q, NEW r, Len(q) \in Nat, Len(r) \in Nat, NEW n \in Nat, n <= Len(q), n <= Len(r),
           \A i \in 1 .. n : q[i] = r[i], NEW u, NEW v, UpTo(q, u), UpTo(r, v)
    PROVE  \A i \in 0 .. n : u[i] = v[i]
  <1> DEFINE P == {i \in 0 .. n : u[i] = v[i]}
  <1>1. 0 \in P
    BY UpToStep
  <1>2. ASSUME NEW i \in 1 .. n, i - 1 \in P PROVE i \in P
    <2>1. i \in 1 .. Len(q) /\ i \in 1 .. Len(r) /\ q[i] = r[i] /\ u[i - 1] = v[i - 1]
      BY <1>2
    <2>2. u[i] = IF q[i].kind = "unit" THEN Append(u[i - 1], q[i].n) ELSE u[i - 1]
      BY <2>1, UpToStep
    <2>3. v[i] = IF r[i].kind = "unit" THEN Append(v[i - 1], r[i].n) ELSE v[i - 1]
      BY <2>1, UpToStep
    <2> QED
      BY <2>1, <2>2, <2>3
  <1> HIDE DEF P
  <1>3. \A i \in 0 .. n : i \in P
    BY <1>1, <1>2, Climb
  <1> QED
    BY <1>3 DEF P

\* An empty queue has no units.
LEMMA UnitsEmpty == Units(<<>>) = <<>>
  <1>1. Len(<<>>) = 0
    OBVIOUS
  <1> QED
    BY <1>1, UnitsAre DEF UpTo

\* A unit put at the end of a queue is its last unit; another frame is none.
LEMMA UnitsAppend ==
    ASSUME NEW S, NEW q \in Seq(S), NEW f \in S
    PROVE  Units(Append(q, f)) = IF f.kind = "unit" THEN Append(Units(q), f.n) ELSE Units(q)
  <1> DEFINE r == Append(q, f)
             n == Len(q)
  <1>1. n \in Nat /\ Len(r) = n + 1 /\ r[n + 1] = f /\ \A i \in 1 .. n : q[i] = r[i]
    BY AppendProperties
  <1> HIDE DEF r
  <1>2. PICK u : UpTo(q, u) /\ Units(q) = u[n]
    BY <1>1, UnitsAre
  <1>3. PICK v : UpTo(r, v) /\ Units(r) = v[n + 1]
    <2>1. Len(r) \in Nat
      BY <1>1
    <2> QED
      BY <1>1, <2>1, UnitsAre
  <1>4. u[n] = v[n]
    BY <1>1, <1>2, <1>3, UpToSame
  <1>5. v[n + 1] = IF f.kind = "unit" THEN Append(v[n], f.n) ELSE v[n]
    <2>1. n + 1 \in 1 .. Len(r) /\ (n + 1) - 1 = n /\ Len(r) \in Nat
      BY <1>1
    <2>2. v[n + 1] = IF r[n + 1].kind = "unit" THEN Append(v[(n + 1) - 1], r[n + 1].n)
                     ELSE v[(n + 1) - 1]
      BY <1>3, <2>1, UpToStep
    <2> QED
      BY <1>1, <2>1, <2>2
  <1> QED
    BY <1>2, <1>3, <1>4, <1>5 DEF r

\* A queue's units are those of a prefix with all of them.
LEMMA UnitsPrefix ==
    ASSUME NEW S, NEW q \in Seq(S), NEW n \in 0 .. Len(q),
           \A i \in n + 1 .. Len(q) : q[i].kind # "unit"
    PROVE  Units(SubSeq(q, 1, n)) = Units(q)
  <1> DEFINE r == SubSeq(q, 1, n)
  <1>1. Len(q) \in Nat /\ Len(r) = n /\ \A i \in 1 .. n : q[i] = r[i]
    BY SubSeqProperties
  <1> HIDE DEF r
  <1>2. PICK u : UpTo(q, u) /\ Units(q) = u[Len(q)]
    BY <1>1, UnitsAre
  <1>3. PICK v : UpTo(r, v) /\ Units(r) = v[n]
    <2>1. Len(r) \in Nat
      BY <1>1
    <2> QED
      BY <1>1, <2>1, UnitsAre
  <1>4. u[n] = v[n]
    BY <1>1, <1>2, <1>3, UpToSame, SMTT(30)
  <1> DEFINE P == {i \in 0 .. Len(q) : i >= n => u[i] = u[n]}
  <1>5. 0 \in P
    BY <1>1
  <1>6. ASSUME NEW i \in 1 .. Len(q), i - 1 \in P PROVE i \in P
    <2>1. CASE i > n
      <3>1. u[i - 1] = u[n] /\ i \in n + 1 .. Len(q)
        BY <1>1, <1>6, <2>1
      <3>2. u[i] = u[i - 1]
        BY <1>1, <1>2, <3>1, UpToStep
      <3> QED
        BY <1>1, <3>1, <3>2
    <2>2. CASE i <= n
      BY <1>1, <2>2
    <2> QED
      BY <1>1, <2>1, <2>2
  <1> HIDE DEF P
  <1>7. \A i \in 0 .. Len(q) : i \in P
    BY <1>1, <1>5, <1>6, Climb
  <1>8. u[Len(q)] = u[n]
    BY <1>1, <1>7 DEF P
  <1> QED
    BY <1>2, <1>3, <1>4, <1>8 DEF r

\* A queue of units only has them all.
LEMMA UnitsAll ==
    ASSUME NEW q, Len(q) \in Nat, \A i \in 1 .. Len(q) : q[i].kind = "unit"
    PROVE  Units(q) = [i \in 1 .. Len(q) |-> q[i].n]
  <1> DEFINE n == Len(q)
  <1>1. PICK u : UpTo(q, u) /\ Units(q) = u[n]
    BY UnitsAre
  <1> DEFINE R == {i \in 0 .. n : u[i] = [k \in 1 .. i |-> q[k].n]}
  <1>2. 0 \in R
    <2>1. u[0] = <<>>
      BY <1>1, UpToStep
    <2>2. <<>> = [k \in 1 .. 0 |-> q[k].n]
      OBVIOUS
    <2> QED
      BY <2>1, <2>2
  <1>3. ASSUME NEW i \in 1 .. n, i - 1 \in R PROVE i \in R
    <2> DEFINE s == [k \in 1 .. i - 1 |-> q[k].n]
    <2>1. u[i] = Append(s, q[i].n)
      <3>1. u[i - 1] = s
        BY <1>3
      <3>2. q[i].kind = "unit"
        BY <1>3
      <3>3. u[i] = IF q[i].kind = "unit" THEN Append(u[i - 1], q[i].n) ELSE u[i - 1]
        BY <1>1, UpToStep
      <3> QED
        BY <3>1, <3>2, <3>3
    <2>2. s \in Seq({q[k].n : k \in 1 .. n}) /\ Len(s) = i - 1
      OBVIOUS
    <2>3. Append(s, q[i].n) = [k \in 1 .. i |-> q[k].n]
      BY <2>2
    <2> QED
      BY <2>1, <2>3
  <1> HIDE DEF R
  <1>4. \A i \in 0 .. n : i \in R
    BY <1>2, <1>3, Climb
  <1> QED
    BY <1>1, <1>4 DEF R

-----------------------------------------------------------------------------
\* What is delivered, and what is still on its way.

\* from: the kinds of the units sent; Q: the numbers of those that have come.
Has(Q, n) == \E j \in 1 .. Len(Q) : Q[j] = n

\* The i-th of Q was sent, has not come before, and if it is data all data
\* sent before it has.
Fits(Q, i, from) ==
    /\ Q[i] \in 1 .. Len(from)
    /\ \A j \in 1 .. i - 1 : Q[j] # Q[i]
    /\ from[Q[i]] = "data" =>
          \A n \in 1 .. Q[i] - 1 : from[n] = "data" => \E j \in 1 .. i - 1 : Q[j] = n

\* What has come is in order.
InOrder(Q, from) == \A i \in 1 .. Len(Q) : Fits(Q, i, from)

\* Some of the first m entries of w is unit n.
Among(w, m, n) == \E j \in 1 .. m : w[j].kind = "unit" /\ w[j].n = n

\* The i-th entry of w is a unit that can still be read.
Alive(w, i) == w[i].kind = "unit" /\ \A j \in 1 .. i - 1 : w[j] # Eof

\* Unit u, behind m entries of w, was sent, has not come yet, and if it is data
\* the data sent before it has come or is before it.
Due(Q, w, m, u, from) ==
    /\ u \in 1 .. Len(from)
    /\ ~Has(Q, u) /\ ~Among(w, m, u)
    /\ from[u] = "data" =>
          \A n \in 1 .. u - 1 : from[n] = "data" => Has(Q, n) \/ Among(w, m, n)

\* Every unit that can still be read is due.
Ahead(Q, w, from) == \A i \in 1 .. Len(w) : Alive(w, i) => Due(Q, w, i - 1, w[i].n, from)

\* No data is lost.
AllOf(Q, w, from) ==
    \A n \in 1 .. Len(from) : from[n] = "data" => Has(Q, n) \/ Among(w, Len(w), n)

\* The kinds of frames are told apart by their kind.
LEMMA UnitFacts ==
    ASSUME NEW f \in Frames
    PROVE  /\ f.kind \in {"unit", "hello", "close", "eof", "state"}
           /\ f.kind = "unit" => f.n \in 1 .. MaxSend /\ f = Unit(f.n)
           /\ f.kind = "state" => f.s \in ConnectionState
           /\ f = Eof <=> f.kind = "eof"
           /\ f = CloseFrame <=> f.kind = "close"
           /\ f = Hello <=> f.kind = "hello"
  BY DEF Frames, Unit, Eof, CloseFrame, Hello

\* g goes on where from ends.
GoesOn(from, g) ==
    /\ Len(from) \in Nat /\ Len(g) \in Nat /\ Len(from) <= Len(g)
    /\ \A n \in 1 .. Len(from) : g[n] = from[n]

\* A sequence goes on with what is appended to it.
LEMMA GoesOnAppend ==
    ASSUME NEW S, NEW s \in Seq(S), NEW k \in S
    PROVE  GoesOn(s, s) /\ GoesOn(s, Append(s, k)) /\ Len(Append(s, k)) = Len(s) + 1
  BY AppendProperties DEF GoesOn

\* A unit that fits still does when more has come after it, or been sent.
LEMMA FitsSame ==
    ASSUME NEW Q, NEW R, NEW i \in Nat \ {0}, \A j \in 1 .. i : R[j] = Q[j],
           NEW from, NEW g, GoesOn(from, g), Fits(Q, i, from)
    PROVE  Fits(R, i, g)
  <1> DEFINE u == Q[i]
             l == Len(from)
  <1>1. R[i] = u /\ u \in 1 .. l /\ l \in Nat /\ u \in 1 .. Len(g) /\ g[u] = from[u]
    BY DEF Fits, GoesOn
  <1>2. \A j \in 1 .. i - 1 : R[j] = Q[j] /\ R[j] # u
    BY DEF Fits
  <1>3. ASSUME from[u] = "data", NEW n \in 1 .. u - 1, g[n] = "data"
        PROVE  \E j \in 1 .. i - 1 : R[j] = n
    <2>1. from[n] = "data"
      BY <1>1, <1>3 DEF GoesOn
    <2>2. PICK j \in 1 .. i - 1 : Q[j] = n
      BY <1>3, <2>1 DEF Fits
    <2> QED
      BY <1>2, <2>2
  <1> HIDE DEF u
  <1> QED
    BY <1>1, <1>2, <1>3 DEF Fits

\* Being among the first entries depends on these entries alone.
LEMMA AmongSame ==
    ASSUME NEW w, NEW v, NEW m \in Nat, \A j \in 1 .. m : v[j] = w[j], NEW n
    PROVE  Among(w, m, n) <=> Among(v, m, n)
  BY DEF Among

\* A unit that is due stays due while nothing before it changes.
LEMMA DueSame ==
    ASSUME NEW Q, NEW w, NEW v, NEW m \in Nat, \A j \in 1 .. m : v[j] = w[j], NEW u,
           NEW from, NEW g, GoesOn(from, g), Due(Q, w, m, u, from)
    PROVE  Due(Q, v, m, u, g)
  <1>1. \A n : Among(w, m, n) <=> Among(v, m, n)
    BY AmongSame
  <1>2. u \in 1 .. Len(from) /\ Len(from) \in Nat /\ u \in 1 .. Len(g) /\ g[u] = from[u]
    BY DEF Due, GoesOn
  <1>3. \A n \in 1 .. u - 1 : g[n] = from[n]
    BY <1>2 DEF GoesOn
  <1> QED
    BY <1>1, <1>2, <1>3 DEF Due

\* A prefix of what came in order came in order.
LEMMA OrderPrefix ==
    ASSUME NEW a \in Seq(Nat), NEW b \in Seq(Nat), NEW from \in Seq(Kinds), InOrder(a \o b, from)
    PROVE  InOrder(a, from)
  <1> DEFINE Q == a \o b
  <1>1. /\ Len(a) \in Nat /\ Len(b) \in Nat /\ Len(Q) = Len(a) + Len(b)
        /\ \A i \in 1 .. Len(a) : Q[i] = a[i]
    OBVIOUS
  <1> HIDE DEF Q
  <1>2. InOrder(Q, from)
    BY DEF Q
  <1>3. ASSUME NEW i \in 1 .. Len(a) PROVE Fits(a, i, from)
    <2>1. i \in Nat \ {0} /\ i \in 1 .. Len(Q) /\ \A j \in 1 .. i : a[j] = Q[j]
      BY <1>1
    <2>2. Fits(Q, i, from) /\ GoesOn(from, from)
      BY <1>2, <2>1 DEF InOrder, GoesOn
    <2> QED
      BY <2>1, <2>2, FitsSame
  <1> QED
    BY <1>3 DEF InOrder

\* What came in order still did when one more unit was sent.
LEMMA OrderGrows ==
    ASSUME NEW Q \in Seq(Nat), NEW from \in Seq(Kinds), NEW k \in Kinds, InOrder(Q, from)
    PROVE  InOrder(Q, Append(from, k))
  <1> DEFINE g == Append(from, k)
  <1>1. GoesOn(from, g)
    BY GoesOnAppend
  <1> HIDE DEF g
  <1>2. ASSUME NEW i \in 1 .. Len(Q) PROVE Fits(Q, i, g)
    <2>1. i \in Nat \ {0} /\ Fits(Q, i, from)
      BY DEF InOrder
    <2> QED
      BY <1>1, <2>1, FitsSame
  <1> QED
    BY <1>2 DEF InOrder, g

\* As long as entries stay where they are, what was due is due.
LEMMA AheadSame ==
    ASSUME NEW Q, NEW w, NEW v, Len(w) \in Nat, NEW m \in 0 .. Len(w), \A i \in 1 .. m : v[i] = w[i],
           NEW from, NEW g, GoesOn(from, g), Ahead(Q, w, from)
    PROVE  \A i \in 1 .. m : Alive(v, i) => Due(Q, v, i - 1, v[i].n, g)
  <1> SUFFICES ASSUME NEW i \in 1 .. m, Alive(v, i) PROVE Due(Q, v, i - 1, v[i].n, g)
    OBVIOUS
  <1>1. i \in 1 .. Len(w) /\ i - 1 \in Nat /\ v[i] = w[i] /\ \A j \in 1 .. i - 1 : v[j] = w[j]
    OBVIOUS
  <1>2. Alive(w, i)
    BY <1>1 DEF Alive
  <1>3. Due(Q, w, i - 1, w[i].n, from)
    BY <1>1, <1>2 DEF Ahead
  <1> QED
    BY <1>1, <1>3, DueSame

\* What is on its way is cut off behind, or followed by no unit.
LEMMA AheadCut ==
    ASSUME NEW Q, NEW w \in Seq(Frames), NEW from \in Seq(Kinds), NEW m \in 0 .. Len(w), Ahead(Q, w, from)
    PROVE  Ahead(Q, SubSeq(w, 1, m), from)
  <1> DEFINE v == SubSeq(w, 1, m)
  <1>1. Len(w) \in Nat /\ Len(v) = m /\ \A i \in 1 .. m : v[i] = w[i]
    BY SubSeqProperties
  <1>2. GoesOn(from, from)
    BY DEF GoesOn
  <1> HIDE DEF v
  <1>3. \A i \in 1 .. m : Alive(v, i) => Due(Q, v, i - 1, v[i].n, from)
    BY <1>1, <1>2, AheadSame
  <1> QED
    BY <1>1, <1>3 DEF Ahead, v

\* Nothing is lost by putting more into the queue.
LEMMA AllGrows ==
    ASSUME NEW Q, NEW w, NEW from, NEW v, GoesOn(w, v), AllOf(Q, w, from)
    PROVE  AllOf(Q, v, from)
  <1> SUFFICES ASSUME NEW n \in 1 .. Len(from), Among(w, Len(w), n) PROVE Among(v, Len(v), n)
    BY DEF AllOf
  <1>1. PICK j \in 1 .. Len(w) : w[j].kind = "unit" /\ w[j].n = n
    BY DEF Among
  <1>2. j \in 1 .. Len(v) /\ v[j] = w[j]
    BY DEF GoesOn
  <1> QED
    BY <1>1, <1>2 DEF Among

\* A frame that is no unit may be put behind the units that are due.
LEMMA AheadAppend ==
    ASSUME NEW Q, NEW w \in Seq(Frames), NEW from \in Seq(Kinds), NEW f \in Frames, f.kind # "unit",
           Ahead(Q, w, from)
    PROVE  /\ Ahead(Q, Append(w, f), from)
           /\ AllOf(Q, w, from) => AllOf(Q, Append(w, f), from)
  <1> DEFINE v == Append(w, f)
             m == Len(w)
  <1>1. /\ m \in Nat /\ Len(v) = m + 1 /\ v[m + 1] = f
        /\ \A i \in 1 .. m : v[i] = w[i]
    BY AppendProperties
  <1>2. GoesOn(w, v)
    BY GoesOnAppend
  <1>3. GoesOn(from, from)
    BY DEF GoesOn
  <1> HIDE DEF v
  <1>4. \A i \in 1 .. m : Alive(v, i) => Due(Q, v, i - 1, v[i].n, from)
    BY <1>1, <1>3, AheadSame
  <1>5. ~Alive(v, m + 1)
    BY <1>1 DEF Alive
  <1>6. Ahead(Q, v, from)
    BY <1>1, <1>4, <1>5 DEF Ahead
  <1> QED
    BY <1>2, <1>6, AllGrows DEF v

\* A unit is sent.
LEMMA AheadSent ==
    ASSUME NEW Q \in Seq(Nat), NEW w \in Seq(Frames), NEW from \in Seq(Kinds), NEW k \in Kinds,
           InOrder(Q, from), Ahead(Q, w, from),
           AllOf(Q, w, from) \/ \E j \in 1 .. Len(w) : w[j] = Eof
    PROVE  /\ Ahead(Q, Append(w, Unit(Len(from) + 1)), Append(from, k))
           /\ AllOf(Q, w, from) => AllOf(Q, Append(w, Unit(Len(from) + 1)), Append(from, k))
  <1> DEFINE v == Append(w, Unit(Len(from) + 1))
             g == Append(from, k)
             m == Len(w)
             l == Len(from)
  <1>1. /\ m \in Nat /\ Len(v) = m + 1 /\ v[m + 1].kind = "unit" /\ v[m + 1].n = l + 1
        /\ \A i \in 1 .. m : v[i] = w[i]
    BY DEF Unit
  <1>2. l \in Nat /\ Len(g) = l + 1 /\ \A n \in 1 .. l : g[n] = from[n]
    OBVIOUS
  <1>3. GoesOn(from, g)
    BY GoesOnAppend
  <1> HIDE DEF v, g
  <1>4. \A i \in 1 .. m : Alive(v, i) => Due(Q, v, i - 1, v[i].n, g)
    <2>1. m \in 0 .. Len(w) /\ Len(w) \in Nat
      BY <1>1
    <2> HIDE DEF m
    <2> QED
      BY <1>1, <1>3, <2>1, AheadSame
  <1>a. ASSUME AllOf(Q, w, from), NEW n \in 1 .. l, g[n] = "data" PROVE Has(Q, n) \/ Among(v, m, n)
    <2>1. Has(Q, n) \/ Among(w, m, n)
      BY <1>2, <1>a DEF AllOf
    <2>2. Among(w, m, n) <=> Among(v, m, n)
      BY <1>1, AmongSame
    <2> QED
      BY <2>1, <2>2
  <1>5. ASSUME Alive(v, m + 1) PROVE Due(Q, v, m, l + 1, g)
    <2>1. \A j \in 1 .. m : w[j] # Eof
      BY <1>1, <1>5 DEF Alive
    <2>2. AllOf(Q, w, from)
      BY <2>1
    <2>3. ~Has(Q, l + 1)
      <3> SUFFICES ASSUME NEW j \in 1 .. Len(Q), Q[j] = l + 1 PROVE FALSE
        BY DEF Has
      <3>1. Q[j] \in 1 .. l
        BY DEF InOrder, Fits
      <3> QED
        BY <1>2, <3>1
    <2>4. ~Among(v, m, l + 1)
      <3> SUFFICES ASSUME NEW j \in 1 .. m, v[j].kind = "unit", v[j].n = l + 1 PROVE FALSE
        BY DEF Among
      <3>1. v[j] = w[j] /\ j \in 1 .. Len(w) /\ \A i \in 1 .. j - 1 : w[i] # Eof
        BY <1>1, <2>1
      <3>2. Alive(w, j)
        BY <3>1 DEF Alive
      <3>3. w[j].n \in 1 .. l
        BY <3>1, <3>2 DEF Ahead, Due
      <3> QED
        BY <1>2, <3>1, <3>3
    <2>5. l + 1 \in 1 .. Len(g) /\ (l + 1) - 1 = l
      BY <1>2
    <2> QED
      BY <1>a, <2>2, <2>3, <2>4, <2>5 DEF Due
  <1>6. Ahead(Q, v, g)
    <2> SUFFICES ASSUME NEW i \in 1 .. m + 1, Alive(v, i) PROVE Due(Q, v, i - 1, v[i].n, g)
      BY <1>1 DEF Ahead
    <2>1. CASE i \in 1 .. m
      BY <1>4, <2>1
    <2>2. CASE i = m + 1
      <3>1. i - 1 = m
        BY <1>1, <2>2
      <3> QED
        BY <1>1, <1>5, <2>2, <3>1
    <2> QED
      BY <1>1, <2>1, <2>2
  <1>7. ASSUME AllOf(Q, w, from) PROVE AllOf(Q, v, g)
    <2> SUFFICES ASSUME NEW n \in 1 .. l + 1, g[n] = "data" PROVE Has(Q, n) \/ Among(v, m + 1, n)
      BY <1>1, <1>2 DEF AllOf
    <2>1. CASE n \in 1 .. l
      <3>1. Has(Q, n) \/ Among(v, m, n)
        BY <1>7, <1>a, <2>1
      <3> QED
        BY <1>1, <3>1 DEF Among
    <2>2. CASE n = l + 1
      <3>1. m + 1 \in 1 .. m + 1
        BY <1>1
      <3>2. v[m + 1].kind = "unit" /\ v[m + 1].n = n
        BY <1>1, <2>2
      <3> QED
        BY <3>1, <3>2 DEF Among
    <2> QED
      BY <1>2, <2>1, <2>2
  <1> QED
    BY <1>6, <1>7 DEF v, g

-----------------------------------------------------------------------------
\* A unit is taken out: received, or lost.

\* v is w without its i-th entry.
Without(w, i, v) ==
    /\ i \in 1 .. Len(w) /\ Len(w) \in Nat /\ Len(v) \in Nat /\ Len(w) = Len(v) + 1
    /\ \A k \in 1 .. Len(v) : v[k] = IF k < i THEN w[k] ELSE w[k + 1]

\* R: what has come when the i-th of w is received, data after the data before
\* it, or lost, which data is not.
Takes(Q, w, i, from, R) ==
    \/ /\ R = Append(Q, w[i].n) /\ Alive(w, i)
       /\ from[w[i].n] = "data" =>
             \A j \in 1 .. i - 1 : w[j].kind = "unit" => from[w[j].n] # "data"
    \/ R = Q /\ (w[i].kind = "unit" => from[w[i].n] # "data")

\* What is before an entry when another one was taken out: what was before it
\* then, but for the one taken out.
LEMMA AmongWithout ==
    ASSUME NEW w, NEW i, NEW v, Without(w, i, v), NEW k \in 1 .. Len(v), NEW n
    PROVE  LET k0 == IF k < i THEN k ELSE k + 1 IN
           /\ Among(v, k - 1, n) => Among(w, k0 - 1, n)
           /\ Among(w, k0 - 1, n) => Among(v, k - 1, n) \/ (w[i].kind = "unit" /\ w[i].n = n)
  <1> DEFINE k0 == IF k < i THEN k ELSE k + 1
  <1>1. /\ i \in Nat /\ i >= 1 /\ k \in Nat /\ k >= 1 /\ k <= Len(v) /\ Len(v) \in Nat
        /\ \A j \in 1 .. Len(v) : v[j] = IF j < i THEN w[j] ELSE w[j + 1]
    BY DEF Without
  <1>2. ASSUME Among(v, k - 1, n) PROVE Among(w, k0 - 1, n)
    <2>1. PICK j \in 1 .. k - 1 : v[j].kind = "unit" /\ v[j].n = n
      BY <1>2 DEF Among
    <2>2. j \in 1 .. Len(v)
      BY <1>1
    <2>3. CASE j < i
      <3>1. v[j] = w[j] /\ j \in 1 .. k0 - 1
        BY <1>1, <2>2, <2>3
      <3> QED
        BY <2>1, <3>1 DEF Among
    <2>4. CASE ~(j < i)
      <3>1. v[j] = w[j + 1] /\ j + 1 \in 1 .. k0 - 1
        BY <1>1, <2>2, <2>4
      <3> QED
        BY <2>1, <3>1 DEF Among
    <2> QED
      BY <2>3, <2>4
  <1>3. ASSUME Among(w, k0 - 1, n), ~(w[i].kind = "unit" /\ w[i].n = n) PROVE Among(v, k - 1, n)
    <2>1. PICK j \in 1 .. k0 - 1 : w[j].kind = "unit" /\ w[j].n = n
      BY <1>3 DEF Among
    <2>2. j # i
      BY <1>3, <2>1
    <2>3. CASE j < i
      <3>1. j \in 1 .. Len(v) /\ j \in 1 .. k - 1
        BY <1>1, <2>3
      <3>2. v[j] = w[j]
        BY <1>1, <2>3, <3>1
      <3> QED
        BY <2>1, <3>1, <3>2 DEF Among
    <2>4. CASE j > i
      <3>1. j - 1 \in 1 .. Len(v) /\ j - 1 \in 1 .. k - 1 /\ ~(j - 1 < i) /\ (j - 1) + 1 = j
        BY <1>1, <2>4
      <3>2. v[j - 1] = w[j]
        BY <1>1, <3>1
      <3> QED
        BY <2>1, <3>1, <3>2 DEF Among
    <2> QED
      BY <1>1, <2>2, <2>3, <2>4
  <1> QED
    BY <1>2, <1>3

\* Whatever entry is read or lost as Takes allows, what came is in order and what
\* remains is due.
LEMMA TakenOut ==
    ASSUME NEW Q \in Seq(Nat), NEW w \in Seq(Frames), NEW v \in Seq(Frames), NEW from \in Seq(Kinds),
           NEW i, Without(w, i, v), w[i] # Eof, InOrder(Q, from), Ahead(Q, w, from),
           NEW R, Takes(Q, w, i, from, R)
    PROVE  /\ R \in Seq(Nat) /\ InOrder(R, from) /\ Ahead(R, v, from)
           /\ AllOf(Q, w, from) => AllOf(R, v, from)
  <1> DEFINE u == w[i].n
             took == R = Append(Q, u) /\ Alive(w, i)
             passed == R = Q /\ (w[i].kind = "unit" => from[u] # "data")
  <1>1. i \in 1 .. Len(w) /\ i \in Nat /\ Len(v) \in Nat /\ Len(w) = Len(v) + 1
    BY DEF Without
  <1>2. took \/ passed
    BY DEF Takes
  <1>3. ASSUME took
        PROVE  /\ Due(Q, w, i - 1, u, from) /\ u \in Nat /\ w[i].kind = "unit"
               /\ R \in Seq(Nat) /\ Len(R) = Len(Q) + 1 /\ R[Len(Q) + 1] = u
               /\ \A j \in 1 .. Len(Q) : R[j] = Q[j]
    <2>1. Due(Q, w, i - 1, u, from) /\ w[i].kind = "unit"
      BY <1>1, <1>3 DEF Ahead, Alive
    <2>2. u \in Nat
      BY <1>1, <2>1, UnitFacts
    <2> HIDE DEF u
    <2> QED
      BY <1>3, <2>1, <2>2, AppendProperties
  <1>4. R \in Seq(Nat)
    <2>1. took => R \in Seq(Nat)
      BY <1>3
    <2>2. passed => R \in Seq(Nat)
      OBVIOUS
    <2> QED
      BY <1>2, <2>1, <2>2
  <1>5. \A n : Has(Q, n) => Has(R, n)
    <2> SUFFICES ASSUME NEW n, NEW j \in 1 .. Len(Q), Q[j] = n PROVE Has(R, n)
      BY DEF Has
    <2>1. took => j \in 1 .. Len(R) /\ R[j] = n
      BY <1>3
    <2> QED
      BY <1>2, <2>1 DEF Has
  <1>6. took => Has(R, u)
    <2> SUFFICES ASSUME took PROVE Has(R, u)
      OBVIOUS
    <2>1. Len(Q) + 1 \in 1 .. Len(R) /\ R[Len(Q) + 1] = u
      BY <1>3
    <2> QED
      BY <2>1 DEF Has
  <1>7. \A n : Has(R, n) => Has(Q, n) \/ (took /\ n = u)
    <2> SUFFICES ASSUME NEW n, NEW j \in 1 .. Len(R), R[j] = n, ~Has(Q, n) PROVE took /\ n = u
      BY DEF Has
    <2>1. R # Q
      <3> SUFFICES ASSUME R = Q PROVE Has(Q, n)
        OBVIOUS
      <3>1. j \in 1 .. Len(Q) /\ Q[j] = n
        OBVIOUS
      <3> QED
        BY <3>1 DEF Has
    <2>2. took
      BY <1>2, <2>1
    <2>3. j \notin 1 .. Len(Q)
      BY <1>3, <2>2 DEF Has
    <2>4. j = Len(Q) + 1
      BY <1>3, <2>2, <2>3
    <2> QED
      BY <1>3, <2>2, <2>4
  \* What comes fits behind what has come.
  <1>8. ASSUME took PROVE Fits(R, Len(Q) + 1, from)
    <2> DEFINE m == Len(Q)
    <2>1. m \in Nat /\ (m + 1) - 1 = m /\ R[m + 1] = u /\ \A j \in 1 .. m : R[j] = Q[j]
      BY <1>3, <1>8
    <2>2. u \in 1 .. Len(from) /\ ~Has(Q, u)
      BY <1>3, <1>8 DEF Due
    <2>3. \A j \in 1 .. m : R[j] # u
      BY <2>1, <2>2 DEF Has
    <2>4. ASSUME from[u] = "data", NEW n \in 1 .. u - 1, from[n] = "data"
          PROVE  \E j \in 1 .. m : R[j] = n
      <3>1. Has(Q, n) \/ Among(w, i - 1, n)
        BY <1>3, <1>8, <2>4 DEF Due
      <3>2. ~Among(w, i - 1, n)
        <4>1. R # Q
          BY <1>3, <1>8
        <4>2. \A j \in 1 .. i - 1 : w[j].kind = "unit" => from[w[j].n] # "data"
          BY <2>4, <4>1 DEF Takes
        <4> QED
          BY <2>4, <4>2 DEF Among
      <3> QED
        BY <2>1, <3>1, <3>2 DEF Has
    <2> HIDE DEF m, u
    <2> QED
      BY <2>1, <2>2, <2>3, <2>4 DEF Fits, m
  <1>9. InOrder(R, from)
    <2>1. CASE took
      <3> SUFFICES ASSUME NEW j \in 1 .. Len(R) PROVE Fits(R, j, from)
        BY DEF InOrder
      <3>1. CASE j \in 1 .. Len(Q)
        <4>1. Fits(Q, j, from) /\ GoesOn(from, from) /\ j \in Nat \ {0}
          BY <3>1 DEF InOrder, GoesOn
        <4>2. \A k \in 1 .. j : R[k] = Q[k]
          BY <1>3, <2>1, <3>1
        <4> QED
          BY <4>1, <4>2, FitsSame
      <3>2. CASE j = Len(Q) + 1
        BY <1>8, <2>1, <3>2
      <3> QED
        BY <1>3, <2>1, <3>1, <3>2
    <2>2. CASE passed
      BY <2>2
    <2> QED
      BY <1>2, <2>1, <2>2
  <1>10. Ahead(R, v, from)
    <2> SUFFICES ASSUME NEW k \in 1 .. Len(v), Alive(v, k) PROVE Due(R, v, k - 1, v[k].n, from)
      BY DEF Ahead
    <2> DEFINE k0 == IF k < i THEN k ELSE k + 1
               x == w[k0].n
    <2>1. k0 \in 1 .. Len(w) /\ v[k] = w[k0] /\ k0 # i
      BY <1>1 DEF Without
    <2>2. \A n : /\ Among(v, k - 1, n) => Among(w, k0 - 1, n)
                 /\ Among(w, k0 - 1, n) => Among(v, k - 1, n) \/ (w[i].kind = "unit" /\ u = n)
      BY AmongWithout
    <2>3. Alive(w, k0)
      <3> SUFFICES ASSUME NEW j \in 1 .. k0 - 1, w[j] = Eof PROVE FALSE
        BY <2>1 DEF Alive
      <3>1. j # i
        OBVIOUS
      <3>2. CASE j < i
        <4>1. j \in 1 .. Len(v) /\ j \in 1 .. k - 1
          BY <1>1, <3>2
        <4>2. v[j] = Eof
          BY <3>2, <4>1 DEF Without
        <4> QED
          BY <4>1, <4>2 DEF Alive
      <3>3. CASE j > i
        <4>1. j - 1 \in 1 .. Len(v) /\ j - 1 \in 1 .. k - 1 /\ ~(j - 1 < i) /\ (j - 1) + 1 = j
          BY <1>1, <3>3
        <4>2. v[j - 1] = Eof
          BY <4>1 DEF Without
        <4> QED
          BY <4>1, <4>2 DEF Alive
      <3> QED
        BY <1>1, <3>1, <3>2, <3>3
    <2>4. Due(Q, w, k0 - 1, x, from)
      BY <2>1, <2>3 DEF Ahead
    <2>5. took => x # u
      <3> SUFFICES ASSUME took, x = u PROVE FALSE
        OBVIOUS
      <3>1. w[i].kind = "unit" /\ w[k0].kind = "unit" /\ Due(Q, w, i - 1, u, from)
        BY <1>3, <2>3 DEF Alive
      <3>2. CASE k0 < i
        <4>1. k0 \in 1 .. i - 1
          BY <1>1, <2>1, <3>2
        <4>2. Among(w, i - 1, u)
          BY <3>1, <4>1 DEF Among
        <4> QED
          BY <3>1, <4>2 DEF Due
      <3>3. CASE k0 > i
        <4>1. i \in 1 .. k0 - 1
          BY <1>1, <2>1, <3>3
        <4>2. Among(w, k0 - 1, x)
          BY <3>1, <4>1 DEF Among
        <4> QED
          BY <2>4, <4>2 DEF Due
      <3> QED
        BY <1>1, <2>1, <3>2, <3>3
    <2> HIDE DEF k0, x
    <2>6. x \in 1 .. Len(from) /\ ~Has(R, x) /\ ~Among(v, k - 1, x)
      BY <1>7, <2>2, <2>4, <2>5 DEF Due
    <2>7. ASSUME from[x] = "data", NEW n \in 1 .. x - 1, from[n] = "data"
          PROVE  Has(R, n) \/ Among(v, k - 1, n)
      <3>1. Has(Q, n) \/ Among(w, k0 - 1, n)
        BY <2>4, <2>7 DEF Due
      <3>2. w[i].kind = "unit" /\ u = n => Has(R, n)
        BY <1>2, <1>6, <2>7
      <3> QED
        BY <1>5, <2>2, <3>1, <3>2
    <2>8. Due(R, v, k - 1, x, from)
      BY <2>6, <2>7 DEF Due
    <2> QED
      BY <2>1, <2>8 DEF x
  <1>11. ASSUME AllOf(Q, w, from) PROVE AllOf(R, v, from)
    <2> SUFFICES ASSUME NEW n \in 1 .. Len(from), from[n] = "data", ~Has(R, n)
                 PROVE  Among(v, Len(v), n)
      BY DEF AllOf
    <2>1. Among(w, Len(w), n)
      BY <1>5, <1>11 DEF AllOf
    <2>2. PICK j \in 1 .. Len(w) : w[j].kind = "unit" /\ w[j].n = n
      BY <2>1 DEF Among
    <2>3. j # i
      BY <1>2, <1>6, <2>2
    <2>4. CASE j < i
      <3>1. j \in 1 .. Len(v) /\ v[j] = w[j]
        BY <1>1, <2>4 DEF Without
      <3> QED
        BY <2>2, <3>1 DEF Among
    <2>5. CASE j > i
      <3>1. j - 1 \in 1 .. Len(v) /\ ~(j - 1 < i) /\ (j - 1) + 1 = j
        BY <1>1, <2>5
      <3>2. v[j - 1] = w[j]
        BY <3>1 DEF Without
      <3> QED
        BY <2>2, <3>1, <3>2 DEF Among
    <2> QED
      BY <1>1, <2>3, <2>4, <2>5
  <1> QED
    BY <1>4, <1>9, <1>10, <1>11

\* The units of a queue are numbers of units.
LEMMA UnitsType ==
    ASSUME NEW q \in Seq(Frames)
    PROVE  Units(q) \in Seq(1 .. MaxSend)
  <1>1. Len(q) \in Nat /\ \A i \in 1 .. Len(q) : q[i].kind = "unit" => q[i].n \in 1 .. MaxSend
    BY UnitFacts
  <1>2. PICK u : UpTo(q, u) /\ Units(q) = u[Len(q)]
    BY <1>1, UnitsAre
  <1> DEFINE P == {i \in 0 .. Len(q) : u[i] \in Seq(1 .. MaxSend)}
  <1>3. 0 \in P
    <2>1. u[0] = <<>>
      BY <1>1, <1>2, UpToStep
    <2>2. <<>> \in Seq(1 .. MaxSend) /\ 0 \in 0 .. Len(q)
      BY <1>1
    <2> QED
      BY <2>1, <2>2
  <1>4. ASSUME NEW i \in 1 .. Len(q), i - 1 \in P PROVE i \in P
    <2>1. u[i - 1] \in Seq(1 .. MaxSend)
      BY <1>4
    <2>2. u[i] = IF q[i].kind = "unit" THEN Append(u[i - 1], q[i].n) ELSE u[i - 1]
      BY <1>1, <1>2, UpToStep
    <2>3. CASE q[i].kind = "unit"
      <3>1. q[i].n \in 1 .. MaxSend
        BY <1>1, <1>4, <2>3
      <3>2. Append(u[i - 1], q[i].n) \in Seq(1 .. MaxSend)
        BY <2>1, <3>1
      <3>3. u[i] \in Seq(1 .. MaxSend)
        BY <2>2, <2>3, <3>2
      <3> QED
        BY <1>1, <3>3
    <2>4. CASE q[i].kind # "unit"
      <3>1. u[i] \in Seq(1 .. MaxSend)
        BY <2>1, <2>2, <2>4
      <3> QED
        BY <1>1, <3>1
    <2> QED
      BY <2>3, <2>4
  <1> HIDE DEF P
  <1>5. \A i \in 0 .. Len(q) : i \in P
    BY <1>1, <1>3, <1>4, Climb
  <1> QED
    BY <1>1, <1>2, <1>5 DEF P

\* A queue of units is taken whole.
LEMMA TakenWhole ==
    ASSUME NEW Q \in Seq(Nat), NEW w \in Seq(Frames), NEW from \in Seq(Kinds),
           \A i \in 1 .. Len(w) : w[i].kind = "unit", InOrder(Q, from), Ahead(Q, w, from)
    PROVE  /\ InOrder(Q \o Units(w), from)
           /\ AllOf(Q, w, from) => AllOf(Q \o Units(w), <<>>, from)
  <1> DEFINE U == [i \in 1 .. Len(w) |-> w[i].n]
             R == Q \o U
             m == Len(Q)
             l == Len(w)
  <1>1. l \in Nat /\ \A i \in 1 .. l : w[i].n \in Nat
    BY UnitFacts
  <1>2. Units(w) = U
    BY <1>1, UnitsAll
  <1>3. U \in Seq(Nat) /\ Len(U) = l /\ \A i \in 1 .. l : U[i] = w[i].n
    BY <1>1
  <1> HIDE DEF U
  <1>4. /\ m \in Nat /\ R \in Seq(Nat) /\ Len(R) = m + l
        /\ \A j \in 1 .. m : R[j] = Q[j]
        /\ \A i \in 1 .. l : R[m + i] = w[i].n
    <2>1. \A j \in 1 .. m + Len(U) : (Q \o U)[j] = IF j <= m THEN Q[j] ELSE U[j - m]
      BY <1>3
    <2>0. (Q \o U) \in Seq(Nat) /\ Len(Q \o U) = m + Len(U)
      BY <1>3, ConcatProperties
    <2>2. ASSUME NEW i \in 1 .. l PROVE R[m + i] = w[i].n
      <3>1. m + i \in 1 .. m + Len(U) /\ ~(m + i <= m) /\ (m + i) - m = i
        BY <1>1, <1>3
      <3>2. R[m + i] = U[(m + i) - m]
        BY <2>1, <3>1
      <3> QED
        BY <1>3, <3>1, <3>2
    <2>3. m \in Nat /\ \A j \in 1 .. m : j \in 1 .. m + Len(U) /\ j <= m
      BY <1>1, <1>3
    <2>4. \A j \in 1 .. m : R[j] = Q[j]
      BY <2>1, <2>3
    <2> HIDE DEF R
    <2>5. R \in Seq(Nat) /\ Len(R) = m + l
      BY <1>3, <2>0 DEF R
    <2> QED
      BY <2>2, <2>3, <2>4, <2>5
  <1> HIDE DEF R
  <1>5. ASSUME NEW i \in 1 .. l PROVE Due(Q, w, i - 1, w[i].n, from)
    <2>1. \A j \in 1 .. i - 1 : w[j] # Eof
      <3> TAKE j \in 1 .. i - 1
      <3>1. j \in 1 .. l
        BY <1>1
      <3> QED
        BY <3>1, UnitFacts
    <2> QED
      BY <2>1 DEF Ahead, Alive
  <1>6. ASSUME NEW i \in 1 .. l PROVE Fits(R, m + i, from)
    <2> DEFINE u == w[i].n
    <2>1. Due(Q, w, i - 1, u, from) /\ R[m + i] = u
      BY <1>4, <1>5
    <2>2. ASSUME NEW j \in 1 .. (m + i) - 1 PROVE R[j] # u
      <3>1. CASE j \in 1 .. m
        BY <1>4, <2>1, <3>1 DEF Due, Has
      <3>2. CASE j > m
        <4>1. j - m \in 1 .. i - 1 /\ j - m \in 1 .. l /\ m + (j - m) = j
          BY <1>1, <1>4, <3>2
        <4>2. R[j] = w[j - m].n /\ w[j - m].kind = "unit"
          BY <1>4, <4>1
        <4> QED
          BY <2>1, <4>1, <4>2 DEF Due, Among
      <3> QED
        BY <1>4, <3>1, <3>2
    <2>3. ASSUME from[u] = "data", NEW n \in 1 .. u - 1, from[n] = "data"
          PROVE  \E j \in 1 .. (m + i) - 1 : R[j] = n
      <3>1. CASE Has(Q, n)
        <4>1. PICK j \in 1 .. m : Q[j] = n
          BY <3>1 DEF Has
        <4>2. R[j] = n
          BY <1>4, <4>1
        <4>3. j \in 1 .. (m + i) - 1
          BY <1>1, <1>4
        <4> QED
          BY <4>2, <4>3
      <3>2. CASE Among(w, i - 1, n)
        <4>1. PICK j \in 1 .. i - 1 : w[j].n = n
          BY <3>2 DEF Among
        <4>2. j \in 1 .. l
          BY <1>1
        <4>3. R[m + j] = n
          BY <1>4, <4>1, <4>2
        <4>4. m + j \in 1 .. (m + i) - 1
          BY <1>1, <1>4
        <4> QED
          BY <4>3, <4>4
      <3> QED
        BY <2>1, <2>3, <3>1, <3>2 DEF Due
    <2>4. u \in 1 .. Len(from)
      BY <2>1 DEF Due
    <2> HIDE DEF u
    <2> QED
      BY <2>1, <2>2, <2>3, <2>4 DEF Fits
  <1>7. InOrder(R, from)
    <2> SUFFICES ASSUME NEW j \in 1 .. m + l PROVE Fits(R, j, from)
      BY <1>4 DEF InOrder
    <2>1. CASE j \in 1 .. m
      <3>1. Fits(Q, j, from) /\ GoesOn(from, from) /\ j \in Nat \ {0}
        BY <2>1 DEF InOrder, GoesOn
      <3>2. \A k \in 1 .. j : R[k] = Q[k]
        BY <1>4, <2>1
      <3> QED
        BY <3>1, <3>2, FitsSame
    <2>2. CASE j > m
      <3>1. j - m \in 1 .. l /\ m + (j - m) = j
        BY <1>1, <1>4, <2>2
      <3>2. Fits(R, m + (j - m), from)
        BY <1>6, <3>1
      <3> QED
        BY <3>1, <3>2
    <2> QED
      BY <1>1, <1>4, <2>1, <2>2
  <1>8. ASSUME AllOf(Q, w, from), NEW n \in 1 .. Len(from), from[n] = "data" PROVE Has(R, n)
    <2>1. CASE Has(Q, n)
      <3>1. PICK j \in 1 .. m : Q[j] = n
        BY <2>1 DEF Has
      <3>2. j \in 1 .. Len(R) /\ R[j] = n
        BY <1>1, <1>4, <3>1
      <3> QED
        BY <3>2 DEF Has
    <2>2. CASE Among(w, l, n)
      <3>1. PICK j \in 1 .. l : w[j].n = n
        BY <2>2 DEF Among
      <3>2. m + j \in 1 .. Len(R) /\ R[m + j] = n
        BY <1>1, <1>4, <3>1
      <3> QED
        BY <3>2 DEF Has
    <2> QED
      BY <1>8, <2>1, <2>2 DEF AllOf
  <1> QED
    BY <1>2, <1>7, <1>8 DEF R, AllOf

\* done: the queue w is no longer read; gone: nor is what was read delivered.
StreamOK(Q, w, from, done, gone) ==
    /\ InOrder(Q, from)
    /\ ~done => Ahead(Q, w, from)
    /\ ~done /\ ~gone /\ (\A j \in 1 .. Len(w) : w[j] # Eof) => AllOf(Q, w, from)

\* From w to v no unit is put in, nothing is taken out but by a broken
\* connection, and a close is only put in when the sender is gone.
Lets(w, v, gone) ==
    \/ v = w
    \/ \E f \in Frames : f.kind # "unit" /\ (f = CloseFrame => gone) /\ v = Append(w, f)
    \/ \E m \in 0 .. Len(w) : v = Append(SubSeq(w, 1, m), Eof)

\* The same, in at most two parts.
LetsBoth(w, v, gone) == \E u \in Seq(Frames) : Lets(w, u, gone) /\ Lets(u, v, gone)

\* One quiet change of a queue is two.
LEMMA LetsOnce ==
    ASSUME NEW w \in Seq(Frames), NEW v, NEW gone, Lets(w, v, gone)
    PROVE  LetsBoth(w, v, gone)
  BY DEF LetsBoth, Lets

\* StreamOK asks less of a queue no longer read or delivered.
LEMMA StreamLess ==
    ASSUME NEW Q, NEW w, NEW from, NEW done, NEW gone, NEW done2, NEW gone2,
           done => done2, gone => gone2, StreamOK(Q, w, from, done, gone)
    PROVE  StreamOK(Q, w, from, done2, gone2)
  BY DEF StreamOK

\* A quiet change of the queue keeps the stream right.
LEMMA StreamQuiet ==
    ASSUME NEW Q \in Seq(Nat), NEW w \in Seq(Frames), NEW from \in Seq(Kinds),
           NEW done, NEW gone, StreamOK(Q, w, from, done, gone), NEW v, Lets(w, v, TRUE)
    PROVE  StreamOK(Q, v, from, done, gone)
  <1> SUFFICES ASSUME ~done
               PROVE  /\ Ahead(Q, v, from)
                      /\ ~gone /\ (\A j \in 1 .. Len(v) : v[j] # Eof) => AllOf(Q, v, from)
    BY DEF StreamOK
  <1>1. Ahead(Q, w, from)
    BY DEF StreamOK
  <1>2. CASE v = w
    BY <1>1, <1>2 DEF StreamOK
  <1>3. CASE \E f \in Frames : f.kind # "unit" /\ v = Append(w, f)
    <2>1. PICK f \in Frames : f.kind # "unit" /\ v = Append(w, f)
      BY <1>3
    <2>2. Ahead(Q, v, from) /\ (AllOf(Q, w, from) => AllOf(Q, v, from))
      BY <1>1, <2>1, AheadAppend
    <2>3. Len(v) = Len(w) + 1 /\ \A j \in 1 .. Len(w) : j \in 1 .. Len(v) /\ v[j] = w[j]
      BY <2>1, AppendProperties
    <2> QED
      BY <2>2, <2>3 DEF StreamOK
  <1>4. CASE \E m \in 0 .. Len(w) : v = Append(SubSeq(w, 1, m), Eof)
    <2>1. PICK m \in 0 .. Len(w) : v = Append(SubSeq(w, 1, m), Eof)
      BY <1>4
    <2> DEFINE c == SubSeq(w, 1, m)
    <2>2. c \in Seq(Frames) /\ Ahead(Q, c, from)
      BY <1>1, AheadCut
    <2>3. Eof \in Frames /\ Eof.kind # "unit"
      BY DEF Eof, Frames
    <2> HIDE DEF c
    <2>4. Ahead(Q, Append(c, Eof), from)
      BY <2>2, <2>3, AheadAppend
    <2>5. Len(c) + 1 \in 1 .. Len(Append(c, Eof)) /\ Append(c, Eof)[Len(c) + 1] = Eof
      BY <2>2, <2>3, AppendProperties
    <2> QED
      BY <2>1, <2>4, <2>5 DEF c
  <1> QED
    BY <1>2, <1>3, <1>4 DEF Lets

\* A unit is sent: to an end that reads, or to one that is gone.
LEMMA StreamSent ==
    ASSUME NEW Q \in Seq(Nat), NEW w \in Seq(Frames), NEW from \in Seq(Kinds), NEW k \in Kinds,
           NEW done, NEW gone, StreamOK(Q, w, from, done, gone), NEW v,
           v = IF gone THEN w ELSE Append(w, Unit(Len(from) + 1))
    PROVE  StreamOK(Q, v, Append(from, k), done, gone)
  <1> DEFINE g == Append(from, k)
  <1>1. InOrder(Q, g)
    BY OrderGrows DEF StreamOK
  <1>2. GoesOn(from, g)
    BY GoesOnAppend
  <1> HIDE DEF g
  <1> SUFFICES ASSUME ~done
               PROVE  /\ Ahead(Q, v, g)
                      /\ ~gone /\ (\A j \in 1 .. Len(v) : v[j] # Eof) => AllOf(Q, v, g)
    BY <1>1 DEF StreamOK, g
  <1>3. Ahead(Q, w, from) /\ InOrder(Q, from)
    BY DEF StreamOK
  <1>4. CASE gone
    <2>1. v = w /\ Len(w) \in Nat
      BY <1>4
    <2>2. \A i \in 1 .. Len(w) : Alive(v, i) => Due(Q, v, i - 1, v[i].n, g)
      <3>1. Len(w) \in 0 .. Len(w)
        BY <2>1
      <3> QED
        BY <1>2, <1>3, <2>1, <3>1, AheadSame
    <2> QED
      BY <1>4, <2>1, <2>2 DEF Ahead
  <1>5. CASE ~gone
    <2>1. v = Append(w, Unit(Len(from) + 1))
      BY <1>5
    <2>2. AllOf(Q, w, from) \/ \E j \in 1 .. Len(w) : w[j] = Eof
      BY <1>5 DEF StreamOK
    <2>3. Ahead(Q, v, g) /\ (AllOf(Q, w, from) => AllOf(Q, v, g))
      BY <1>3, <2>1, <2>2, AheadSent DEF g
    <2>4. (\E j \in 1 .. Len(w) : w[j] = Eof) => \E j \in 1 .. Len(v) : v[j] = Eof
      BY <2>1
    <2> QED
      BY <2>2, <2>3, <2>4
  <1> QED
    BY <1>4, <1>5

\* A unit is read, or lost; or what is read is no unit.
LEMMA StreamTaken ==
    ASSUME NEW Q \in Seq(Nat), NEW w \in Seq(Frames), NEW v \in Seq(Frames), NEW from \in Seq(Kinds),
           NEW done, NEW gone, ~done, StreamOK(Q, w, from, done, gone),
           NEW i, Without(w, i, v), w[i] # Eof, NEW R, Takes(Q, w, i, from, R)
    PROVE  StreamOK(R, v, from, done, gone)
  <1>1. InOrder(Q, from) /\ Ahead(Q, w, from)
    BY DEF StreamOK
  <1>2. /\ InOrder(R, from) /\ Ahead(R, v, from)
        /\ AllOf(Q, w, from) => AllOf(R, v, from)
    BY <1>1, TakenOut
  <1>3. ASSUME \A j \in 1 .. Len(v) : v[j] # Eof PROVE \A j \in 1 .. Len(w) : w[j] # Eof
    <2> TAKE j \in 1 .. Len(w)
    <2>1. i \in 1 .. Len(w) /\ Len(v) \in Nat /\ Len(w) = Len(v) + 1
      BY DEF Without
    <2>2. CASE j < i
      <3>1. j \in 1 .. Len(v)
        BY <2>1, <2>2
      <3>2. v[j] = w[j]
        BY <2>2, <3>1 DEF Without
      <3> QED
        BY <1>3, <3>1, <3>2
    <2>3. CASE j > i
      <3>1. j - 1 \in 1 .. Len(v) /\ ~(j - 1 < i) /\ (j - 1) + 1 = j
        BY <2>1, <2>3
      <3>2. v[j - 1] = w[j]
        BY <3>1 DEF Without
      <3> QED
        BY <1>3, <3>1, <3>2
    <2>4. CASE j = i
      BY <2>4
    <2> QED
      BY <2>1, <2>2, <2>3, <2>4
  <1> QED
    BY <1>2, <1>3 DEF StreamOK

-----------------------------------------------------------------------------
\* The close of a connection.

\* Behind a close in the queue q there is no unit, and none comes: done, w is
\* no longer read; gone, the other end is closed.
CloseOK(q, w, done, gone) ==
    /\ \A i \in 1 .. Len(q) : q[i] = CloseFrame =>
          /\ \A j \in i + 1 .. Len(q) : q[j].kind # "unit"
          /\ done \/ (gone /\ \A j \in 1 .. Len(w) : ~Alive(w, j))
    /\ ~done => \A i \in 1 .. Len(w) : w[i] = CloseFrame =>
          gone /\ \A j \in i + 1 .. Len(w) : ~Alive(w, j)

\* A quiet change of the queue keeps a close the end of it.
LEMMA CloseQuiet ==
    ASSUME NEW q, NEW w \in Seq(Frames), NEW done, NEW gone, NEW done2, NEW gone2,
           done => done2, gone => gone2, CloseOK(q, w, done, gone), NEW v,
           Lets(w, v, gone2)
    PROVE  CloseOK(q, v, done2, gone2)
  <1>1. /\ \A j \in 1 .. Len(v) : Alive(v, j) => j \in 1 .. Len(w) /\ Alive(w, j)
        /\ \A i \in 1 .. Len(v) : v[i] = CloseFrame =>
              (i \in 1 .. Len(w) /\ w[i] = CloseFrame) \/ (i = Len(v) /\ gone2)
        /\ Len(v) \in Nat
    <2>1. CASE v = w
      BY <2>1
    <2>2. CASE \E f \in Frames : f.kind # "unit" /\ (f = CloseFrame => gone2) /\ v = Append(w, f)
      <3>1. PICK f \in Frames : f.kind # "unit" /\ (f = CloseFrame => gone2) /\ v = Append(w, f)
        BY <2>2
      <3>2. Len(v) = Len(w) + 1 /\ v[Len(v)] = f /\ \A j \in 1 .. Len(w) : v[j] = w[j]
        BY <3>1, AppendProperties
      <3>3. \A j \in 1 .. Len(v) : j = Len(v) \/ j \in 1 .. Len(w)
        BY <3>2
      <3>4. \A j \in 1 .. Len(w) : Alive(v, j) => Alive(w, j)
        BY <3>2 DEF Alive
      <3> QED
        BY <3>1, <3>2, <3>3, <3>4 DEF Alive
    <2>3. CASE \E m \in 0 .. Len(w) : v = Append(SubSeq(w, 1, m), Eof)
      <3>1. PICK m \in 0 .. Len(w) : v = Append(SubSeq(w, 1, m), Eof)
        BY <2>3
      <3>2. Len(v) = m + 1 /\ v[m + 1] = Eof /\ \A j \in 1 .. m : v[j] = w[j]
        BY <3>1
      <3>3. \A j \in 1 .. Len(v) : j = m + 1 \/ (j \in 1 .. m /\ j \in 1 .. Len(w))
        BY <3>2
      <3>4. \A j \in 1 .. m : Alive(v, j) => Alive(w, j)
        BY <3>2 DEF Alive
      <3>5. Eof.kind # "unit" /\ Eof # CloseFrame
        BY DEF Eof, CloseFrame
      <3> QED
        BY <3>2, <3>3, <3>4, <3>5 DEF Alive
    <2> QED
      BY <2>1, <2>2, <2>3 DEF Lets
  <1>2. ASSUME NEW i \in 1 .. Len(q), q[i] = CloseFrame
        PROVE  /\ \A j \in i + 1 .. Len(q) : q[j].kind # "unit"
               /\ done2 \/ (gone2 /\ \A j \in 1 .. Len(v) : ~Alive(v, j))
    BY <1>1, <1>2 DEF CloseOK
  <1>3. ASSUME ~done2, NEW i \in 1 .. Len(v), v[i] = CloseFrame
        PROVE  gone2 /\ \A j \in i + 1 .. Len(v) : ~Alive(v, j)
    <2>1. CASE i \in 1 .. Len(w) /\ w[i] = CloseFrame
      <3>1. gone /\ \A j \in i + 1 .. Len(w) : ~Alive(w, j)
        BY <1>3, <2>1 DEF CloseOK
      <3>2. ASSUME NEW j \in i + 1 .. Len(v), Alive(v, j) PROVE FALSE
        <4>1. j \in 1 .. Len(v)
          BY <1>1
        <4>2. j \in 1 .. Len(w) /\ Alive(w, j)
          BY <1>1, <3>2, <4>1
        <4>3. j \in i + 1 .. Len(w)
          BY <2>1, <4>2
        <4> QED
          BY <3>1, <4>2, <4>3
      <3> QED
        BY <3>1, <3>2
    <2>2. CASE i = Len(v) /\ gone2
      <3>1. i + 1 .. Len(v) = {}
        BY <1>1, <2>2
      <3> QED
        BY <2>2, <3>1
    <2> QED
      BY <1>1, <1>3, <2>1, <2>2
  <1> QED
    BY <1>2, <1>3 DEF CloseOK

\* A unit is only put behind a close by an end that is not gone.
LEMMA CloseSent ==
    ASSUME NEW q, NEW w \in Seq(Frames), NEW done, NEW gone, ~gone, CloseOK(q, w, done, gone),
           NEW n, NEW v, v = Append(w, Unit(n)), Unit(n) \in Frames
    PROVE  CloseOK(q, v, done, gone)
  <1>1. ~done => \A i \in 1 .. Len(w) : w[i] # CloseFrame
    BY DEF CloseOK
  <1>2. Len(v) = Len(w) + 1 /\ v[Len(w) + 1] = Unit(n) /\ \A j \in 1 .. Len(w) : v[j] = w[j]
    BY AppendProperties
  <1>3. Unit(n) # CloseFrame
    BY DEF Unit, CloseFrame
  <1>4. ~done => \A i \in 1 .. Len(v) : v[i] # CloseFrame
    BY <1>1, <1>2, <1>3
  <1> QED
    BY <1>4 DEF CloseOK

\* The reader hands over the first frame, and an end of file as a close.
LEMMA CloseRead ==
    ASSUME NEW q \in Seq(Frames), NEW w \in Seq(Frames), w # <<>>, NEW gone, NEW done, ~done,
           CloseOK(q, w, done, gone), NEW f \in Frames, f = IF Head(w) = Eof THEN CloseFrame ELSE Head(w)
    PROVE  CloseOK(Append(q, f), Tail(w), Head(w) = Eof, gone)
  <1> DEFINE r == Append(q, f)
             v == Tail(w)
             l == Len(q)
             m == Len(w)
  <1>1. l \in Nat /\ Len(r) = l + 1 /\ r[l + 1] = f /\ \A j \in 1 .. l : r[j] = q[j]
    BY AppendProperties
  <1>2. m \in Nat \ {0} /\ Len(v) = m - 1 /\ w[1] = Head(w) /\ w[1] \in Frames
        /\ \A j \in 1 .. m - 1 : v[j] = w[j + 1]
    OBVIOUS
  <1> HIDE DEF r, v
  <1>3. ASSUME w[1] # Eof, NEW j \in 1 .. m - 1, Alive(v, j) PROVE j + 1 \in 2 .. m /\ Alive(w, j + 1)
    <2>1. j + 1 \in 2 .. m /\ v[j] = w[j + 1]
      BY <1>2
    <2>2. ASSUME NEW k \in 1 .. (j + 1) - 1, w[k] = Eof PROVE FALSE
      <3>1. k # 1
        BY <1>3, <2>2
      <3>2. k - 1 \in 1 .. j - 1 /\ k - 1 \in 1 .. m - 1 /\ (k - 1) + 1 = k
        BY <1>2, <3>1
      <3>3. v[k - 1] = Eof
        BY <1>2, <2>2, <3>2
      <3> QED
        BY <1>3, <3>2, <3>3 DEF Alive
    <2> QED
      BY <1>3, <2>1, <2>2 DEF Alive
  <1>4. \A i \in 1 .. m : w[i] = CloseFrame => gone /\ \A j \in i + 1 .. m : ~Alive(w, j)
    BY DEF CloseOK
  <1>5. ASSUME w[1] # Eof, NEW i \in 1 .. m - 1, v[i] = CloseFrame
        PROVE  gone /\ \A j \in i + 1 .. m - 1 : ~Alive(v, j)
    <2>1. i + 1 \in 1 .. m /\ w[i + 1] = CloseFrame
      BY <1>2, <1>5
    <2>2. gone /\ \A j \in (i + 1) + 1 .. m : ~Alive(w, j)
      BY <1>4, <2>1
    <2>3. ASSUME NEW j \in i + 1 .. m - 1, Alive(v, j) PROVE FALSE
      <3>1. j \in 1 .. m - 1 /\ j + 1 \in (i + 1) + 1 .. m
        BY <1>2
      <3>2. Alive(w, j + 1)
        BY <1>3, <1>5, <2>3, <3>1
      <3> QED
        BY <2>2, <3>1, <3>2
    <2> QED
      BY <2>2, <2>3
  <1>6. ASSUME NEW i \in 1 .. l, q[i] = CloseFrame
        PROVE  /\ \A j \in i + 1 .. l : q[j].kind # "unit"
               /\ gone /\ \A j \in 1 .. m : ~Alive(w, j)
    BY <1>6 DEF CloseOK
  <1>7. ASSUME NEW i \in 1 .. l + 1, r[i] = CloseFrame
        PROVE  /\ \A j \in i + 1 .. l + 1 : r[j].kind # "unit"
               /\ (w[1] = Eof) \/ (gone /\ \A j \in 1 .. m - 1 : ~Alive(v, j))
    <2>1. CASE i = l + 1
      <3>1. i + 1 .. l + 1 = {}
        BY <1>1, <2>1
      <3>2. w[1] # Eof => w[1] = CloseFrame
        BY <1>1, <1>2, <1>7, <2>1
      <3>3. w[1] # Eof => gone /\ \A j \in 2 .. m : ~Alive(w, j)
        <4>1. 1 \in 1 .. m /\ 1 + 1 = 2
          BY <1>2
        <4> QED
          BY <1>4, <3>2, <4>1
      <3> QED
        BY <1>3, <3>1, <3>3
    <2>2. CASE i \in 1 .. l
      <3>1. q[i] = CloseFrame
        BY <1>1, <1>7, <2>2
      <3>2. /\ \A j \in i + 1 .. l : q[j].kind # "unit"
            /\ gone /\ \A j \in 1 .. m : ~Alive(w, j)
        BY <1>6, <2>2, <3>1
      <3>3. \A j \in i + 1 .. l : r[j].kind # "unit"
        BY <1>1, <2>2, <3>2
      <3>4. f.kind # "unit"
        <4>1. ~Alive(w, 1)
          BY <1>2, <3>2
        <4>2. w[1].kind # "unit"
          BY <4>1 DEF Alive
        <4> QED
          BY <1>2, <4>2 DEF CloseFrame
      <3>5. \A j \in i + 1 .. l + 1 : j \in i + 1 .. l \/ j = l + 1
        BY <1>1
      <3>6. w[1] # Eof => \A j \in 1 .. m - 1 : ~Alive(v, j)
        <4>1. \A j \in 1 .. m - 1 : j + 1 \in 1 .. m
          BY <1>2
        <4> QED
          BY <1>3, <3>2, <4>1
      <3> QED
        BY <1>1, <3>2, <3>3, <3>4, <3>5, <3>6
    <2> QED
      BY <1>1, <2>1, <2>2
  <1>8. CloseOK(r, v, w[1] = Eof, gone)
    BY <1>1, <1>2, <1>5, <1>7 DEF CloseOK
  <1> QED
    BY <1>2, <1>8 DEF r, v

-----------------------------------------------------------------------------
\* State events and what the owner was told.

\* No state event waits; the i-th frame is the last that does.
Quiet(q) == \A i \in 1 .. Len(q) : q[i].kind # "state"
LastState(q, i) == q[i].kind = "state" /\ \A j \in i + 1 .. Len(q) : q[j].kind # "state"

\* The owner was told st, or will be last by the queue q.
ToldOK(q, st, td) ==
    /\ Quiet(q) => td = st
    /\ \A i \in 1 .. Len(q) : LastState(q, i) => q[i].s = st

\* With an empty queue the owner was told the state.
LEMMA ToldEmpty ==
    ASSUME NEW st
    PROVE  Quiet(<<>>) /\ ToldOK(<<>>, st, st)
  <1>1. Len(<<>>) = 0
    OBVIOUS
  <1> QED
    BY <1>1 DEF Quiet, ToldOK

\* A state event is the last word on the state.
LEMMA ToldEvent ==
    ASSUME NEW q \in Seq(Frames), NEW s \in ConnectionState, NEW td
    PROVE  ~Quiet(Append(q, StateEvent(s))) /\ ToldOK(Append(q, StateEvent(s)), s, td)
  <1> DEFINE r == Append(q, StateEvent(s))
             l == Len(q)
  <1>1. l \in Nat /\ Len(r) = l + 1 /\ r[l + 1] = StateEvent(s)
    BY DEF StateEvent, Frames
  <1> HIDE DEF r
  <1>2. l + 1 \in 1 .. Len(r) /\ r[l + 1].kind = "state" /\ r[l + 1].s = s
    BY <1>1 DEF StateEvent
  <1>3. ~Quiet(r)
    BY <1>2 DEF Quiet
  <1>4. ASSUME NEW i \in 1 .. Len(r), LastState(r, i) PROVE i = l + 1
    <2>1. l + 1 \notin i + 1 .. Len(r)
      BY <1>2, <1>4 DEF LastState
    <2> QED
      BY <1>1, <2>1
  <1> QED
    BY <1>2, <1>3, <1>4 DEF ToldOK, r

\* A frame that is no state event changes nothing of what is told.
LEMMA ToldUnit ==
    ASSUME NEW q \in Seq(Frames), NEW f \in Frames, f.kind # "state", NEW st, NEW td
    PROVE  /\ Quiet(q) => Quiet(Append(q, f))
           /\ ToldOK(q, st, td) => ToldOK(Append(q, f), st, td)
  <1> DEFINE r == Append(q, f)
             l == Len(q)
  <1>1. l \in Nat /\ Len(r) = l + 1 /\ r[l + 1] = f /\ \A j \in 1 .. l : r[j] = q[j]
    BY AppendProperties
  <1> HIDE DEF r
  <1>2. \A i \in 1 .. Len(r) : i \in 1 .. l \/ i = l + 1
    BY <1>1
  <1>3. Quiet(q) <=> Quiet(r)
    <2>1. \A i \in 1 .. l : i \in 1 .. Len(r)
      BY <1>1
    <2> QED
      BY <1>1, <1>2, <2>1 DEF Quiet
  <1>4. ASSUME NEW i \in 1 .. Len(r), LastState(r, i) PROVE i \in 1 .. l /\ LastState(q, i)
    <2>1. i \in 1 .. l
      BY <1>1, <1>2, <1>4 DEF LastState
    <2>2. \A j \in i + 1 .. l : j \in i + 1 .. Len(r) /\ r[j] = q[j]
      BY <1>1, <2>1
    <2> QED
      BY <1>1, <1>4, <2>1, <2>2 DEF LastState
  <1> QED
    BY <1>1, <1>3, <1>4 DEF ToldOK, r

\* The newest event is the last.
LEMMA ToldNewest ==
    ASSUME NEW q \in Seq(Frames), NEW st, NEW td, ToldOK(q, st, td)
    PROVE  LET states == {i \in 1 .. Len(q) : q[i].kind = "state"}
               newest == CHOOSE i \in states : \A j \in states : j <= i
           IN  /\ states = {} => Quiet(q) /\ td = st
               /\ states # {} => newest \in 1 .. Len(q) /\ q[newest].kind = "state" /\ q[newest].s = st
  <1> DEFINE states == {i \in 1 .. Len(q) : q[i].kind = "state"}
             newest == CHOOSE i \in states : \A j \in states : j <= i
  <1>1. states = {} => Quiet(q) /\ td = st
    BY DEF Quiet, ToldOK
  <1>2. ASSUME states # {}
        PROVE  newest \in 1 .. Len(q) /\ q[newest].kind = "state" /\ q[newest].s = st
    <2>1. Len(q) \in Nat /\ states \subseteq 1 .. Len(q)
      OBVIOUS
    <2>2. \E x \in states : \A y \in states : y <= x
      BY <1>2, <2>1, GreatestOf
    <2>3. newest \in states /\ \A j \in states : j <= newest
      BY <2>2
    <2> HIDE DEF newest
    <2>4. newest \in 1 .. Len(q) /\ q[newest].kind = "state"
      BY <2>3
    <2>5. \A j \in newest + 1 .. Len(q) : q[j].kind # "state"
      <3> SUFFICES ASSUME NEW j \in newest + 1 .. Len(q), q[j].kind = "state" PROVE FALSE
        OBVIOUS
      <3>1. j \in 1 .. Len(q) /\ ~(j <= newest)
        BY <2>1, <2>4
      <3> QED
        BY <2>3, <3>1
    <2> QED
      BY <2>4, <2>5 DEF ToldOK, LastState
  <1> QED
    BY <1>1, <1>2

-----------------------------------------------------------------------------
\* Types.

\* RemoveAt takes one entry out.
LEMMA RemoveAtIs ==
    ASSUME NEW w \in Seq(Frames), NEW i \in 1 .. Len(w)
    PROVE  RemoveAt(w, i) \in Seq(Frames) /\ Without(w, i, RemoveAt(w, i))
  <1> DEFINE a == SubSeq(w, 1, i - 1)
             b == SubSeq(w, i + 1, Len(w))
             v == a \o b
  <1>0. Len(w) \in Nat /\ i \in Nat
    OBVIOUS
  <1>1. a \in Seq(Frames) /\ Len(a) = i - 1 /\ \A k \in 1 .. i - 1 : a[k] = w[k]
    BY <1>0
  <1>2. b \in Seq(Frames) /\ Len(b) = Len(w) - i /\ \A k \in 1 .. Len(w) - i : b[k] = w[i + k]
    BY <1>0
  <1> HIDE DEF a, b
  <1>3. v \in Seq(Frames) /\ Len(v) = Len(w) - 1
    <2>1. v \in Seq(Frames) /\ Len(v) = Len(a) + Len(b)
      BY <1>1, <1>2, ConcatProperties
    <2> HIDE DEF v
    <2> QED
      BY <1>0, <1>1, <1>2, <2>1
  <1>4. ASSUME NEW k \in 1 .. Len(v) PROVE v[k] = IF k < i THEN w[k] ELSE w[k + 1]
    <2>1. CASE k < i
      <3>1. k \in 1 .. Len(a)
        BY <1>0, <1>1, <2>1
      <3>2. v[k] = a[k]
        BY <1>1, <1>2, <3>1
      <3> QED
        BY <1>1, <2>1, <3>1, <3>2
    <2>2. CASE ~(k < i)
      <3>1. k \in 1 .. Len(a) + Len(b) /\ ~(k <= Len(a)) /\ k - Len(a) \in 1 .. Len(w) - i
            /\ i + (k - Len(a)) = k + 1
        BY <1>0, <1>1, <1>2, <1>3, <2>2
      <3>2. v[k] = b[k - Len(a)]
        BY <1>1, <1>2, <3>1
      <3> QED
        BY <1>2, <2>2, <3>1, <3>2
    <2> QED
      BY <2>1, <2>2
  <1>5. RemoveAt(w, i) = v
    BY DEF RemoveAt, a, b
  <1> HIDE DEF v
  <1> QED
    BY <1>0, <1>3, <1>4, <1>5 DEF Without

\* The peers are two, each the other's other, and the frames are told apart.
LEMMA PeerFacts ==
    /\ "offerer" \in Peers /\ "answerer" \in Peers
    /\ \A p \in Peers : Other(p) \in Peers /\ Other(p) # p /\ Other(Other(p)) = p
    /\ Hello \in Frames /\ CloseFrame \in Frames /\ Eof \in Frames
    /\ Hello.kind = "hello" /\ CloseFrame.kind = "close" /\ Eof.kind = "eof"
    /\ \A s \in ConnectionState : StateEvent(s) \in Frames
    /\ \A n \in 1 .. MaxSend : Unit(n) \in Frames
  BY DEF Peers, Other, Hello, CloseFrame, Eof, StateEvent, Unit, Frames

\* What a call does to the connection under it: nothing, or it attaches.
LEMMA EstablishDoes ==
    ASSUME NEW p \in Peers, NEW ldesc, NEW rdesc, TryEstablish(p, ldesc, rdesc)
    PROVE  /\ inbox' = inbox
           /\ \/ UNCHANGED <<accept, stream, reader, wire>>
              \/ /\ stream[p] = "none" /\ ldesc[p] # "none" /\ rdesc[p] # "none"
                 /\ accept' \in {"done", "dialled"} /\ AttachStream(p)
  BY DEF TryEstablish, FinishAccept, DialRemote, io, Peers

\* Attaching a stream keeps the types.
LEMMA AttachType ==
    ASSUME TypeOK, NEW p \in Peers, AttachStream(p)
    PROVE  /\ stream' \in [Peers -> {"none", "connecting", "open", "shut"}]
           /\ reader' \in [Peers -> {"none", "run", "done"}]
           /\ wire' \in [Peers -> Seq(Frames)]
  <1>1. Hello \in Frames /\ wire[Other(p)] \in Seq(Frames)
    BY PeerFacts DEF TypeOK
  <1>2. Append(wire[Other(p)], Hello) \in Seq(Frames)
    BY <1>1
  <1> QED
    BY <1>2 DEF TypeOK, AttachStream

IoType ==
    /\ accept \in {"none", "waiting", "dialled", "got", "failed", "done"}
    /\ stream \in [Peers -> {"none", "connecting", "open", "shut"}]
    /\ reader \in [Peers -> {"none", "run", "done"}]
    /\ wire \in [Peers -> Seq(Frames)] /\ inbox \in [Peers -> Seq(Frames)]

\* Listening, or dialling, keeps the types.
LEMMA EstablishType ==
    ASSUME TypeOK, NEW p \in Peers, NEW ldesc, NEW rdesc, TryEstablish(p, ldesc, rdesc)
    PROVE  IoType'
  BY EstablishDoes, AttachType DEF TypeOK, IoType

\* What negotiation begins with is a state.
LEMMA BegunType ==
    ASSUME TypeOK, NEW p \in Peers
    PROVE  Begun(p) \in ConnectionState
  BY DEF TypeOK, Begun, ConnectionState

\* Emitting a state keeps the types.
LEMMA EmitType ==
    ASSUME TypeOK, NEW p \in Peers, NEW s \in ConnectionState, EmitState(p, s)
    PROVE  state' \in [Peers -> ConnectionState] /\ told' \in [Peers -> ConnectionState]
  BY DEF TypeOK, EmitState

FpType == remote_fp \in [Peers -> {"none", "own", "stale"}]

\* Trying to connect keeps the types.
LEMMA ConnectType ==
    ASSUME TypeOK, NEW p \in Peers, NEW ldesc, NEW rdesc, rdesc[p] \in {"none", "own", "stale"},
           NEW s \in ConnectionState, TryConnect(p, ldesc, rdesc, s)
    PROVE  /\ state' \in [Peers -> ConnectionState] /\ told' \in [Peers -> ConnectionState]
           /\ FpType' /\ IoType'
  <1>1. IoType'
    BY DEF TryConnect, io, IoType, TypeOK
  <1>2. FpType'
    BY DEF TryConnect, FpType, TypeOK
  <1>3. "connected" \in ConnectionState
    BY DEF ConnectionState
  <1>4. state' \in [Peers -> ConnectionState] /\ told' \in [Peers -> ConnectionState]
    BY <1>3, EmitType DEF TryConnect
  <1> QED
    BY <1>1, <1>2, <1>4

\* The steps in which a peer's descriptions change, and the connection with them.
LEMMA DescribeType ==
    ASSUME TypeOK,
           \/ CreateOffer \/ CreateAnswer
           \/ \E p \in Peers : \/ SetLocalDescription(p) \/ AddIceCandidate(p)
                               \/ \E fp \in Prints : SetRemoteDescription(p, fp)
    PROVE  TypeOK'
  <1>1. CASE CreateOffer
    <2>1. /\ sdp' = [sdp EXCEPT !["offerer"] = TRUE]
          /\ UNCHANGED <<mode, local_desc, remote_desc, conn, reader, wire, inbox, counts>>
      BY <1>1 DEF CreateOffer
    <2>2. mode \in {"mock", "live", "webrtc"}
      BY PeerTransportAssumption DEF TypeOK
    <2>3. /\ stream' = stream \/ stream' = [stream EXCEPT !["offerer"] = "connecting"]
          /\ accept' = accept \/ accept' = "waiting"
      BY <1>1, <2>2 DEF CreateOffer, OfferLive, OfferWebrtc
    <2> QED
      BY <2>1, <2>3 DEF TypeOK, conn, counts
  <1>2. CASE CreateAnswer
    BY <1>2 DEF TypeOK, CreateAnswer, conn, io, counts, Peers
  <1>3. ASSUME NEW p \in Peers, SetLocalDescription(p) PROVE TypeOK'
    <2>1. /\ UNCHANGED <<mode, sdp, remote_desc, closed, expected_fp, flaps, restarted, sent, got>>
          /\ local_desc' \in [Peers -> {"none", "own"}]
      BY <1>3 DEF SetLocalDescription, counts, TypeOK
    <2>2. /\ state' \in [Peers -> ConnectionState] /\ told' \in [Peers -> ConnectionState]
          /\ FpType' /\ IoType'
      <3>1. CASE mode = "mock"
        <4>1. TryConnect(p, local_desc', remote_desc, Begun(p))
          BY <1>3, <3>1 DEF SetLocalDescription, LocalMock
        <4>2. remote_desc[p] \in {"none", "own", "stale"}
          BY DEF TypeOK
        <4> QED
          BY <4>1, <4>2, BegunType, ConnectType
      <3>2. CASE mode = "live"
        <4>1. EmitState(p, Begun(p)) /\ TryEstablish(p, local_desc', remote_desc) /\ UNCHANGED remote_fp
          BY <1>3, <3>2 DEF SetLocalDescription, LocalLive
        <4> QED
          BY <4>1, BegunType, EmitType, EstablishType DEF FpType, TypeOK
      <3>3. CASE mode = "webrtc"
        <4>1. (EmitState(p, "connecting") \/ UNCHANGED <<state, told>>) /\ UNCHANGED <<remote_fp, io>>
          BY <1>3, <3>3 DEF SetLocalDescription, LocalWebrtc
        <4>2. "connecting" \in ConnectionState
          BY DEF ConnectionState
        <4>3. IoType' /\ FpType'
          BY <4>1 DEF io, IoType, FpType, TypeOK
        <4> QED
          BY <4>1, <4>2, <4>3, EmitType DEF TypeOK
      <3> QED
        BY <1>3, <3>1, <3>2, <3>3, PeerTransportAssumption DEF TypeOK
    <2> QED
      BY <2>1, <2>2 DEF TypeOK, IoType, FpType
  <1>4. ASSUME NEW p \in Peers, NEW fp \in Prints, SetRemoteDescription(p, fp) PROVE TypeOK'
    <2>1. UNCHANGED <<mode, sdp, local_desc, closed, flaps, restarted, sent, got>>
      BY <1>4 DEF SetRemoteDescription, counts
    <2>2. fp \in {"none", "own", "stale"}
      BY PeerTransportAssumption
    <2>3. remote_desc' \in [Peers -> {"none", "own", "stale"}]
      BY <1>4, <2>2 DEF SetRemoteDescription, TypeOK
    <2>4. /\ state' \in [Peers -> ConnectionState] /\ told' \in [Peers -> ConnectionState]
          /\ FpType' /\ IoType' /\ expected_fp' \in [Peers -> {"none", "own", "stale"}]
      <3>1. CASE mode = "mock"
        <4>1. TryConnect(p, local_desc, remote_desc', Begun(p)) /\ UNCHANGED expected_fp
          BY <1>4, <3>1 DEF SetRemoteDescription, RemoteMock
        <4>2. remote_desc'[p] \in {"none", "own", "stale"}
          BY <2>3
        <4>3. expected_fp' \in [Peers -> {"none", "own", "stale"}]
          BY <4>1 DEF TypeOK
        <4> QED
          BY <4>1, <4>2, <4>3, BegunType, ConnectType
      <3>2. CASE mode = "live"
        <4>1. /\ EmitState(p, Begun(p)) /\ TryEstablish(p, local_desc, remote_desc')
              /\ UNCHANGED remote_fp /\ expected_fp' = [expected_fp EXCEPT ![p] = fp]
          BY <1>4, <3>2 DEF SetRemoteDescription, RemoteLive
        <4> QED
          BY <2>2, <4>1, BegunType, EmitType, EstablishType DEF FpType, TypeOK
      <3>3. CASE mode = "webrtc"
        <4>1. /\ (EmitState(p, "connecting") \/ UNCHANGED <<state, told>>)
              /\ UNCHANGED <<expected_fp, io>>
              /\ remote_fp' = [remote_fp EXCEPT ![p] = IF @ = "none" THEN fp ELSE @]
          BY <1>4, <3>3 DEF SetRemoteDescription, RemoteWebrtc
        <4>2. "connecting" \in ConnectionState
          BY DEF ConnectionState
        <4>3. IoType' /\ FpType'
          BY <2>2, <4>1 DEF io, IoType, FpType, TypeOK
        <4> QED
          BY <4>1, <4>2, <4>3, EmitType DEF TypeOK
      <3> QED
        BY <1>4, <3>1, <3>2, <3>3, PeerTransportAssumption DEF TypeOK
    <2> QED
      BY <2>1, <2>3, <2>4 DEF TypeOK, IoType, FpType
  <1>5. ASSUME NEW p \in Peers, AddIceCandidate(p) PROVE TypeOK'
    <2>1. UNCHANGED <<mode, sdp, local_desc, remote_desc, closed, expected_fp, flaps, restarted, sent, got>>
      BY <1>5 DEF AddIceCandidate, descs, counts
    <2>2. /\ state' \in [Peers -> ConnectionState] /\ told' \in [Peers -> ConnectionState]
          /\ FpType' /\ IoType'
      <3>1. CASE IceMock(p)
        <4>1. remote_desc[p] \in {"none", "own", "stale"} /\ state[p] \in ConnectionState
          BY DEF TypeOK
        <4> QED
          BY <3>1, <4>1, ConnectType DEF IceMock
      <3>2. CASE IceLive(p)
        BY <3>2, EstablishType DEF IceLive, FpType, TypeOK
      <3> QED
        BY <1>5, <3>1, <3>2 DEF AddIceCandidate
    <2> QED
      BY <2>1, <2>2 DEF TypeOK, IoType, FpType
  <1> QED
    BY <1>1, <1>2, <1>3, <1>4, <1>5

\* The steps of the network keep the types.
LEMMA NetworkType ==
    ASSUME TypeOK, AcceptConnection \/ AcceptTimeout \/ ConnectionReset
    PROVE  TypeOK'
  <1>1. CASE AcceptConnection
    BY <1>1 DEF TypeOK, AcceptConnection, descs, conn, counts
  <1>2. CASE AcceptTimeout
    <2>1. wire' \in [Peers -> Seq(Frames)]
      <3>1. wire["answerer"] \in Seq(Frames) /\ Append(wire["answerer"], Eof) \in Seq(Frames)
        BY PeerFacts DEF TypeOK
      <3> QED
        BY <1>2, <3>1 DEF AcceptTimeout, TypeOK
    <2> QED
      BY <1>2, <2>1 DEF TypeOK, AcceptTimeout, descs, conn, counts
  <1>3. CASE ConnectionReset
    <2>1. wire' \in [Peers -> Seq(Frames)]
      <3>1. PICK cut \in [Peers -> 0 .. 2] :
              /\ \A p \in Peers : cut[p] <= Len(wire[p])
              /\ wire' = [p \in Peers |->
                     IF reader[p] = "run" \/ accept \in {"dialled", "got"}
                     THEN Append(SubSeq(wire[p], 1, Len(wire[p]) - cut[p]), Eof)
                     ELSE wire[p]]
        BY <1>3 DEF ConnectionReset
      <3>2. ASSUME NEW p \in Peers
            PROVE  Append(SubSeq(wire[p], 1, Len(wire[p]) - cut[p]), Eof) \in Seq(Frames)
        <4>1. wire[p] \in Seq(Frames) /\ Eof \in Frames
          BY PeerFacts DEF TypeOK
        <4>2. Len(wire[p]) - cut[p] \in 0 .. Len(wire[p])
          BY <3>1, <4>1
        <4> QED
          BY <4>1, <4>2
      <3> QED
        BY <3>1, <3>2 DEF TypeOK
    <2> QED
      BY <1>3, <2>1 DEF TypeOK, ConnectionReset, descs, conn, counts
  <1> QED
    BY <1>1, <1>2, <1>3

\* The reader keeps the types.
LEMMA ReaderType ==
    ASSUME TypeOK, NEW p \in Peers, Reader(p)
    PROVE  TypeOK'
  <1>1. wire[p] \in Seq(Frames) /\ wire[p] # <<>> /\ inbox[p] \in Seq(Frames)
    BY DEF Reader, TypeOK
  <1>2. Tail(wire[p]) \in Seq(Frames) /\ Head(wire[p]) \in Frames /\ CloseFrame \in Frames
    BY <1>1, PeerFacts
  <1>3. Append(inbox[p], IF Head(wire[p]) = Eof THEN CloseFrame ELSE Head(wire[p])) \in Seq(Frames)
    BY <1>1, <1>2
  <1>4. wire' \in [Peers -> Seq(Frames)] /\ inbox' \in [Peers -> Seq(Frames)]
    BY <1>2, <1>3 DEF Reader, TypeOK
  <1>5. reader' \in [Peers -> {"none", "run", "done"}]
    BY DEF Reader, TypeOK
  <1> QED
    BY <1>4, <1>5 DEF TypeOK, Reader, descs, conn, counts

\* What the runtime may report.
Reports == {"connecting", "connected", "disconnected", "failed", "closed"}

LEMMA SomeReport ==
    ASSUME NEW p \in Peers, PcConnected(p) \/ PcDisconnected(p) \/ PcFailed(p) \/ PcLate(p)
    PROVE  \E s \in Reports : PcState(p, s)
  <1>1. CASE PcConnected(p)
    BY <1>1 DEF PcConnected, Reports
  <1>2. CASE PcDisconnected(p)
    BY <1>2 DEF PcDisconnected, Reports
  <1>3. CASE PcFailed(p)
    BY <1>3 DEF PcFailed, Reports
  <1>4. CASE PcLate(p)
    BY <1>4 DEF PcLate, Reports
  <1> QED
    BY <1>1, <1>2, <1>3, <1>4

\* The steps of the runtime.
LEMMA RuntimeType ==
    ASSUME TypeOK, NEW p \in Peers,
           \/ RestartIce(p)
           \/ PcConnected(p) \/ PcDisconnected(p) \/ PcFailed(p) \/ PcLate(p)
           \/ ChannelOpen(p)
           \/ \E i \in 1 .. Len(wire[p]) : OnMessage(p, i)
    PROVE  TypeOK'
  <1>1. CASE RestartIce(p)
    <2>1. "connecting" \in ConnectionState
      BY DEF ConnectionState
    <2>2. state' \in [Peers -> ConnectionState] /\ told' \in [Peers -> ConnectionState]
      BY <1>1, <2>1, EmitType DEF RestartIce
    <2> QED
      BY <1>1, <2>2 DEF TypeOK, RestartIce, descs, io
  <1>2. ASSUME NEW s \in ConnectionState, PcState(p, s), flaps' \in 0 .. MaxFlap PROVE TypeOK'
    <2>1. inbox[p] \in Seq(Frames) /\ StateEvent(s) \in Frames
      BY PeerFacts DEF TypeOK
    <2>2. Append(inbox[p], StateEvent(s)) \in Seq(Frames)
      BY <2>1
    <2>3. inbox' \in [Peers -> Seq(Frames)] /\ state' \in [Peers -> ConnectionState]
      BY <1>2, <2>2 DEF PcState, TypeOK
    <2> QED
      BY <1>2, <2>3 DEF TypeOK, PcState, descs
  <1>3. "connected" \in ConnectionState /\ "disconnected" \in ConnectionState /\ "failed" \in ConnectionState
    BY DEF ConnectionState
  <1>4. CASE PcConnected(p)
    BY <1>2, <1>3, <1>4 DEF PcConnected, TypeOK
  <1>5. CASE PcDisconnected(p)
    <2>1. flaps' \in 0 .. MaxFlap
      BY <1>5, PeerTransportAssumption DEF PcDisconnected, TypeOK
    <2> QED
      BY <1>2, <1>3, <1>5, <2>1 DEF PcDisconnected
  <1>6. CASE PcFailed(p)
    BY <1>2, <1>3, <1>6 DEF PcFailed, TypeOK
  <1>7. CASE ChannelOpen(p)
    BY <1>7 DEF TypeOK, ChannelOpen, descs, conn, counts
  <1>8. ASSUME NEW i \in 1 .. Len(wire[p]), OnMessage(p, i) PROVE TypeOK'
    <2>1. wire[p] \in Seq(Frames) /\ inbox[p] \in Seq(Frames)
      BY DEF TypeOK
    <2>2. wire[p][i] \in Frames /\ RemoveAt(wire[p], i) \in Seq(Frames)
      BY <2>1, RemoveAtIs
    <2>3. Append(inbox[p], wire[p][i]) \in Seq(Frames)
      BY <2>1, <2>2
    <2>4. inbox' \in [Peers -> Seq(Frames)] /\ wire' \in [Peers -> Seq(Frames)]
      <3>1. wire' = [wire EXCEPT ![p] = RemoveAt(@, i)]
            /\ (inbox' = [inbox EXCEPT ![p] = Append(@, wire[p][i])] \/ inbox' = inbox)
        BY <1>8 DEF OnMessage
      <3>2. wire' \in [Peers -> Seq(Frames)]
        BY <2>2, <3>1 DEF TypeOK
      <3>3. inbox' \in [Peers -> Seq(Frames)]
        <4>1. CASE inbox' = inbox
          BY <4>1 DEF TypeOK
        <4>2. CASE inbox' = [inbox EXCEPT ![p] = Append(@, wire[p][i])]
          <5> DEFINE x == Append(inbox[p], wire[p][i])
          <5>1. x \in Seq(Frames) /\ inbox' = [inbox EXCEPT ![p] = x]
            BY <2>3, <4>2
          <5> HIDE DEF x
          <5> QED
            BY <5>1 DEF TypeOK
        <4> QED
          BY <3>1, <4>1, <4>2
      <3> QED
        BY <3>2, <3>3
    <2> QED
      BY <1>8, <2>4 DEF TypeOK, OnMessage, descs, conn, counts
  <1>9. CASE PcLate(p)
    <2>1. flaps' \in 0 .. MaxFlap
      BY <1>9 DEF PcLate, TypeOK
    <2>2. \E s \in Reports : PcState(p, s)
      BY <1>9, SomeReport
    <2> QED
      BY <1>2, <2>1, <2>2 DEF Reports, ConnectionState
  <1> QED
    BY <1>1, <1>4, <1>5, <1>6, <1>7, <1>8, <1>9

\* Sending keeps the types, and puts the next unit on the wire of an open end.
LEMMA SendType ==
    ASSUME TypeOK, NEW p \in Peers, NEW kind \in Kinds, Send(p, kind)
    PROVE  /\ TypeOK'
           /\ sent' = [sent EXCEPT ![p] = Append(@, kind)]
           /\ wire' = [wire EXCEPT ![Other(p)] =
                  IF closed[Other(p)] THEN @ ELSE Append(@, Unit(Len(sent[p]) + 1))]
           /\ Unit(Len(sent[p]) + 1) \in Frames
  <1>1. \A q \in Peers : sent[q] \in Seq(Kinds) /\ Len(sent[q]) \in Nat
    BY DEF TypeOK
  <1>2. sent' = [sent EXCEPT ![p] = Append(@, kind)] /\ sent' \in [Peers -> Seq(Kinds)]
    <2>1. Append(sent[p], kind) \in Seq(Kinds)
      BY <1>1
    <2> QED
      BY <2>1 DEF Send, TypeOK
  <1>3. Len(sent'[p]) = Len(sent[p]) + 1
    BY <1>1, <1>2 DEF TypeOK
  <1>4. Len(sent[p]) + 1 \in 1 .. MaxSend
    <2> DEFINE a == Len(sent["offerer"])
               b == Len(sent["answerer"])
    <2>1. a \in Nat /\ b \in Nat /\ MaxSend \in Nat
      BY <1>1, PeerFacts, PeerTransportAssumption
    <2>2. a + b < MaxSend
      BY DEF Send
    <2>3. Len(sent[p]) = a \/ Len(sent[p]) = b
      BY DEF Peers
    <2> HIDE DEF a, b
    <2>4. a + 1 \in 1 .. MaxSend /\ b + 1 \in 1 .. MaxSend
      BY <2>1, <2>2
    <2> QED
      BY <2>3, <2>4
  <1>5. Unit(Len(sent[p]) + 1) \in Frames
    BY <1>4, PeerFacts
  <1>6. wire' = [wire EXCEPT ![Other(p)] =
                  IF closed[Other(p)] THEN @ ELSE Append(@, Unit(Len(sent[p]) + 1))]
    <2>1. wire' = [wire EXCEPT ![Other(p)] =
                  IF closed[Other(p)] THEN @ ELSE Append(@, Unit(Len(sent'[p])))]
      BY DEF Send
    <2> QED
      BY <1>3, <2>1
  <1>7. wire' \in [Peers -> Seq(Frames)]
    <2>1. wire[Other(p)] \in Seq(Frames)
      BY PeerFacts DEF TypeOK
    <2>2. Append(wire[Other(p)], Unit(Len(sent[p]) + 1)) \in Seq(Frames)
      BY <1>5, <2>1
    <2> QED
      BY <1>6, <2>1, <2>2 DEF TypeOK
  <1>8. TypeOK'
    BY <1>2, <1>7 DEF TypeOK, Send, descs, conn
  <1> QED
    BY <1>2, <1>5, <1>6, <1>8

\* Where a live poll stops.
Stops(p, q) == {i \in 1 .. Len(q) : q[i] = CloseFrame \/ BadHello(p, q[i])}
StopAt(p, q) ==
    IF Stops(p, q) = {} THEN Len(q) ELSE CHOOSE i \in Stops(p, q) : \A j \in Stops(p, q) : i <= j

\* Poll's loop stops at the first frame that ends it, or at the last.
LEMMA StopIs ==
    ASSUME NEW p, NEW q \in Seq(Frames)
    PROVE  /\ StopAt(p, q) \in 0 .. Len(q)
           /\ Stops(p, q) # {} => StopAt(p, q) \in Stops(p, q)
           /\ \A i \in 1 .. Len(q) : i < StopAt(p, q) => i \notin Stops(p, q)
  <1>1. Len(q) \in Nat /\ Stops(p, q) \subseteq 1 .. Len(q)
    BY DEF Stops
  <1>2. CASE Stops(p, q) = {}
    BY <1>1, <1>2 DEF StopAt
  <1>3. CASE Stops(p, q) # {}
    <2>1. \E i \in Stops(p, q) : \A j \in Stops(p, q) : i <= j
      <3>1. Stops(p, q) \subseteq Nat
        BY <1>1
      <3> QED
        BY <1>3, <3>1, LeastOf
    <2> DEFINE n == CHOOSE i \in Stops(p, q) : \A j \in Stops(p, q) : i <= j
    <2>2. n \in Stops(p, q) /\ \A j \in Stops(p, q) : n <= j
      BY <2>1
    <2>3. StopAt(p, q) = n
      BY <1>3 DEF StopAt
    <2> HIDE DEF n
    <2>4. n \in 1 .. Len(q)
      BY <1>1, <2>2
    <2>5. \A i \in 1 .. Len(q) : i < n => i \notin Stops(p, q)
      BY <1>1, <2>2, <2>4
    <2> QED
      BY <1>1, <2>2, <2>3, <2>4, <2>5
  <1> QED
    BY <1>2, <1>3

\* What a live poll does.
LEMMA PollLiveDoes ==
    ASSUME NEW p \in Peers, PollLive(p)
    PROVE  LET q == inbox[p]
               n == StopAt(p, q)
               hello == \E i \in 1 .. n : q[i] = Hello /\ ~BadHello(p, q[i])
           IN  /\ mode = "live" /\ reader[p] # "none"
               /\ got' = [got EXCEPT ![p] = @ \o Units(SubSeq(q, 1, n))]
               /\ remote_fp' = IF hello THEN [remote_fp EXCEPT ![p] = "own"] ELSE remote_fp
               /\ inbox' = [inbox EXCEPT ![p] = <<>>]
               /\ UNCHANGED <<accept, stream, reader, wire>>
               /\ \E s : /\ EmitState(p, s)
                         /\ s = state[p] \/ s = "disconnected" \/ (s = "connected" /\ hello)
                         /\ state[p] \in {"closed", "disconnected"} => s = state[p]
  <1> DEFINE q == inbox[p]
             n == StopAt(p, q)
             hello == \E i \in 1 .. n : q[i] = Hello /\ ~BadHello(p, q[i])
             up == IF hello /\ state[p] \notin {"closed", "disconnected"} THEN "connected" ELSE state[p]
             gone == IF Stops(p, q) = {} THEN reader[p] = "done" ELSE q[n] = CloseFrame
             s == IF gone /\ up \in {"connected", "connecting"} THEN "disconnected" ELSE up
  <1>1. /\ mode = "live" /\ reader[p] # "none"
        /\ got' = [got EXCEPT ![p] = @ \o Units(SubSeq(q, 1, n))]
        /\ remote_fp' = IF hello THEN [remote_fp EXCEPT ![p] = "own"] ELSE remote_fp
        /\ EmitState(p, s)
        /\ inbox' = [inbox EXCEPT ![p] = <<>>]
        /\ UNCHANGED <<accept, stream, reader, wire>>
    BY DEF PollLive, StopAt, Stops
  <1> HIDE DEF hello, gone
  <1>2. /\ s = state[p] \/ s = "disconnected" \/ (s = "connected" /\ hello)
        /\ state[p] \in {"closed", "disconnected"} => s = state[p]
    OBVIOUS
  <1> HIDE DEF s
  <1> QED
    BY <1>1, <1>2, SMTT(30) DEF hello

\* Poll keeps the types.
LEMMA PollType ==
    ASSUME TypeOK, NEW p \in Peers, Poll(p)
    PROVE  TypeOK'
  <1>1. got[p] \in Seq(1 .. MaxSend) /\ wire[p] \in Seq(Frames) /\ inbox[p] \in Seq(Frames)
        /\ state[p] \in ConnectionState
    BY DEF TypeOK
  <1>2. ASSUME NEW q \in Seq(Frames), got' = [got EXCEPT ![p] = @ \o Units(q)]
        PROVE  got' \in [Peers -> Seq(1 .. MaxSend)]
    <2>1. Units(q) \in Seq(1 .. MaxSend)
      BY UnitsType
    <2>2. got[p] \o Units(q) \in Seq(1 .. MaxSend)
      BY <1>1, <2>1, ConcatProperties
    <2> QED
      BY <1>2, <2>2 DEF TypeOK
  <1>3. "disconnected" \in ConnectionState /\ "connected" \in ConnectionState
    BY DEF ConnectionState
  <1>4. UNCHANGED <<mode, sdp, local_desc, remote_desc, closed, expected_fp, flaps, restarted, sent>>
    BY DEF Poll, descs
  <1>5. <<>> \in Seq(Frames)
    OBVIOUS
  <1>6. CASE PollMock(p)
    <2>1. got' \in [Peers -> Seq(1 .. MaxSend)]
      BY <1>1, <1>2, <1>6 DEF PollMock
    <2>2. state' \in [Peers -> ConnectionState] /\ told' \in [Peers -> ConnectionState]
      BY <1>1, <1>3, <1>6, EmitType DEF PollMock
    <2>3. wire' \in [Peers -> Seq(Frames)]
      BY <1>5, <1>6 DEF PollMock, TypeOK
    <2>4. UNCHANGED <<remote_fp, accept, stream, reader, inbox>>
      BY <1>6 DEF PollMock
    <2> QED
      BY <1>4, <2>1, <2>2, <2>3, <2>4 DEF TypeOK
  <1>7. CASE PollLive(p)
    <2> DEFINE n == StopAt(p, inbox[p])
    <2>1. /\ got' = [got EXCEPT ![p] = @ \o Units(SubSeq(inbox[p], 1, n))]
          /\ remote_fp' = [remote_fp EXCEPT ![p] = "own"] \/ remote_fp' = remote_fp
          /\ inbox' = [inbox EXCEPT ![p] = <<>>]
          /\ UNCHANGED <<accept, stream, reader, wire>>
          /\ \E s \in ConnectionState : EmitState(p, s)
      BY <1>1, <1>3, <1>7, PollLiveDoes
    <2>2. SubSeq(inbox[p], 1, n) \in Seq(Frames)
      <3>1. n \in 0 .. Len(inbox[p])
        BY <1>1, StopIs
      <3> HIDE DEF n
      <3> QED
        BY <1>1, <3>1
    <2>3. got' \in [Peers -> Seq(1 .. MaxSend)]
      BY <1>2, <2>1, <2>2
    <2>4. state' \in [Peers -> ConnectionState] /\ told' \in [Peers -> ConnectionState]
      BY <2>1, EmitType
    <2>5. inbox' \in [Peers -> Seq(Frames)] /\ remote_fp' \in [Peers -> {"none", "own", "stale"}]
      BY <1>5, <2>1 DEF TypeOK
    <2> QED
      BY <1>4, <2>1, <2>3, <2>4, <2>5 DEF TypeOK
  <1>8. CASE PollWebrtc(p)
    <2> DEFINE states == {i \in 1 .. Len(inbox[p]) : inbox[p][i].kind = "state"}
               newest == CHOOSE i \in states : \A j \in states : j <= i
    <2>1. /\ got' = [got EXCEPT ![p] = @ \o Units(inbox[p])]
          /\ told' = IF states = {} THEN told ELSE [told EXCEPT ![p] = inbox[p][newest].s]
          /\ inbox' = [inbox EXCEPT ![p] = <<>>]
          /\ UNCHANGED <<state, remote_fp, accept, stream, reader, wire>>
      BY <1>8 DEF PollWebrtc
    <2>2. states # {} => inbox[p][newest].s \in ConnectionState
      <3>1. ASSUME states # {} PROVE newest \in states
        <4>1. states \subseteq 1 .. Len(inbox[p]) /\ Len(inbox[p]) \in Nat
          BY <1>1
        <4>2. \E x \in states : \A y \in states : y <= x
          BY <3>1, <4>1, GreatestOf
        <4> QED
          BY <4>2
      <3>2. ASSUME NEW i \in states PROVE inbox[p][i].s \in ConnectionState
        <4>1. inbox[p][i] \in Frames /\ inbox[p][i].kind = "state"
          BY <1>1
        <4> QED
          BY <4>1, UnitFacts
      <3> HIDE DEF newest
      <3> QED
        BY <3>1, <3>2
    <2> HIDE DEF states, newest
    <2>3. told' \in [Peers -> ConnectionState]
      BY <2>1, <2>2 DEF TypeOK
    <2>4. got' \in [Peers -> Seq(1 .. MaxSend)]
      BY <1>1, <1>2, <2>1
    <2>5. inbox' \in [Peers -> Seq(Frames)]
      BY <1>5, <2>1 DEF TypeOK
    <2> QED
      BY <1>4, <2>1, <2>3, <2>4, <2>5 DEF TypeOK
  <1> QED
    BY <1>6, <1>7, <1>8 DEF Poll

\* What a close does to the queues.
LEMMA CloseDoes ==
    ASSUME TypeOK, NEW p \in Peers, Close(p)
    PROVE  /\ ~closed[p] /\ closed' = [closed EXCEPT ![p] = TRUE] /\ EmitState(p, "closed")
           /\ inbox' = [inbox EXCEPT ![p] = <<>>]
           /\ reader' = [reader EXCEPT ![p] = IF @ = "none" THEN @ ELSE "done"]
           /\ accept' = IF p = "offerer" /\ accept = "got" THEN "failed" ELSE accept
           /\ stream' = [stream EXCEPT ![p] = "shut"] \/ stream' = Both("shut")
           /\ wire' \in [Peers -> Seq(Frames)] /\ wire'[p] = <<>>
           /\ LET q == Other(p) IN
              \/ wire'[q] = wire[q]
              \/ mode = "live" /\ wire'[q] = Append(Append(wire[q], CloseFrame), Eof)
              \/ mode = "live" /\ wire'[q] = Append(wire[q], Eof)
           /\ UNCHANGED <<mode, descs, expected_fp, remote_fp, counts>>
  <1> DEFINE q == Other(p)
  <1>1. /\ ~closed[p] /\ closed' = [closed EXCEPT ![p] = TRUE] /\ EmitState(p, "closed")
        /\ inbox' = [inbox EXCEPT ![p] = <<>>]
        /\ reader' = [reader EXCEPT ![p] = IF @ = "none" THEN @ ELSE "done"]
        /\ accept' = IF p = "offerer" /\ accept = "got" THEN "failed" ELSE accept
        /\ UNCHANGED <<mode, descs, expected_fp, remote_fp, counts>>
    BY DEF Close
  <1>2. wire \in [Peers -> Seq(Frames)] /\ wire[q] \in Seq(Frames) /\ <<>> \in Seq(Frames) /\ q # p /\ q \in Peers
    BY PeerFacts DEF TypeOK
  <1>3. mode \in {"mock", "live", "webrtc"}
    BY PeerTransportAssumption DEF TypeOK
  <1>4. CASE mode = "mock"
    <2>1. stream' = Both("shut") /\ wire' = [wire EXCEPT ![p] = <<>>]
      BY <1>4 DEF Close, CloseMock
    <2> HIDE DEF q
    <2>2. wire' \in [Peers -> Seq(Frames)] /\ wire'[p] = <<>> /\ wire'[q] = wire[q]
      BY <1>2, <2>1
    <2> QED
      BY <1>1, <2>1, <2>2 DEF q
  <1>5. CASE mode = "webrtc"
    <2>1. stream' = [stream EXCEPT ![p] = "shut"] /\ wire' = [wire EXCEPT ![p] = <<>>]
      BY <1>5 DEF Close, CloseWebrtc
    <2> HIDE DEF q
    <2>2. wire' \in [Peers -> Seq(Frames)] /\ wire'[p] = <<>> /\ wire'[q] = wire[q]
      BY <1>2, <2>1
    <2> QED
      BY <1>1, <2>1, <2>2 DEF q
  <1>6. CASE mode = "live"
    <2>1. stream' = [stream EXCEPT ![p] = "shut"]
      BY <1>6 DEF Close, CloseLive
    <2>2. \E v : /\ wire' = [wire EXCEPT ![p] = <<>>, ![q] = v]
                 /\ \/ v = wire[q] \/ v = wire[q] \o <<CloseFrame, Eof>>
                    \/ v = Append(wire[q], Eof)
      <3>1. CloseLive(p)
        BY <1>6 DEF Close
      <3>2. [wire EXCEPT ![p] = <<>>][q] = wire[q]
        BY <1>2
      <3> QED
        BY <3>1, <3>2 DEF CloseLive
    <2>3. PICK v : /\ wire' = [wire EXCEPT ![p] = <<>>, ![q] = v]
                   /\ \/ v = wire[q] \/ v = wire[q] \o <<CloseFrame, Eof>>
                      \/ v = Append(wire[q], Eof)
      BY <2>2
    <2>4. wire[q] \o <<CloseFrame, Eof>> = Append(Append(wire[q], CloseFrame), Eof)
      BY <1>2, PeerFacts
    <2>5. v \in Seq(Frames)
      <3>1. Append(wire[q], Eof) \in Seq(Frames) /\ Append(wire[q], CloseFrame) \in Seq(Frames)
        BY <1>2, PeerFacts
      <3>2. Append(Append(wire[q], CloseFrame), Eof) \in Seq(Frames)
        BY <3>1, PeerFacts
      <3> QED
        BY <1>2, <2>3, <2>4, <3>1, <3>2
    <2> HIDE DEF q
    <2>6. wire' \in [Peers -> Seq(Frames)] /\ wire'[p] = <<>> /\ wire'[q] = v
      BY <1>2, <2>3, <2>5
    <2> QED
      BY <1>1, <1>6, <2>1, <2>3, <2>4, <2>6 DEF q
  <1> QED
    BY <1>3, <1>4, <1>5, <1>6

\* Close keeps the types.
LEMMA CloseType ==
    ASSUME TypeOK, NEW p \in Peers, Close(p)
    PROVE  TypeOK'
  <1>1. state' \in [Peers -> ConnectionState] /\ told' \in [Peers -> ConnectionState]
    <2>1. "closed" \in ConnectionState
      BY DEF ConnectionState
    <2> QED
      BY <2>1, CloseDoes, EmitType
  <1>0. /\ inbox' = [inbox EXCEPT ![p] = <<>>] /\ closed' = [closed EXCEPT ![p] = TRUE]
        /\ reader' = [reader EXCEPT ![p] = IF @ = "none" THEN @ ELSE "done"]
        /\ accept' = IF p = "offerer" /\ accept = "got" THEN "failed" ELSE accept
        /\ stream' = [stream EXCEPT ![p] = "shut"] \/ stream' = Both("shut")
    BY CloseDoes
  <1>2. inbox' \in [Peers -> Seq(Frames)]
    <2>1. <<>> \in Seq(Frames)
      OBVIOUS
    <2> QED
      BY <1>0, <2>1 DEF TypeOK
  <1>3. wire' \in [Peers -> Seq(Frames)]
    BY CloseDoes
  <1>4. closed' \in [Peers -> BOOLEAN] /\ reader' \in [Peers -> {"none", "run", "done"}]
    BY <1>0 DEF TypeOK
  <1>5. /\ stream' \in [Peers -> {"none", "connecting", "open", "shut"}]
        /\ accept' \in {"none", "waiting", "dialled", "got", "failed", "done"}
    BY <1>0 DEF TypeOK, Both
  <1>6. UNCHANGED <<mode, sdp, local_desc, remote_desc, expected_fp, remote_fp, flaps, restarted, sent, got>>
    BY CloseDoes DEF descs, counts
  <1> QED
    BY <1>1, <1>2, <1>3, <1>4, <1>5, <1>6 DEF TypeOK

\* Every step keeps the types.
LEMMA TypeStep ==
    ASSUME TypeOK, [Next]_vars
    PROVE  TypeOK'
  <1>1. CASE UNCHANGED vars
    BY <1>1 DEF TypeOK, vars, descs, conn, io, counts
  <1>2. CASE Next
    BY <1>2, DescribeType, NetworkType, ReaderType, RuntimeType, PollType, CloseType, SendType DEF Next
  <1> QED
    BY <1>1, <1>2

\* The types hold in the beginning.
LEMMA TypeInit == Init => TypeOK
  <1> SUFFICES ASSUME Init PROVE TypeOK
    OBVIOUS
  <1>1. "new" \in ConnectionState /\ <<>> \in Seq(Frames) /\ <<>> \in Seq(Kinds)
        /\ <<>> \in Seq(1 .. MaxSend) /\ 0 \in 0 .. MaxFlap
    BY PeerTransportAssumption DEF ConnectionState
  <1> QED
    BY <1>1 DEF Init, TypeOK, Both

-----------------------------------------------------------------------------
\* The inductive invariant, for each peer.

\* Only live has threads; only live and webrtc queue anything for poll.
ModeInv(p) ==
    /\ mode # "live" => /\ reader[p] = "none" /\ accept = "none"
                        /\ \A i \in 1 .. Len(wire[p]) : wire[p][i].kind = "unit"
    /\ mode = "mock" => inbox[p] = <<>>
    /\ mode = "live" /\ stream[p] = "none" => reader[p] = "none"

\* Whom the peer talks to.
PrintInv(p) ==
    /\ mode = "live" =>
          /\ expected_fp[p] = remote_desc[p]
          /\ reader[p] # "none" => remote_desc[p] # "none"
          /\ remote_fp[p] # "none" => remote_fp[p] = "own" /\ remote_desc[p] = "own"
    /\ mode = "webrtc" => remote_fp[p] = remote_desc[p]
    /\ state[p] = "connected" =>
          /\ remote_fp[p] # "none"
          /\ mode # "mock" => remote_fp[p] = "own" /\ remote_desc[p] = "own"

\* What the owner was told.
ToldInv(p) ==
    /\ closed[p] => told[p] = "closed"
    /\ mode # "webrtc" => told[p] = state[p]
    /\ mode = "webrtc" /\ state[p] = "new" => told[p] = "new" /\ Quiet(inbox[p])
    /\ mode = "webrtc" /\ p \notin restarted => ToldOK(inbox[p], state[p], told[p])

\* The close of the connection, and what comes before it.
CloseInv(p) ==
    mode = "live" => CloseOK(inbox[p], wire[p], reader[p] = "done", closed[Other(p)])

\* What the peer was given, or will be by its next poll.
Come(p) == got[p] \o Units(inbox[p])

\* The Hello of the other end will not be refused.
Right(p) == mode = "live" => expected_fp[p] # "stale"

\* The kinds of the units sent to the peer. Only webrtc may lose a sample, or
\* let it be overtaken: to the others a sample is owed as data is.
Owed(p) == [n \in 1 .. Len(sent[Other(p)]) |->
               IF mode = "webrtc" THEN sent[Other(p)][n] ELSE "data"]

\* What came, and will come, is in order and nothing owed is lost.
StreamInv(p) ==
    Right(p) => StreamOK(Come(p), wire[p], Owed(p), reader[p] = "done", closed[p])

PeerInv(p) == ModeInv(p) /\ PrintInv(p) /\ ToldInv(p) /\ CloseInv(p) /\ StreamInv(p)

\* The inductive invariant.
IInv == TypeOK /\ \A p \in Peers : PeerInv(p)

-----------------------------------------------------------------------------
\* A call that sets a description, or adds a candidate: its thread may start,
\* the state may advance, and a fingerprint may be learnt.

Joins(p) ==
    \/ UNCHANGED <<accept, stream, reader, wire>>
    \/ /\ mode = "live" /\ stream[p] = "none" /\ remote_desc'[p] # "none"
       /\ AttachStream(p)

Moves(p) ==
    \/ UNCHANGED <<state, told>>
    \/ mode = "webrtc" /\ state[p] = "new" /\ EmitState(p, "connecting")
    \/ /\ mode # "webrtc"
       /\ \E s : /\ EmitState(p, s)
                 /\ \/ s = state[p]
                    \/ state[p] = "new" /\ s = "connecting"
                    \/ /\ mode = "mock" /\ s = "connected" /\ remote_fp'[p] # "none"
                       /\ state[p] \notin {"disconnected", "closed"}

Learns(p) ==
    /\ mode = "mock" =>
          remote_fp' = remote_fp \/ \E x : x # "none" /\ remote_fp' = [remote_fp EXCEPT ![p] = x]
    /\ mode = "live" =>
          /\ remote_fp' = remote_fp
          /\ \/ UNCHANGED <<remote_desc, expected_fp>>
             \/ /\ remote_desc[p] = "none"
                /\ \E fp : /\ remote_desc' = [remote_desc EXCEPT ![p] = fp]
                           /\ expected_fp' = [expected_fp EXCEPT ![p] = fp]
    /\ mode = "webrtc" =>
          \/ UNCHANGED <<remote_desc, remote_fp>>
          \/ /\ remote_desc[p] = "none"
             /\ \E fp : /\ remote_desc' = [remote_desc EXCEPT ![p] = fp]
                        /\ remote_fp' = [remote_fp EXCEPT ![p] = IF @ = "none" THEN fp ELSE @]

Described(p) ==
    /\ ~closed[p]
    /\ UNCHANGED <<mode, closed, inbox, flaps, restarted, sent, got>>
    /\ Joins(p) /\ Moves(p) /\ Learns(p)

\* What trying to connect does to a mock peer.
LEMMA ConnectDoes ==
    ASSUME TypeOK, mode = "mock", NEW p \in Peers, NEW ldesc, NEW rdesc,
           NEW s, s = state[p] \/ s = Begun(p), TryConnect(p, ldesc, rdesc, s)
    PROVE  /\ UNCHANGED io /\ Moves(p)
           /\ remote_fp' = remote_fp \/ \E x : x # "none" /\ remote_fp' = [remote_fp EXCEPT ![p] = x]
  <1>1. s = state[p] \/ (state[p] = "new" /\ s = "connecting")
    BY DEF Begun
  <1>2. UNCHANGED io
    BY DEF TryConnect
  <1>3. CASE ldesc[p] # "none" /\ rdesc[p] # "none"
    <2> DEFINE t == IF s \in {"connected", "closed", "disconnected"} THEN s ELSE "connected"
    <2>1. remote_fp' = [remote_fp EXCEPT ![p] = rdesc[p]] /\ EmitState(p, t)
      BY <1>3 DEF TryConnect
    <2>2. remote_fp'[p] # "none"
      BY <1>3, <2>1 DEF TypeOK
    <2>3. t = state[p] \/ (t = "connected" /\ state[p] \notin {"disconnected", "closed"})
      BY <1>1
    <2> HIDE DEF t
    <2>4. Moves(p)
      BY <2>1, <2>2, <2>3 DEF Moves
    <2> QED
      BY <1>2, <1>3, <2>1, <2>4
  <1>4. CASE ~(ldesc[p] # "none" /\ rdesc[p] # "none")
    <2>1. UNCHANGED remote_fp /\ EmitState(p, s)
      BY <1>4 DEF TryConnect
    <2>2. Moves(p)
      BY <1>1, <2>1 DEF Moves
    <2> QED
      BY <1>2, <2>1, <2>2
  <1> QED
    BY <1>3, <1>4

\* The calls that set a description, or add a candidate, are such calls.
LEMMA DescribeDoes ==
    ASSUME TypeOK, NEW p \in Peers,
           \/ SetLocalDescription(p) \/ AddIceCandidate(p)
           \/ \E fp \in Prints : SetRemoteDescription(p, fp)
    PROVE  Described(p)
  <1>1. mode \in {"mock", "live", "webrtc"}
    BY PeerTransportAssumption DEF TypeOK
  <1>2. CASE SetLocalDescription(p)
    <2>1. /\ ~closed[p]
          /\ UNCHANGED <<mode, closed, flaps, restarted, sent, got, remote_desc, expected_fp>>
      BY <1>2 DEF SetLocalDescription, counts
    <2>2. CASE mode = "mock"
      <3>1. TryConnect(p, local_desc', remote_desc, Begun(p))
        BY <1>2, <2>2 DEF SetLocalDescription, LocalMock
      <3>2. /\ UNCHANGED io /\ Moves(p)
            /\ remote_fp' = remote_fp \/ \E x : x # "none" /\ remote_fp' = [remote_fp EXCEPT ![p] = x]
        BY <2>2, <3>1, ConnectDoes
      <3> QED
        BY <2>1, <2>2, <3>2 DEF Described, Learns, Joins, io
    <2>3. CASE mode = "live"
      <3>1. EmitState(p, Begun(p)) /\ TryEstablish(p, local_desc', remote_desc) /\ UNCHANGED remote_fp
        BY <1>2, <2>3 DEF SetLocalDescription, LocalLive
      <3>2. inbox' = inbox /\ Joins(p)
        BY <2>1, <2>3, <3>1, EstablishDoes DEF Joins
      <3>3. Moves(p)
        BY <2>3, <3>1 DEF Moves, Begun
      <3> QED
        BY <2>1, <2>3, <3>1, <3>2, <3>3 DEF Described, Learns
    <2>4. CASE mode = "webrtc"
      <3>1. /\ IF state[p] = "new" THEN EmitState(p, "connecting") ELSE UNCHANGED <<state, told>>
            /\ UNCHANGED <<remote_fp, io>>
        BY <1>2, <2>4 DEF SetLocalDescription, LocalWebrtc
      <3>2. Moves(p)
        BY <2>4, <3>1 DEF Moves
      <3> QED
        BY <2>1, <2>4, <3>1, <3>2 DEF Described, Learns, Joins, io
    <2> QED
      BY <1>1, <2>2, <2>3, <2>4
  <1>3. ASSUME NEW fp \in Prints, SetRemoteDescription(p, fp) PROVE Described(p)
    <2>1. /\ ~closed[p] /\ remote_desc[p] = "none" /\ remote_desc' = [remote_desc EXCEPT ![p] = fp]
          /\ UNCHANGED <<mode, closed, flaps, restarted, sent, got>>
      BY <1>3 DEF SetRemoteDescription, counts
    <2>2. CASE mode = "mock"
      <3>1. TryConnect(p, local_desc, remote_desc', Begun(p))
        BY <1>3, <2>2 DEF SetRemoteDescription, RemoteMock
      <3>2. /\ UNCHANGED io /\ Moves(p)
            /\ remote_fp' = remote_fp \/ \E x : x # "none" /\ remote_fp' = [remote_fp EXCEPT ![p] = x]
        BY <2>2, <3>1, ConnectDoes
      <3> QED
        BY <2>1, <2>2, <3>2 DEF Described, Learns, Joins, io
    <2>3. CASE mode = "live"
      <3>1. /\ EmitState(p, Begun(p)) /\ TryEstablish(p, local_desc, remote_desc')
            /\ UNCHANGED remote_fp /\ expected_fp' = [expected_fp EXCEPT ![p] = fp]
        BY <1>3, <2>3 DEF SetRemoteDescription, RemoteLive
      <3>2. inbox' = inbox /\ Joins(p)
        BY <2>3, <3>1, EstablishDoes DEF Joins
      <3>3. Moves(p)
        BY <2>3, <3>1 DEF Moves, Begun
      <3> QED
        BY <2>1, <2>3, <3>1, <3>2, <3>3 DEF Described, Learns
    <2>4. CASE mode = "webrtc"
      <3>1. /\ IF state[p] = "new" THEN EmitState(p, "connecting") ELSE UNCHANGED <<state, told>>
            /\ UNCHANGED io
            /\ remote_fp' = [remote_fp EXCEPT ![p] = IF @ = "none" THEN fp ELSE @]
        BY <1>3, <2>4 DEF SetRemoteDescription, RemoteWebrtc
      <3>2. Moves(p)
        BY <2>4, <3>1 DEF Moves
      <3> QED
        BY <2>1, <2>4, <3>1, <3>2 DEF Described, Learns, Joins, io
    <2> QED
      BY <1>1, <2>2, <2>3, <2>4
  <1>4. CASE AddIceCandidate(p)
    <2>1. /\ ~closed[p]
          /\ UNCHANGED <<mode, closed, flaps, restarted, sent, got, remote_desc, expected_fp>>
      BY <1>4 DEF AddIceCandidate, counts, descs
    <2>2. CASE IceMock(p)
      <3>1. mode = "mock" /\ TryConnect(p, local_desc, remote_desc, state[p])
        BY <2>2 DEF IceMock
      <3>2. /\ UNCHANGED io /\ Moves(p)
            /\ remote_fp' = remote_fp \/ \E x : x # "none" /\ remote_fp' = [remote_fp EXCEPT ![p] = x]
        BY <3>1, ConnectDoes
      <3> QED
        BY <2>1, <3>1, <3>2 DEF Described, Learns, Joins, io
    <2>3. CASE IceLive(p)
      <3>1. /\ mode = "live" /\ TryEstablish(p, local_desc, remote_desc)
            /\ UNCHANGED <<state, told, remote_fp>>
        BY <2>3 DEF IceLive
      <3>2. inbox' = inbox /\ Joins(p)
        BY <2>1, <3>1, EstablishDoes DEF Joins
      <3> QED
        BY <2>1, <3>1, <3>2 DEF Described, Learns, Moves
    <2> QED
      BY <1>4, <2>2, <2>3 DEF AddIceCandidate
  <1> QED
    BY <1>2, <1>3, <1>4

-----------------------------------------------------------------------------
\* A step that starts no thread and adds nothing to the queues keeps ModeInv.
LEMMA ModeSame ==
    ASSUME NEW q \in Peers, ModeInv(q), mode' = mode, reader'[q] = reader[q], accept' = accept,
           wire'[q] = wire[q], inbox'[q] = inbox[q] \/ inbox'[q] = <<>>,
           stream'[q] = stream[q] \/ stream'[q] # "none"
    PROVE  ModeInv(q)'
  BY DEF ModeInv

\* In live only the threads of the peer that attaches start.
LEMMA ModeLive ==
    ASSUME NEW q \in Peers, mode = "live", mode' = mode, ModeInv(q),
           \/ reader'[q] = reader[q] /\ stream'[q] = stream[q]
           \/ stream'[q] # "none"
           \/ reader'[q] = "none"
    PROVE  ModeInv(q)'
  BY DEF ModeInv

\* Every step keeps ModeInv.
LEMMA ModeStep ==
    ASSUME TypeOK, NEW q \in Peers, ModeInv(q), [Next]_vars
    PROVE  ModeInv(q)'
  <1>1. CASE UNCHANGED vars
    BY <1>1 DEF ModeInv, vars, conn, io
  <1>2. CASE CreateOffer
    <2>1. UNCHANGED <<mode, reader, wire, inbox>>
      BY <1>2 DEF CreateOffer
    <2>2. mode \in {"mock", "live", "webrtc"}
      BY PeerTransportAssumption DEF TypeOK
    <2>3. CASE mode = "live"
      <3>1. stream' = stream
        BY <1>2, <2>3 DEF CreateOffer, OfferLive
      <3> QED
        BY <2>1, <2>3, <3>1, ModeLive
    <2>4. CASE mode # "live"
      <3>1. accept' = accept /\ (stream' = stream \/ stream' = [stream EXCEPT !["offerer"] = "connecting"])
        BY <1>2, <2>2, <2>4 DEF CreateOffer, OfferWebrtc
      <3>2. stream'[q] = stream[q] \/ stream'[q] # "none"
        BY <3>1 DEF TypeOK
      <3> QED
        BY <2>1, <3>1, <3>2, ModeSame
    <2> QED
      BY <2>3, <2>4
  <1>3. CASE CreateAnswer
    BY <1>3 DEF CreateAnswer, conn, io, ModeInv
  <1>4. CASE AcceptConnection \/ AcceptTimeout
    <2>1. UNCHANGED <<mode, reader, stream, inbox>> /\ accept # "none"
      BY <1>4 DEF AcceptConnection, AcceptTimeout
    <2>2. mode = "live"
      BY <2>1 DEF ModeInv
    <2> QED
      BY <2>1, <2>2, ModeLive
  <1>5. CASE ConnectionReset
    BY <1>5, ModeLive DEF ConnectionReset
  <1>6. ASSUME NEW p \in Peers, Described(p) PROVE ModeInv(q)'
    <2>1. CASE UNCHANGED <<accept, stream, reader, wire>>
      BY <1>6, <2>1, ModeSame DEF Described
    <2>2. CASE mode = "live" /\ AttachStream(p)
      <3>1. (reader'[q] = reader[q] /\ stream'[q] = stream[q]) \/ stream'[q] # "none"
        BY <2>2 DEF AttachStream, TypeOK
      <3> QED
        BY <1>6, <2>2, <3>1, ModeLive DEF Described
    <2> QED
      BY <1>6, <2>1, <2>2 DEF Described, Joins
  <1>7. ASSUME NEW p \in Peers, RestartIce(p) PROVE ModeInv(q)'
    BY <1>7, ModeSame DEF RestartIce, io
  <1>8. ASSUME NEW p \in Peers, Reader(p) PROVE ModeInv(q)'
    <2>1. mode = "live" /\ mode' = mode /\ stream' = stream /\ reader[p] # "none"
          /\ reader' = [reader EXCEPT ![p] = IF Head(wire[p]) = Eof THEN "done" ELSE @]
      BY <1>8 DEF Reader
    <2>2. mode = "live" /\ stream[q] = "none" => reader[q] = "none"
      BY DEF ModeInv
    <2>3. reader'[q] = reader[q] \/ q = p
      BY <2>1 DEF TypeOK
    <2> QED
      BY <2>1, <2>2, <2>3 DEF ModeInv
  <1>9. ASSUME NEW p \in Peers, Poll(p) PROVE ModeInv(q)'
    <2>1. /\ mode' = mode /\ accept' = accept /\ reader' = reader /\ stream' = stream
          /\ inbox'[q] = inbox[q] \/ inbox'[q] = <<>>
          /\ wire'[q] = wire[q] \/ (mode = "mock" /\ wire'[q] = <<>>)
      <3> DEFINE Does == /\ accept' = accept /\ reader' = reader /\ stream' = stream
                         /\ inbox' = inbox \/ inbox' = [inbox EXCEPT ![p] = <<>>]
                         /\ \/ wire' = wire
                            \/ mode = "mock" /\ wire' = [wire EXCEPT ![p] = <<>>]
      <3>1. ASSUME PollMock(p) PROVE Does
        BY <3>1 DEF PollMock
      <3>2. ASSUME PollLive(p) PROVE Does
        BY <3>2, PollLiveDoes
      <3>3. ASSUME PollWebrtc(p) PROVE Does
        BY <3>3 DEF PollWebrtc
      <3>4. mode' = mode /\ Does
        <4>1. mode' = mode /\ (PollMock(p) \/ PollLive(p) \/ PollWebrtc(p))
          BY <1>9 DEF Poll
        <4> HIDE DEF Does
        <4> QED
          BY <3>1, <3>2, <3>3, <4>1
      <3> QED
        BY <3>4 DEF TypeOK
    <2> QED
      BY <2>1 DEF ModeInv
  <1>10. ASSUME NEW p \in Peers, Close(p) PROVE ModeInv(q)'
    <2>1. /\ mode' = mode /\ inbox' = [inbox EXCEPT ![p] = <<>>]
          /\ reader' = [reader EXCEPT ![p] = IF @ = "none" THEN @ ELSE "done"]
          /\ accept' = IF p = "offerer" /\ accept = "got" THEN "failed" ELSE accept
          /\ stream' = [stream EXCEPT ![p] = "shut"] \/ stream' = Both("shut")
          /\ wire'[p] = <<>>
          /\ mode = "live" \/ wire'[Other(p)] = wire[Other(p)]
      BY <1>10, CloseDoes
    <2>2. /\ inbox'[q] = inbox[q] \/ inbox'[q] = <<>>
          /\ reader[q] = "none" => reader'[q] = "none"
          /\ (reader'[q] = reader[q] /\ stream'[q] = stream[q]) \/ stream'[q] # "none"
          /\ q = p \/ q = Other(p)
      BY <2>1 DEF TypeOK, Both, Peers, Other
    <2>3. CASE mode = "live"
      BY <2>1, <2>2, <2>3, ModeLive
    <2>4. CASE mode # "live"
      BY <2>1, <2>2, <2>4 DEF ModeInv
    <2> QED
      BY <2>3, <2>4
  <1>11. ASSUME NEW p \in Peers, NEW s, PcState(p, s) PROVE ModeInv(q)'
    <2>1. /\ mode = "webrtc" /\ mode' = mode /\ reader' = reader /\ accept' = accept /\ wire' = wire
      BY <1>11 DEF PcState
    <2> QED
      BY <2>1 DEF ModeInv
  <1>12. ASSUME NEW p \in Peers, ChannelOpen(p) PROVE ModeInv(q)'
    BY <1>12 DEF ChannelOpen, conn, ModeInv
  <1>13. ASSUME NEW p \in Peers, NEW i \in 1 .. Len(wire[p]), OnMessage(p, i) PROVE ModeInv(q)'
    <2>1. /\ mode = "webrtc" /\ mode' = mode /\ reader' = reader /\ accept' = accept
          /\ wire' = [wire EXCEPT ![p] = RemoveAt(@, i)]
      BY <1>13 DEF OnMessage
    <2>2. CASE q # p
      <3>1. wire'[q] = wire[q]
        BY <2>1, <2>2
      <3> QED
        BY <2>1, <3>1 DEF ModeInv
    <2>3. CASE q = p
      <3> DEFINE w == wire[q]
                 v == RemoveAt(w, i)
      <3>1. wire'[q] = v /\ w \in Seq(Frames)
        BY <2>1, <2>3 DEF TypeOK
      <3>2. Without(w, i, v)
        BY <2>3, <3>1, RemoveAtIs
      <3>3. \A k \in 1 .. Len(w) : w[k].kind = "unit"
        BY <2>1 DEF ModeInv
      <3> HIDE DEF w, v
      <3>4. \A k \in 1 .. Len(v) : v[k].kind = "unit"
        <4> TAKE k \in 1 .. Len(v)
        <4>1. k \in 1 .. Len(w) /\ k + 1 \in 1 .. Len(w) /\ v[k] = IF k < i THEN w[k] ELSE w[k + 1]
          BY <3>2 DEF Without
        <4> QED
          BY <3>3, <4>1
      <3> QED
        BY <2>1, <3>1, <3>4 DEF ModeInv
    <2> QED
      BY <2>2, <2>3
  <1>14. ASSUME NEW p \in Peers, NEW kind \in Kinds, Send(p, kind) PROVE ModeInv(q)'
    <2>1. /\ mode' = mode /\ reader' = reader /\ accept' = accept /\ stream' = stream /\ inbox' = inbox
      BY <1>14 DEF Send
    <2>2. \/ wire'[q] = wire[q]
          \/ wire'[q] = Append(wire[q], Unit(Len(sent[p]) + 1)) /\ Unit(Len(sent[p]) + 1) \in Frames
      <3>1. /\ wire' = [wire EXCEPT ![Other(p)] =
                   IF closed[Other(p)] THEN @ ELSE Append(@, Unit(Len(sent[p]) + 1))]
            /\ Unit(Len(sent[p]) + 1) \in Frames
        BY <1>14, SendType
      <3>2. q = p \/ q = Other(p)
        BY DEF Peers, Other
      <3> QED
        BY <3>1, <3>2 DEF TypeOK
    <2>3. wire[q] \in Seq(Frames) /\ \A n : Unit(n).kind = "unit"
      BY DEF TypeOK, Unit
    <2>4. CASE wire'[q] = wire[q]
      BY <2>1, <2>4, ModeSame
    <2>5. CASE wire'[q] = Append(wire[q], Unit(Len(sent[p]) + 1)) /\ Unit(Len(sent[p]) + 1) \in Frames
      <3> DEFINE f == Unit(Len(sent[p]) + 1)
                 w == wire[q]
                 v == Append(w, f)
      <3>1. f.kind = "unit" /\ f \in Frames /\ w \in Seq(Frames) /\ wire'[q] = v
        BY <2>3, <2>5
      <3>2. (\A k \in 1 .. Len(w) : w[k].kind = "unit") => \A k \in 1 .. Len(v) : v[k].kind = "unit"
        <4> HIDE DEF f, w
        <4>1. Len(v) = Len(w) + 1 /\ v[Len(w) + 1] = f /\ \A k \in 1 .. Len(w) : v[k] = w[k]
          BY <3>1, AppendProperties
        <4>2. Len(w) \in Nat
          BY <3>1
        <4> HIDE DEF v
        <4> QED
          BY <3>1, <4>1, <4>2
      <3> HIDE DEF f, v
      <3> QED
        BY <2>1, <3>1, <3>2 DEF ModeInv
    <2> QED
      BY <2>2, <2>4, <2>5
  <1> QED
    <2>1. CASE Next
      BY <1>2, <1>3, <1>4, <1>5, <1>6, <1>7, <1>8, <1>9, <1>10, <1>11, <1>12, <1>13, <1>14, <2>1, DescribeDoes
         DEF Next, PcConnected, PcDisconnected, PcFailed, PcLate
    <2> QED
      BY <1>1, <2>1

-----------------------------------------------------------------------------
\* A step that learns no fingerprint and connects nothing keeps PrintInv.
LEMMA PrintSame ==
    ASSUME NEW q \in Peers, PrintInv(q), mode' = mode, reader[q] = "none" => reader'[q] = "none",
           remote_desc' = remote_desc, expected_fp' = expected_fp, remote_fp' = remote_fp,
           state'[q] = state[q] \/ state'[q] # "connected"
    PROVE  PrintInv(q)'
  BY DEF PrintInv

\* Every step keeps PrintInv.
LEMMA PrintStep ==
    ASSUME TypeOK, NEW q \in Peers, ModeInv(q), PrintInv(q), [Next]_vars
    PROVE  PrintInv(q)'
  <1>1. CASE UNCHANGED vars
    BY <1>1 DEF PrintInv, vars, conn, io, descs
  <1>2. CASE CreateOffer \/ CreateAnswer \/ AcceptConnection \/ AcceptTimeout \/ ConnectionReset
    <2>1. UNCHANGED <<mode, reader, remote_desc, expected_fp, remote_fp, state>>
      BY <1>2 DEF CreateOffer, CreateAnswer, AcceptConnection, AcceptTimeout, ConnectionReset,
                  conn, descs, io
    <2> QED
      BY <2>1, PrintSame
  <1>3. ASSUME NEW p \in Peers, Described(p) PROVE PrintInv(q)'
    <2>1. mode' = mode /\ Joins(p) /\ Moves(p) /\ Learns(p) /\ mode \in {"mock", "live", "webrtc"}
      BY <1>3, PeerTransportAssumption DEF Described, TypeOK
    <2>2. state'[q] = "connected" =>
              state[q] = "connected" \/ (mode = "mock" /\ q = p /\ remote_fp'[p] # "none")
      BY <2>1 DEF Moves, EmitState, TypeOK
    <2>3. CASE mode = "mock"
      <3>1. remote_fp[q] # "none" => remote_fp'[q] # "none"
        BY <2>1, <2>3 DEF Learns, TypeOK
      <3> QED
        BY <2>1, <2>2, <2>3, <3>1 DEF PrintInv
    <2>4. CASE mode = "live"
      <3>1. remote_fp' = remote_fp
        BY <2>1, <2>4 DEF Learns
      <3>2. reader'[q] = reader[q] \/ (q = p /\ remote_desc'[q] # "none")
        BY <2>1 DEF Joins, AttachStream, TypeOK
      <3>3. \/ remote_desc'[q] = remote_desc[q] /\ expected_fp'[q] = expected_fp[q]
            \/ remote_desc[q] = "none" /\ remote_desc'[q] = expected_fp'[q]
        BY <2>1, <2>4 DEF Learns, TypeOK
      <3> QED
        BY <2>1, <2>2, <2>4, <3>1, <3>2, <3>3 DEF PrintInv
    <2>5. CASE mode = "webrtc"
      <3>1. \/ remote_desc'[q] = remote_desc[q] /\ remote_fp'[q] = remote_fp[q]
            \/ /\ remote_desc[q] = "none"
               /\ \E fp : remote_desc'[q] = fp /\ remote_fp'[q] = IF remote_fp[q] = "none" THEN fp ELSE remote_fp[q]
        BY <2>1, <2>5 DEF Learns, TypeOK
      <3> QED
        BY <2>1, <2>2, <2>5, <3>1 DEF PrintInv
    <2> QED
      BY <2>1, <2>3, <2>4, <2>5
  <1>4. ASSUME NEW p \in Peers, RestartIce(p) PROVE PrintInv(q)'
    <2>1. UNCHANGED <<mode, reader, remote_desc, expected_fp, remote_fp>> /\ EmitState(p, "connecting")
      BY <1>4 DEF RestartIce, descs, io
    <2>2. state'[q] = state[q] \/ state'[q] # "connected"
      BY <2>1 DEF EmitState, TypeOK
    <2> QED
      BY <2>1, <2>2, PrintSame
  <1>5. ASSUME NEW p \in Peers, Reader(p) PROVE PrintInv(q)'
    <2>1. /\ UNCHANGED <<mode, remote_desc, expected_fp, remote_fp, state>>
          /\ reader[q] = "none" => reader'[q] = "none"
      BY <1>5 DEF Reader, descs, conn, TypeOK
    <2> QED
      BY <2>1, PrintSame
  <1>6. ASSUME NEW p \in Peers, Poll(p) PROVE PrintInv(q)'
    <2>1. UNCHANGED <<mode, remote_desc, expected_fp>>
      BY <1>6 DEF Poll, descs
    <2>2. CASE PollMock(p)
      <3>1. UNCHANGED <<reader, remote_fp>> /\ (state'[q] = state[q] \/ state'[q] # "connected")
        BY <2>2 DEF PollMock, EmitState, TypeOK
      <3> QED
        BY <2>1, <3>1, PrintSame
    <2>3. CASE PollWebrtc(p)
      BY <2>1, <2>3, PrintSame DEF PollWebrtc
    <2>4. CASE PollLive(p)
      <3> DEFINE n == StopAt(p, inbox[p])
                 hello == \E i \in 1 .. n : inbox[p][i] = Hello /\ ~BadHello(p, inbox[p][i])
      <3>1. /\ mode = "live" /\ reader[p] # "none" /\ reader' = reader
            /\ remote_fp' = IF hello THEN [remote_fp EXCEPT ![p] = "own"] ELSE remote_fp
            /\ \E s : /\ EmitState(p, s)
                      /\ s = state[p] \/ s = "disconnected" \/ (s = "connected" /\ hello)
        BY <2>4, PollLiveDoes
      <3>2. hello => expected_fp[p] \in {"none", "own"}
        BY DEF BadHello
      <3> HIDE DEF hello
      <3>3. state'[q] = state[q] \/ state'[q] = "disconnected" \/ (q = p /\ hello)
        BY <3>1 DEF EmitState, TypeOK
      <3>4. remote_fp'[q] = IF q = p /\ hello THEN "own" ELSE remote_fp[q]
        BY <3>1 DEF TypeOK
      <3>5. q = p /\ hello => remote_desc[q] = "own"
        BY <3>1, <3>2 DEF PrintInv
      <3> QED
        BY <2>1, <3>1, <3>3, <3>4, <3>5 DEF PrintInv
    <2> QED
      BY <1>6, <2>2, <2>3, <2>4 DEF Poll
  <1>7. ASSUME NEW p \in Peers, Close(p) PROVE PrintInv(q)'
    <2>1. /\ EmitState(p, "closed") /\ UNCHANGED <<mode, remote_desc, expected_fp, remote_fp>>
          /\ reader' = [reader EXCEPT ![p] = IF @ = "none" THEN @ ELSE "done"]
      BY <1>7, CloseDoes DEF descs
    <2>2. /\ state'[q] = state[q] \/ state'[q] # "connected"
          /\ reader[q] = "none" => reader'[q] = "none"
      BY <2>1 DEF EmitState, TypeOK
    <2> QED
      BY <2>1, <2>2, PrintSame
  <1>8. ASSUME NEW p \in Peers, NEW s, PcState(p, s), s = "connected" => remote_desc[p] = "own"
        PROVE  PrintInv(q)'
    <2>1. /\ mode = "webrtc" /\ UNCHANGED <<mode, reader, remote_desc, expected_fp, remote_fp>>
          /\ state' = [state EXCEPT ![p] = s]
      BY <1>8 DEF PcState, descs
    <2>2. state'[q] = state[q] \/ (q = p /\ state'[q] = s)
      BY <2>1 DEF TypeOK
    <2> QED
      BY <1>8, <2>1, <2>2 DEF PrintInv
  <1>9. ASSUME NEW p \in Peers, PcConnected(p) \/ PcDisconnected(p) \/ PcFailed(p) \/ PcLate(p)
        PROVE  PrintInv(q)'
    BY <1>8, <1>9 DEF PcConnected, PcDisconnected, PcFailed, PcLate, Genuine
  <1>10. ASSUME NEW p \in Peers,
                \/ ChannelOpen(p)
                \/ \E i \in 1 .. Len(wire[p]) : OnMessage(p, i)
                \/ \E kind \in Kinds : Send(p, kind)
         PROVE  PrintInv(q)'
    <2>1. UNCHANGED <<mode, reader, remote_desc, expected_fp, remote_fp, state>>
      BY <1>10 DEF ChannelOpen, OnMessage, Send, conn, descs
    <2> QED
      BY <2>1, PrintSame
  <1> QED
    <2>1. CASE Next
      BY <1>2, <1>3, <1>4, <1>5, <1>6, <1>7, <1>9, <1>10, <2>1, DescribeDoes DEF Next
    <2> QED
      BY <1>1, <2>1

-----------------------------------------------------------------------------
\* A step that changes neither the state nor what is told keeps ToldInv.
LEMMA ToldSame ==
    ASSUME NEW q \in Peers, ToldInv(q), mode' = mode, closed'[q] = closed[q],
           state'[q] = state[q], told'[q] = told[q], inbox'[q] = inbox[q] \/ mode # "webrtc",
           mode = "webrtc" /\ q \notin restarted' => q \notin restarted
    PROVE  ToldInv(q)'
  BY DEF ToldInv

\* A call that reports the state it sets.
LEMMA ToldEmit ==
    ASSUME TypeOK, NEW q \in Peers, ToldInv(q), mode' = mode, NEW p \in Peers, NEW s, EmitState(p, s),
           UNCHANGED closed, ~closed[p], s # "new" \/ s = state[p],
           mode = "webrtc" => /\ inbox' = inbox /\ s # "new"
                              /\ state[p] = "new" \/ p \in restarted'
                              /\ restarted \subseteq restarted'
    PROVE  ToldInv(q)'
  <1>1. CASE q # p
    <2>1. state'[q] = state[q] /\ told'[q] = told[q] /\ closed'[q] = closed[q]
      BY <1>1 DEF EmitState, TypeOK
    <2> QED
      BY <2>1, ToldSame
  <1>2. CASE q = p
    <2>1. state'[q] = s /\ told'[q] = s /\ ~closed'[q]
      BY <1>2 DEF EmitState, TypeOK
    <2>2. CASE mode # "webrtc"
      BY <2>1, <2>2 DEF ToldInv
    <2>3. CASE mode = "webrtc"
      <3>1. q \notin restarted' => Quiet(inbox'[q])
        BY <1>2, <2>3 DEF ToldInv
      <3>2. Quiet(inbox'[q]) => ToldOK(inbox'[q], s, s)
        BY DEF Quiet, ToldOK, LastState
      <3> QED
        BY <2>1, <2>3, <3>1, <3>2 DEF ToldInv
    <2> QED
      BY <2>2, <2>3
  <1> QED
    BY <1>1, <1>2

\* Every step keeps ToldInv.
LEMMA ToldStep ==
    ASSUME TypeOK, NEW q \in Peers, ModeInv(q), ToldInv(q), [Next]_vars
    PROVE  ToldInv(q)'
  <1>1. CASE UNCHANGED vars
    BY <1>1, ToldSame DEF vars, conn, io, counts
  <1>2. CASE \/ CreateOffer \/ CreateAnswer \/ AcceptConnection \/ AcceptTimeout \/ ConnectionReset
             \/ \E p \in Peers : ChannelOpen(p) \/ \E kind \in Kinds : Send(p, kind)
    <2>1. UNCHANGED <<mode, closed, state, told, inbox, restarted>>
      BY <1>2 DEF CreateOffer, CreateAnswer, AcceptConnection, AcceptTimeout, ConnectionReset,
                  ChannelOpen, Send, conn, io, counts
    <2> QED
      BY <2>1, ToldSame
  <1>3. ASSUME NEW p \in Peers, Described(p) PROVE ToldInv(q)'
    <2>1. UNCHANGED <<mode, closed, inbox, restarted>> /\ ~closed[p] /\ Moves(p)
      BY <1>3 DEF Described
    <2>2. CASE UNCHANGED <<state, told>>
      BY <2>1, <2>2, ToldSame
    <2>3. CASE mode = "webrtc" /\ state[p] = "new" /\ EmitState(p, "connecting")
      BY <2>1, <2>3, ToldEmit
    <2>4. ASSUME mode # "webrtc", NEW s, EmitState(p, s), s # "new" \/ s = state[p] PROVE ToldInv(q)'
      BY <2>1, <2>4, ToldEmit
    <2> QED
      BY <2>1, <2>2, <2>3, <2>4 DEF Moves
  <1>4. ASSUME NEW p \in Peers, RestartIce(p) PROVE ToldInv(q)'
    <2>1. /\ UNCHANGED <<mode, closed, inbox>> /\ ~closed[p] /\ EmitState(p, "connecting")
          /\ restarted' = restarted \cup {p}
      BY <1>4 DEF RestartIce, io
    <2>2. p \in restarted' /\ restarted \subseteq restarted'
      BY <2>1
    <2> QED
      BY <2>1, <2>2, ToldEmit
  <1>5. ASSUME NEW p \in Peers, Reader(p) PROVE ToldInv(q)'
    <2>1. mode = "live" /\ UNCHANGED <<mode, closed, state, told, restarted>>
      BY <1>5 DEF Reader, conn, counts
    <2> QED
      BY <2>1, ToldSame
  <1>6. ASSUME NEW p \in Peers, Poll(p) PROVE ToldInv(q)'
    <2>1. UNCHANGED <<mode, closed, restarted>> /\ ~closed[p]
      BY <1>6 DEF Poll
    <2>2. CASE PollMock(p)
      <3>1. mode = "mock" /\ \E s : EmitState(p, s) /\ (s = "disconnected" \/ s = state[p])
        BY <2>2 DEF PollMock
      <3> QED
        BY <2>1, <3>1, ToldEmit
    <2>3. CASE PollLive(p)
      <3>1. mode = "live" /\ \E s : EmitState(p, s) /\ (s # "new" \/ s = state[p])
        BY <2>3, PollLiveDoes
      <3> QED
        BY <2>1, <3>1, ToldEmit
    <2>4. CASE PollWebrtc(p)
      <3> DEFINE states == {i \in 1 .. Len(inbox[p]) : inbox[p][i].kind = "state"}
                 newest == CHOOSE i \in states : \A j \in states : j <= i
      <3>1. /\ mode = "webrtc" /\ state' = state /\ inbox' = [inbox EXCEPT ![p] = <<>>]
            /\ told' = IF states = {} THEN told ELSE [told EXCEPT ![p] = inbox[p][newest].s]
        BY <2>4 DEF PollWebrtc
      <3>2. CASE q # p
        <4>1. told'[q] = told[q] /\ inbox'[q] = inbox[q]
          BY <3>1, <3>2
        <4> QED
          BY <2>1, <3>1, <4>1, ToldSame
      <3>3. CASE q = p
        <4>1. ~closed'[q] /\ inbox'[q] = <<>> /\ state'[q] = state[q]
          BY <2>1, <3>1, <3>3 DEF TypeOK
        <4>2. inbox[q] \in Seq(Frames)
          BY DEF TypeOK
        <4>3. state[q] = "new" => told'[q] = "new"
          <5>1. state[q] = "new" => told[q] = "new" /\ states = {}
            BY <3>1, <3>3 DEF ToldInv, Quiet
          <5> QED
            BY <3>1, <3>3, <5>1
        <4>4. q \notin restarted' => told'[q] = state[q]
          <5>1. q \notin restarted' => ToldOK(inbox[q], state[q], told[q])
            BY <2>1, <3>1 DEF ToldInv
          <5>2. q \notin restarted' =>
                    /\ states = {} => told[q] = state[q]
                    /\ states # {} => inbox[q][newest].s = state[q]
            BY <3>3, <4>2, <5>1, ToldNewest
          <5> HIDE DEF states, newest
          <5> QED
            BY <3>1, <3>3, <5>2 DEF TypeOK
        <4> QED
          BY <2>1, <3>1, <4>1, <4>3, <4>4, ToldEmpty DEF ToldInv
      <3> QED
        BY <3>2, <3>3
    <2> QED
      BY <1>6, <2>2, <2>3, <2>4 DEF Poll
  <1>7. ASSUME NEW p \in Peers, Close(p) PROVE ToldInv(q)'
    <2>1. /\ EmitState(p, "closed") /\ UNCHANGED <<mode, restarted>>
          /\ inbox' = [inbox EXCEPT ![p] = <<>>] /\ closed' = [closed EXCEPT ![p] = TRUE]
      BY <1>7, CloseDoes DEF counts
    <2>2. CASE q # p
      <3>1. state'[q] = state[q] /\ told'[q] = told[q] /\ inbox'[q] = inbox[q] /\ closed'[q] = closed[q]
        BY <2>1, <2>2 DEF EmitState
      <3> QED
        BY <2>1, <3>1, ToldSame
    <2>3. CASE q = p
      <3>1. state'[q] = "closed" /\ told'[q] = "closed" /\ inbox'[q] = <<>>
        BY <2>1, <2>3 DEF EmitState, TypeOK
      <3> QED
        BY <3>1, ToldEmpty DEF ToldInv
    <2> QED
      BY <2>2, <2>3
  <1>8. ASSUME NEW p \in Peers, NEW s \in ConnectionState \ {"new"}, PcState(p, s) PROVE ToldInv(q)'
    <2>1. /\ mode = "webrtc" /\ UNCHANGED <<mode, told, closed, restarted>>
          /\ state' = [state EXCEPT ![p] = s]
          /\ inbox' = [inbox EXCEPT ![p] = Append(@, StateEvent(s))]
      BY <1>8 DEF PcState
    <2>2. CASE q # p
      <3>1. state'[q] = state[q] /\ inbox'[q] = inbox[q]
        BY <2>1, <2>2
      <3> QED
        BY <2>1, <3>1, ToldSame
    <2>3. CASE q = p
      <3>1. state'[q] = s /\ inbox'[q] = Append(inbox[q], StateEvent(s)) /\ inbox[q] \in Seq(Frames)
        BY <2>1, <2>3 DEF TypeOK
      <3>2. ToldOK(inbox'[q], s, told'[q])
        BY <1>8, <3>1, ToldEvent
      <3> QED
        BY <1>8, <2>1, <2>3, <3>1, <3>2 DEF ToldInv
    <2> QED
      BY <2>2, <2>3
  <1>9. ASSUME NEW p \in Peers, PcConnected(p) \/ PcDisconnected(p) \/ PcFailed(p) \/ PcLate(p)
        PROVE  ToldInv(q)'
    <2>1. \E s \in Reports : PcState(p, s)
      BY <1>9, SomeReport
    <2> QED
      BY <1>8, <2>1 DEF ConnectionState, Reports
  <1>10. ASSUME NEW p \in Peers, NEW i \in 1 .. Len(wire[p]), OnMessage(p, i) PROVE ToldInv(q)'
    <2>1. /\ mode = "webrtc" /\ UNCHANGED <<mode, closed, state, told, restarted>>
          /\ inbox' = inbox \/ inbox' = [inbox EXCEPT ![p] = Append(@, wire[p][i])]
      BY <1>10 DEF OnMessage, conn, counts
    <2>2. CASE inbox'[q] = inbox[q]
      BY <2>1, <2>2, ToldSame
    <2>3. CASE q = p /\ inbox'[q] = Append(inbox[q], wire[q][i])
      <3>1. inbox[q] \in Seq(Frames) /\ wire[q][i] \in Frames /\ wire[q][i].kind = "unit"
        BY <2>1, <2>3 DEF TypeOK, ModeInv
      <3>2. /\ Quiet(inbox[q]) => Quiet(inbox'[q])
            /\ ToldOK(inbox[q], state[q], told[q]) => ToldOK(inbox'[q], state[q], told[q])
        BY <2>3, <3>1, ToldUnit
      <3> QED
        BY <2>1, <3>2 DEF ToldInv
    <2> QED
      BY <2>1, <2>2, <2>3 DEF TypeOK
  <1> QED
    <2>1. CASE Next
      BY <1>2, <1>3, <1>4, <1>5, <1>6, <1>7, <1>9, <1>10, <2>1, DescribeDoes DEF Next
    <2> QED
      BY <1>1, <2>1

-----------------------------------------------------------------------------
\* Appending to the second of two sequences appends to both together.
LEMMA ConcatAppend ==
    ASSUME NEW S, NEW a \in Seq(S), NEW b \in Seq(S), NEW x \in S
    PROVE  a \o Append(b, x) = Append(a \o b, x)
  OBVIOUS

\* An empty sequence adds nothing.
LEMMA ConcatEmpty ==
    ASSUME NEW S, NEW a \in Seq(S)
    PROVE  a \o <<>> = a
  OBVIOUS

\* What is owed is a sequence of kinds as long as what was sent.
LEMMA OwedType ==
    ASSUME TypeOK, NEW q \in Peers
    PROVE  Owed(q) \in Seq(Kinds) /\ Len(Owed(q)) = Len(sent[Other(q)])
  <1>1. sent[Other(q)] \in Seq(Kinds) /\ Len(sent[Other(q)]) \in Nat
    BY PeerFacts DEF TypeOK
  <1>2. \A n \in 1 .. Len(sent[Other(q)]) : sent[Other(q)][n] \in Kinds
    BY <1>1
  <1> QED
    BY <1>1, <1>2 DEF Owed, Kinds

\* Unless something is sent to the peer it is owed the same.
LEMMA OwedSame ==
    ASSUME NEW q, mode' = mode, sent'[Other(q)] = sent[Other(q)]
    PROVE  Owed(q)' = Owed(q)
  BY DEF Owed

\* What is sent to the peer is owed after all before it.
LEMMA OwedSent ==
    ASSUME TypeOK, NEW q \in Peers, NEW kind \in Kinds, mode' = mode,
           sent'[Other(q)] = Append(sent[Other(q)], kind)
    PROVE  \E k \in Kinds : Owed(q)' = Append(Owed(q), k)
  <1> DEFINE s == sent[Other(q)]
             k == IF mode = "webrtc" THEN kind ELSE "data"
  <1>1. s \in Seq(Kinds) /\ Len(s) \in Nat
    BY PeerFacts DEF TypeOK
  <1>2. k \in Kinds
    BY DEF Kinds
  <1> HIDE DEF s
  <1>3. Len(Append(s, kind)) = Len(s) + 1
    BY <1>1
  <1>4. \A n \in 1 .. Len(s) + 1 : Append(s, kind)[n] = IF n = Len(s) + 1 THEN kind ELSE s[n]
    BY <1>1
  <1>5. Owed(q)' = [n \in 1 .. Len(s) + 1 |-> IF n = Len(s) + 1 THEN k ELSE Owed(q)[n]]
    <2>1. Owed(q)' = [n \in 1 .. Len(s) + 1 |->
              IF mode = "webrtc" THEN Append(s, kind)[n] ELSE "data"]
      BY <1>3 DEF Owed, s
    <2>2. \A n \in 1 .. Len(s) : Owed(q)[n] = IF mode = "webrtc" THEN s[n] ELSE "data"
      BY DEF Owed, s
    <2>3. \A n \in 1 .. Len(s) + 1 : n # Len(s) + 1 => n \in 1 .. Len(s)
      BY <1>1
    <2> QED
      BY <1>4, <2>1, <2>2, <2>3
  <1>6. Owed(q) \in Seq(Kinds) /\ Len(Owed(q)) = Len(s)
    BY OwedType DEF s
  <1> HIDE DEF k
  <1> DEFINE o == Owed(q)
  <1> HIDE DEF o
  <1>7. Append(o, k) = [n \in 1 .. Len(s) + 1 |-> IF n = Len(s) + 1 THEN k ELSE o[n]]
    <2> DEFINE z == [n \in 1 .. Len(s) + 1 |-> IF n = Len(s) + 1 THEN k ELSE o[n]]
    <2>1. o \in Seq(Kinds) /\ Len(o) = Len(s) /\ Len(s) \in Nat
      BY <1>1, <1>6 DEF o
    <2>2. z \in Seq(Kinds) /\ Len(z) = Len(s) + 1
      BY <1>2, <2>1
    <2>3. Append(o, k) \in Seq(Kinds) /\ Len(Append(o, k)) = Len(s) + 1
      BY <1>2, <2>1
    <2>4. \A n \in 1 .. Len(s) + 1 : Append(o, k)[n] = z[n]
      BY <1>2, <2>1
    <2> QED
      BY <2>1, <2>2, <2>3, <2>4, SeqEqual
  <1> QED
    BY <1>2, <1>5, <1>7 DEF o

\* The queues of a peer, and what came or is owed, are sequences of their kinds.
LEMMA ComeType ==
    ASSUME TypeOK, NEW q \in Peers
    PROVE  /\ got[q] \in Seq(1 .. MaxSend) /\ inbox[q] \in Seq(Frames) /\ wire[q] \in Seq(Frames)
           /\ Units(inbox[q]) \in Seq(1 .. MaxSend) /\ Come(q) \in Seq(1 .. MaxSend)
           /\ got[q] \in Seq(Nat) /\ Units(inbox[q]) \in Seq(Nat) /\ Come(q) \in Seq(Nat)
           /\ Owed(q) \in Seq(Kinds)
  <1>1. /\ got[q] \in Seq(1 .. MaxSend) /\ inbox[q] \in Seq(Frames) /\ wire[q] \in Seq(Frames)
        /\ Owed(q) \in Seq(Kinds)
    BY PeerFacts, OwedType DEF TypeOK
  <1>2. Units(inbox[q]) \in Seq(1 .. MaxSend)
    BY <1>1, UnitsType
  <1>3. Come(q) \in Seq(1 .. MaxSend)
    BY <1>1, <1>2, ConcatProperties DEF Come
  <1>4. ASSUME NEW s \in Seq(1 .. MaxSend) PROVE s \in Seq(Nat)
    BY PeerTransportAssumption
  <1> QED
    BY <1>1, <1>2, <1>3, <1>4

\* A frame arrives in the queue that poll drains.
LEMMA ComeAppend ==
    ASSUME TypeOK, NEW q \in Peers, NEW f \in Frames, got'[q] = got[q],
           inbox'[q] = Append(inbox[q], f)
    PROVE  Come(q)' = IF f.kind = "unit" THEN Append(Come(q), f.n) ELSE Come(q)
  <1>1. Units(inbox'[q]) = IF f.kind = "unit" THEN Append(Units(inbox[q]), f.n) ELSE Units(inbox[q])
    BY ComeType, UnitsAppend
  <1>2. CASE f.kind = "unit"
    <2>1. f.n \in 1 .. MaxSend
      BY <1>2, UnitFacts
    <2> DEFINE a == got[q]
               b == Units(inbox[q])
               x == f.n
    <2>2. a \in Seq(1 .. MaxSend) /\ b \in Seq(1 .. MaxSend)
      BY ComeType
    <2> HIDE DEF a, b, x
    <2>3. a \o Append(b, x) = Append(a \o b, x)
      BY <2>1, <2>2, ConcatAppend DEF x
    <2> USE DEF a, b, x
    <2> QED
      BY <1>1, <1>2, <2>3 DEF Come
  <1>3. CASE f.kind # "unit"
    BY <1>1, <1>3 DEF Come
  <1> QED
    BY <1>2, <1>3

\* A step in which nothing is sent to q and q is given nothing.
Calm(q) ==
    /\ mode' = mode /\ got'[q] = got[q] /\ inbox'[q] = inbox[q]
    /\ sent'[Other(q)] = sent[Other(q)]
    /\ Right(q)' => Right(q)
    /\ reader[q] = "done" => reader'[q] = "done"
    /\ \A r \in Peers : closed[r] => closed'[r]
    /\ LetsBoth(wire[q], wire'[q], closed'[Other(q)])

\* A calm step keeps the peer's close and its stream.
LEMMA CalmKeeps ==
    ASSUME TypeOK, NEW q \in Peers, CloseInv(q), StreamInv(q), Calm(q)
    PROVE  CloseInv(q)' /\ StreamInv(q)'
  <1> DEFINE w == wire[q]
             v == wire'[q]
  <1>1. w \in Seq(Frames) /\ CloseFrame.kind = "close" /\ Other(q) \in Peers
    BY ComeType, PeerFacts
  <1>2. PICK u \in Seq(Frames) : Lets(w, u, closed'[Other(q)]) /\ Lets(u, v, closed'[Other(q)])
    BY DEF Calm, LetsBoth
  <1> HIDE DEF w, v
  <1>3. CloseInv(q)'
    <2> SUFFICES ASSUME mode = "live"
                 PROVE  CloseOK(inbox[q], v, reader'[q] = "done", closed'[Other(q)])
      BY DEF CloseInv, Calm, v
    <2>1. CloseOK(inbox[q], w, reader[q] = "done", closed[Other(q)])
      BY DEF CloseInv, w
    <2>2. (reader[q] = "done" => reader'[q] = "done") /\ (closed[Other(q)] => closed'[Other(q)])
      BY <1>1 DEF Calm
    <2>3. CloseOK(inbox[q], u, reader'[q] = "done", closed'[Other(q)])
      BY <1>1, <1>2, <2>1, <2>2, CloseQuiet
    <2> QED
      BY <1>2, <2>3, CloseQuiet
  <1>4. StreamInv(q)'
    <2> SUFFICES ASSUME Right(q)
                 PROVE  StreamOK(Come(q), v, Owed(q), reader'[q] = "done", closed'[q])
      <3>1. Come(q)' = Come(q) /\ Owed(q)' = Owed(q)
        BY OwedSame DEF Calm, Come
      <3> QED
        BY <3>1 DEF StreamInv, Calm, v
    <2>1. StreamOK(Come(q), w, Owed(q), reader[q] = "done", closed[q])
      BY DEF StreamInv, w
    <2>2. (reader[q] = "done" => reader'[q] = "done") /\ (closed[q] => closed'[q])
      BY DEF Calm
    <2>3. Come(q) \in Seq(Nat) /\ Owed(q) \in Seq(Kinds)
      BY ComeType
    <2>4. Lets(w, u, TRUE) /\ Lets(u, v, TRUE)
      BY <1>2 DEF Lets
    <2> DEFINE Q == Come(q)
               from == Owed(q)
               done == reader[q] = "done"
               done2 == reader'[q] = "done"
               gone == closed[q]
               gone2 == closed'[q]
    <2>5. StreamOK(Q, w, from, done, gone) /\ Q \in Seq(Nat) /\ from \in Seq(Kinds)
          /\ (done => done2) /\ (gone => gone2)
      BY <2>1, <2>2, <2>3
    <2> HIDE DEF Q, from, done, done2, gone, gone2
    <2>6. StreamOK(Q, w, from, done2, gone2)
      BY <2>5, StreamLess
    <2>7. StreamOK(Q, u, from, done2, gone2)
      BY <1>1, <2>4, <2>5, <2>6, StreamQuiet
    <2>8. StreamOK(Q, v, from, done2, gone2)
      BY <1>2, <2>4, <2>5, <2>7, StreamQuiet
    <2> QED
      BY <2>8 DEF Q, from, done2, gone2
  <1> QED
    BY <1>3, <1>4

\* The steps that are calm for both ends.
LEMMA CalmSteps ==
    ASSUME TypeOK, NEW q \in Peers, ModeInv(q), PrintInv(q),
           \/ UNCHANGED vars \/ CreateOffer \/ CreateAnswer
           \/ AcceptConnection \/ AcceptTimeout \/ ConnectionReset
           \/ \E p \in Peers : Described(p) \/ RestartIce(p) \/ ChannelOpen(p)
    PROVE  Calm(q)
  <1>0. Lets(wire[q], wire'[q], closed'[Other(q)]) => LetsBoth(wire[q], wire'[q], closed'[Other(q)])
    BY ComeType, LetsOnce
  <1>1. CASE \/ UNCHANGED vars \/ CreateOffer \/ CreateAnswer \/ AcceptConnection
             \/ \E p \in Peers : RestartIce(p) \/ ChannelOpen(p)
    <2>1. UNCHANGED <<mode, got, inbox, sent, expected_fp, reader, closed, wire>>
      BY <1>1 DEF vars, CreateOffer, CreateAnswer, AcceptConnection, RestartIce, ChannelOpen,
                  conn, io, counts
    <2> QED
      BY <1>0, <2>1 DEF Calm, Right, Lets
  <1>2. CASE AcceptTimeout
    <2>1. /\ UNCHANGED <<mode, got, inbox, sent, expected_fp, reader, closed>>
          /\ wire' = wire \/ wire' = [wire EXCEPT !["answerer"] = Append(@, Eof)]
      BY <1>2 DEF AcceptTimeout, conn, counts
    <2>2. wire'[q] = wire[q] \/ wire'[q] = Append(wire[q], Eof)
      BY <2>1 DEF TypeOK
    <2> QED
      BY <1>0, <2>1, <2>2, PeerFacts DEF Calm, Right, Lets
  <1>3. CASE ConnectionReset
    <2>1. UNCHANGED <<mode, got, inbox, sent, expected_fp, reader, closed>>
      BY <1>3 DEF ConnectionReset, conn, counts
    <2>2. PICK cut \in [Peers -> 0 .. 2] :
              /\ \A p \in Peers : cut[p] <= Len(wire[p])
              /\ wire' = [p \in Peers |->
                     IF reader[p] = "run" \/ accept \in {"dialled", "got"}
                     THEN Append(SubSeq(wire[p], 1, Len(wire[p]) - cut[p]), Eof)
                     ELSE wire[p]]
      BY <1>3 DEF ConnectionReset
    <2>3. Len(wire[q]) - cut[q] \in 0 .. Len(wire[q])
      <3>1. Len(wire[q]) \in Nat /\ cut[q] \in 0 .. 2 /\ cut[q] <= Len(wire[q])
        BY <2>2 DEF TypeOK
      <3> QED
        BY <3>1
    <2> QED
      BY <1>0, <2>1, <2>2, <2>3 DEF Calm, Right, Lets
  <1>4. ASSUME NEW p \in Peers, Described(p) PROVE Calm(q)
    <2>1. UNCHANGED <<mode, got, inbox, sent, closed>> /\ Joins(p) /\ Learns(p)
      BY <1>4 DEF Described
    <2>2. Right(q)' => Right(q)
      <3> SUFFICES ASSUME mode = "live", expected_fp[q] = "stale" PROVE expected_fp'[q] = "stale"
        BY <2>1 DEF Right
      <3>1. expected_fp[q] = remote_desc[q]
        BY DEF PrintInv
      <3>2. expected_fp' = expected_fp \/
            (remote_desc[p] = "none" /\ \E fp : expected_fp' = [expected_fp EXCEPT ![p] = fp])
        BY <2>1 DEF Learns
      <3> QED
        BY <3>1, <3>2 DEF TypeOK
    <2>3. CASE UNCHANGED <<accept, stream, reader, wire>>
      BY <1>0, <2>1, <2>2, <2>3 DEF Calm, Lets
    <2>4. CASE mode = "live" /\ stream[p] = "none" /\ AttachStream(p)
      <3>1. reader[q] = "done" => reader'[q] = "done"
        BY <2>4 DEF AttachStream, ModeInv
      <3>2. wire'[q] = wire[q] \/ wire'[q] = Append(wire[q], Hello)
        BY <2>4 DEF AttachStream, TypeOK
      <3> QED
        BY <1>0, <2>1, <2>2, <3>1, <3>2, PeerFacts DEF Calm, Lets
    <2> QED
      BY <2>1, <2>3, <2>4 DEF Joins
  <1> QED
    BY <1>1, <1>2, <1>3, <1>4

-----------------------------------------------------------------------------
\* A queue is taken whole: nothing that waited is lost.
LEMMA EmptyStream ==
    ASSUME NEW Q, NEW from, InOrder(Q, from), NEW done, NEW gone, done \/ gone \/ AllOf(Q, <<>>, from)
    PROVE  StreamOK(Q, <<>>, from, done, gone)
  <1>1. Len(<<>>) = 0
    OBVIOUS
  <1> QED
    BY <1>1 DEF StreamOK, Ahead

\* Poll takes the whole queue, with a close in it or not.
LEMMA EmptyClose ==
    ASSUME NEW q, NEW w, NEW done, NEW gone, CloseOK(q, w, done, gone)
    PROVE  CloseOK(<<>>, w, done, gone)
  <1>1. Len(<<>>) = 0
    OBVIOUS
  <1> QED
    BY <1>1 DEF CloseOK

\* A step of the other end, or one that leaves the peer's queues alone.
LEMMA CalmElse ==
    ASSUME TypeOK, NEW q \in Peers, NEW p \in Peers,
           \/ p # q /\ (\/ Reader(p) \/ Poll(p) \/ Close(p) \/ (\E s : PcState(p, s))
                        \/ \E i \in 1 .. Len(wire[p]) : OnMessage(p, i))
           \/ p = q /\ \E kind \in Kinds : Send(p, kind)
    PROVE  Calm(q)
  <1>0. Lets(wire[q], wire'[q], closed'[Other(q)]) => LetsBoth(wire[q], wire'[q], closed'[Other(q)])
    BY ComeType, LetsOnce, SMTT(30)
  <1>1. CASE p # q /\ (\/ Reader(p) \/ Poll(p) \/ (\E s : PcState(p, s))
                       \/ \E i \in 1 .. Len(wire[p]) : OnMessage(p, i))
    <2>1. UNCHANGED <<mode, expected_fp, closed, sent>>
      BY <1>1 DEF Reader, Poll, PcState, OnMessage, conn, counts
    <2>0. p # q
      BY <1>1
    <2>2. /\ wire'[q] = wire[q] /\ inbox'[q] = inbox[q] /\ reader'[q] = reader[q]
          /\ got'[q] = got[q]
      <3>1. CASE Reader(p)
        BY <1>1, <3>1 DEF Reader, counts
      <3>2. CASE PollMock(p)
        BY <1>1, <3>2 DEF PollMock
      <3>3. CASE PollLive(p)
        <4>1. /\ inbox' = [inbox EXCEPT ![p] = <<>>] /\ UNCHANGED <<reader, wire>>
              /\ \E x : got' = [got EXCEPT ![p] = x]
          BY <3>3, PollLiveDoes
        <4> QED
          BY <2>0, <4>1
      <3>4. CASE PollWebrtc(p)
        BY <1>1, <3>4 DEF PollWebrtc
      <3>5. CASE \E s : PcState(p, s)
        BY <1>1, <3>5 DEF PcState
      <3>6. ASSUME NEW i \in 1 .. Len(wire[p]), OnMessage(p, i)
            PROVE  /\ wire'[q] = wire[q] /\ inbox'[q] = inbox[q] /\ reader'[q] = reader[q]
                   /\ got'[q] = got[q]
        <4>1. /\ reader' = reader /\ got' = got /\ wire' = [wire EXCEPT ![p] = RemoveAt(@, i)]
              /\ inbox' = inbox \/ inbox' = [inbox EXCEPT ![p] = Append(@, wire[p][i])]
          BY <3>6 DEF OnMessage, counts
        <4>2. inbox'[q] = inbox[q]
          BY <2>0, <4>1 DEF TypeOK
        <4>3. wire'[q] = wire[q]
          BY <2>0, <4>1
        <4> QED
          BY <4>1, <4>2, <4>3
      <3> QED
        BY <1>1, <3>1, <3>2, <3>3, <3>4, <3>5, <3>6 DEF Poll
    <2> QED
      BY <1>0, <2>1, <2>2 DEF Calm, Right, Lets
  <1>2. CASE p # q /\ Close(p)
    <2>1. /\ closed' = [closed EXCEPT ![p] = TRUE] /\ inbox' = [inbox EXCEPT ![p] = <<>>]
          /\ reader' = [reader EXCEPT ![p] = IF @ = "none" THEN @ ELSE "done"]
          /\ UNCHANGED <<mode, expected_fp, sent, got>>
      BY <1>2, CloseDoes DEF counts
    <2>2. q = Other(p) /\ p = Other(q)
      BY <1>2 DEF Peers, Other
    <2>3. closed'[Other(q)] = TRUE
      BY <2>1, <2>2 DEF TypeOK
    <2>4. /\ inbox'[q] = inbox[q] /\ reader'[q] = reader[q]
          /\ \A r \in Peers : closed[r] => closed'[r]
      BY <1>2, <2>1
    <2>5. \/ wire'[q] = wire[q]
          \/ wire'[q] = Append(Append(wire[q], CloseFrame), Eof)
          \/ wire'[q] = Append(wire[q], Eof)
      BY <1>2, <2>2, CloseDoes
    <2>6. LetsBoth(wire[q], wire'[q], TRUE)
      <3>1. wire[q] \in Seq(Frames)
        BY ComeType
      <3>2. CASE wire'[q] = wire[q] \/ wire'[q] = Append(wire[q], Eof)
        <4>1. Lets(wire[q], wire'[q], TRUE)
          BY <3>2, PeerFacts DEF Lets
        <4> QED
          BY <3>1, <4>1, LetsOnce
      <3>3. CASE wire'[q] = Append(Append(wire[q], CloseFrame), Eof)
        <4> DEFINE u == Append(wire[q], CloseFrame)
        <4>1. u \in Seq(Frames)
          BY <3>1, PeerFacts
        <4>2. Lets(wire[q], u, TRUE) /\ Lets(u, wire'[q], TRUE)
          BY <3>3, PeerFacts DEF Lets
        <4> QED
          BY <4>1, <4>2 DEF LetsBoth
      <3> QED
        BY <2>5, <3>2, <3>3
    <2> QED
      BY <2>1, <2>3, <2>4, <2>6 DEF Calm, Right
  <1>3. CASE p = q /\ \E kind \in Kinds : Send(p, kind)
    <2>1. PICK kind \in Kinds : Send(q, kind)
      BY <1>3
    <2>2. /\ UNCHANGED <<mode, expected_fp, closed, inbox, reader, got>>
          /\ sent' = [sent EXCEPT ![q] = Append(@, kind)] /\ wire'[q] = wire[q]
      BY <2>1, SendType, PeerFacts DEF Send, conn
    <2>3. sent'[Other(q)] = sent[Other(q)]
      BY <2>2, PeerFacts
    <2> QED
      BY <1>0, <2>2, <2>3 DEF Calm, Right, Lets
  <1> QED
    BY <1>1, <1>2, <1>3

\* The reader hands over what it reads, in order.
LEMMA ReaderKeeps ==
    ASSUME TypeOK, NEW q \in Peers, CloseInv(q), StreamInv(q), Reader(q)
    PROVE  CloseInv(q)' /\ StreamInv(q)'
  <1> DEFINE w == wire[q]
             f == IF Head(w) = Eof THEN CloseFrame ELSE Head(w)
             from == Owed(q)
  <1>1. /\ w \in Seq(Frames) /\ w # <<>> /\ inbox[q] \in Seq(Frames) /\ from \in Seq(Kinds)
        /\ Come(q) \in Seq(Nat)
    BY ComeType DEF Reader
  <1>2. /\ Head(w) \in Frames /\ Head(w) = w[1] /\ f \in Frames /\ 1 \in 1 .. Len(w)
        /\ Tail(w) \in Seq(Frames) /\ Len(Tail(w)) = Len(w) - 1 /\ Len(w) \in Nat
        /\ \A k \in 1 .. Len(w) - 1 : Tail(w)[k] = w[k + 1]
    BY <1>1, PeerFacts
  <1>3. /\ mode = "live" /\ reader[q] = "run"
        /\ wire'[q] = Tail(w) /\ inbox'[q] = Append(inbox[q], f)
        /\ reader'[q] = IF Head(w) = Eof THEN "done" ELSE "run"
        /\ UNCHANGED <<mode, expected_fp, closed, sent, got>>
    BY DEF Reader, TypeOK, conn, counts
  <1>4. CloseInv(q)'
    <2>1. CloseOK(inbox[q], w, FALSE, closed[Other(q)])
      BY <1>3 DEF CloseInv
    <2>2. CloseOK(Append(inbox[q], f), Tail(w), Head(w) = Eof, closed[Other(q)])
      BY <1>1, <1>2, <2>1, CloseRead
    <2>3. reader'[q] = "done" <=> Head(w) = Eof
      BY <1>3
    <2> HIDE DEF w, f
    <2>4. CloseOK(Append(inbox[q], f), Tail(w), reader'[q] = "done", closed[Other(q)])
      BY <2>2, <2>3 DEF CloseOK
    <2> QED
      BY <1>3, <2>4 DEF CloseInv
  <1>5. StreamInv(q)'
    <2> SUFFICES ASSUME Right(q)
                 PROVE  StreamOK(Come(q)', Tail(w), from, reader'[q] = "done", closed[q])
      BY <1>3, OwedSame DEF StreamInv, Right
    <2>1. StreamOK(Come(q), w, from, FALSE, closed[q])
      BY <1>3 DEF StreamInv
    <2>2. Come(q)' = IF f.kind = "unit" THEN Append(Come(q), f.n) ELSE Come(q)
      BY <1>2, <1>3, ComeAppend
    <2>3. CASE Head(w) = Eof
      <3>1. Come(q)' = Come(q) /\ reader'[q] = "done"
        BY <1>3, <2>2, <2>3, PeerFacts
      <3> QED
        BY <2>1, <3>1 DEF StreamOK
    <2>4. CASE Head(w) # Eof
      <3> DEFINE R == Come(q)'
      <3>1. f = w[1] /\ reader'[q] # "done"
        BY <1>2, <1>3, <2>4
      <3>2. Without(w, 1, Tail(w))
        BY <1>2 DEF Without
      <3>3. Takes(Come(q), w, 1, from, R)
        <4>1. \A j \in 1 .. 1 - 1 : FALSE
          OBVIOUS
        <4>2. w[1].kind = "unit" => Alive(w, 1)
          BY <4>1 DEF Alive
        <4>3. R = IF w[1].kind = "unit" THEN Append(Come(q), w[1].n) ELSE Come(q)
          BY <2>2, <3>1
        <4> HIDE DEF R, f, w, from
        <4> QED
          BY <4>1, <4>2, <4>3 DEF Takes
      <3>4. w[1] # Eof
        BY <1>2, <2>4
      <3> HIDE DEF R, w, f, from
      <3>5. StreamOK(R, Tail(w), from, FALSE, closed[q])
        BY <1>1, <1>2, <2>1, <3>2, <3>3, <3>4, StreamTaken
      <3> QED
        BY <3>1, <3>5 DEF R, StreamOK
    <2> QED
      BY <2>3, <2>4
  <1> QED
    BY <1>4, <1>5

\* The whole queue was taken.
LEMMA ComeTaken ==
    ASSUME TypeOK, NEW q \in Peers, inbox'[q] = <<>>, got'[q] = Come(q)
    PROVE  Come(q)' = Come(q)
  <1>1. Come(q)' = got'[q] \o <<>>
    BY UnitsEmpty DEF Come
  <1>2. Come(q) \in Seq(Nat)
    BY ComeType
  <1>3. Come(q) \o <<>> = Come(q)
    BY <1>2, ConcatEmpty
  <1> QED
    BY <1>1, <1>3

\* The mock's poll drains the channels.
LEMMA PollMockKeeps ==
    ASSUME TypeOK, NEW q \in Peers, ModeInv(q), StreamInv(q), Poll(q), PollMock(q)
    PROVE  CloseInv(q)' /\ StreamInv(q)'
  <1> DEFINE w == wire[q]
             from == Owed(q)
  <1>1. /\ mode = "mock" /\ reader[q] = "none" /\ inbox[q] = <<>>
        /\ \A i \in 1 .. Len(w) : w[i].kind = "unit"
    BY DEF PollMock, ModeInv
  <1>2. /\ w \in Seq(Frames) /\ from \in Seq(Kinds) /\ got[q] \in Seq(Nat) /\ Units(w) \in Seq(Nat)
    <2>1. w \in Seq(Frames) /\ from \in Seq(Kinds) /\ got[q] \in Seq(Nat)
      BY ComeType
    <2>2. Units(w) \in Seq(1 .. MaxSend)
      BY <2>1, UnitsType
    <2>3. Units(w) \in Seq(Nat)
      BY <2>2, PeerTransportAssumption
    <2> QED
      BY <2>1, <2>3
  <1>3. /\ UNCHANGED <<mode, expected_fp, closed, sent, reader, inbox>>
        /\ got'[q] = got[q] \o Units(w) /\ wire'[q] = <<>>
    BY DEF Poll, PollMock, TypeOK
  <1>4. Come(q) = got[q]
    BY <1>1, <1>2, UnitsEmpty, ConcatEmpty DEF Come
  <1>5. Come(q)' = got[q] \o Units(w)
    <2>1. got[q] \o Units(w) \in Seq(Nat)
      BY <1>2, ConcatProperties
    <2> QED
      BY <1>1, <1>3, <2>1, UnitsEmpty, ConcatEmpty DEF Come
  <1>6. CloseInv(q)'
    BY <1>1, <1>3 DEF CloseInv
  <1>7. StreamOK(got[q], w, from, FALSE, closed[q])
    BY <1>1, <1>4 DEF StreamInv, Right
  <1>8. InOrder(got[q], from) /\ Ahead(got[q], w, from)
    BY <1>7 DEF StreamOK
  <1>9. ~closed[q] => AllOf(got[q], w, from)
    <2>1. \A j \in 1 .. Len(w) : w[j] # Eof
      BY <1>1, PeerFacts
    <2> QED
      BY <1>7, <2>1 DEF StreamOK
  <1> HIDE DEF w, from
  <1>10. /\ InOrder(got[q] \o Units(w), from)
         /\ AllOf(got[q], w, from) => AllOf(got[q] \o Units(w), <<>>, from)
    BY <1>1, <1>2, <1>8, TakenWhole
  <1>11. StreamOK(Come(q)', <<>>, from, FALSE, closed[q])
    BY <1>5, <1>9, <1>10, EmptyStream
  <1>12. StreamInv(q)'
    BY <1>1, <1>3, <1>11, OwedSame DEF StreamInv, from
  <1> QED
    BY <1>6, <1>12

\* The TCP transport's poll drains the queue up to a close, behind which is nothing.
LEMMA PollLiveKeeps ==
    ASSUME TypeOK, NEW q \in Peers, CloseInv(q), StreamInv(q), Poll(q), PollLive(q)
    PROVE  CloseInv(q)' /\ StreamInv(q)'
  <1> DEFINE b == inbox[q]
             n == StopAt(q, b)
  <1>1. /\ mode = "live" /\ inbox'[q] = <<>> /\ got'[q] = got[q] \o Units(SubSeq(b, 1, n))
        /\ UNCHANGED <<reader, wire>>
    <2>1. /\ mode = "live" /\ inbox' = [inbox EXCEPT ![q] = <<>>] /\ UNCHANGED <<reader, wire>>
          /\ got' = [got EXCEPT ![q] = @ \o Units(SubSeq(b, 1, n))]
      BY PollLiveDoes
    <2> HIDE DEF n
    <2> QED
      BY <2>1 DEF TypeOK
  <1>2. UNCHANGED <<mode, expected_fp, closed, sent>>
    BY DEF Poll
  <1>3. CloseOK(b, wire[q], reader[q] = "done", closed[Other(q)])
    BY <1>1 DEF CloseInv
  <1>4. CloseInv(q)'
    <2>1. CloseOK(<<>>, wire[q], reader[q] = "done", closed[Other(q)])
      BY <1>3, EmptyClose
    <2> QED
      BY <1>1, <1>2, <2>1 DEF CloseInv
  <1>5. ASSUME Right(q) PROVE Units(SubSeq(b, 1, n)) = Units(b)
    <2>1. b \in Seq(Frames) /\ Len(b) \in Nat
      BY ComeType
    <2>2. \A f : ~BadHello(q, f)
      BY <1>1, <1>5 DEF BadHello, Right, TypeOK
    <2>3. /\ n \in 0 .. Len(b)
          /\ n = Len(b) \/ (n \in 1 .. Len(b) /\ b[n] = CloseFrame)
      <3>1. n \in 0 .. Len(b) /\ (Stops(q, b) # {} => n \in Stops(q, b))
        BY <2>1, StopIs
      <3>2. Stops(q, b) = {} => n = Len(b)
        BY DEF StopAt
      <3> HIDE DEF n
      <3> QED
        BY <2>2, <3>1, <3>2 DEF Stops
    <2> HIDE DEF n
    <2>4. \A i \in n + 1 .. Len(b) : b[i].kind # "unit"
      <3>1. CASE n = Len(b)
        BY <2>1, <3>1
      <3>2. CASE n \in 1 .. Len(b) /\ b[n] = CloseFrame
        BY <1>3, <3>2 DEF CloseOK
      <3> QED
        BY <2>3, <3>1, <3>2
    <2> QED
      BY <2>1, <2>3, <2>4, UnitsPrefix
  <1>6. StreamInv(q)'
    <2> SUFFICES ASSUME Right(q)
                 PROVE  StreamOK(Come(q)', wire[q], Owed(q), reader[q] = "done", closed[q])
      BY <1>1, <1>2, OwedSame DEF StreamInv, Right
    <2>1. got'[q] = Come(q)
      BY <1>1, <1>5 DEF Come
    <2>2. Come(q)' = Come(q)
      BY <1>1, <2>1, ComeTaken
    <2> QED
      BY <2>2 DEF StreamInv
  <1> QED
    BY <1>4, <1>6

\* The webrtc transport's poll drains the queue.
LEMMA PollWebrtcKeeps ==
    ASSUME TypeOK, NEW q \in Peers, StreamInv(q), Poll(q), PollWebrtc(q)
    PROVE  CloseInv(q)' /\ StreamInv(q)'
  <1>1. /\ mode = "webrtc" /\ inbox'[q] = <<>> /\ got'[q] = Come(q) /\ UNCHANGED <<reader, wire>>
    BY DEF PollWebrtc, TypeOK, Come
  <1>2. UNCHANGED <<mode, expected_fp, closed, sent>>
    BY DEF Poll
  <1>3. Come(q)' = Come(q)
    BY <1>1, ComeTaken
  <1> QED
    BY <1>1, <1>2, <1>3, OwedSame DEF CloseInv, StreamInv, Right

\* A peer that closes drops what it was not given yet.
LEMMA CloseKeeps ==
    ASSUME TypeOK, NEW q \in Peers, StreamInv(q), Close(q)
    PROVE  CloseInv(q)' /\ StreamInv(q)'
  <1>1. /\ inbox' = [inbox EXCEPT ![q] = <<>>] /\ closed' = [closed EXCEPT ![q] = TRUE]
        /\ UNCHANGED <<mode, expected_fp, sent, got>> /\ wire'[q] = <<>>
    BY CloseDoes DEF counts
  <1>2. inbox'[q] = <<>> /\ closed'[q] = TRUE
    BY <1>1 DEF TypeOK
  <1>3. CloseInv(q)'
    <2>1. Len(<<>>) = 0
      OBVIOUS
    <2> QED
      BY <1>1, <1>2, <2>1 DEF CloseInv, CloseOK
  <1>4. ASSUME Right(q) PROVE StreamOK(Come(q)', <<>>, Owed(q), reader'[q] = "done", TRUE)
    <2>1. /\ got[q] \in Seq(Nat) /\ Units(inbox[q]) \in Seq(Nat) /\ Owed(q) \in Seq(Kinds)
      BY ComeType
    <2>2. InOrder(got[q] \o Units(inbox[q]), Owed(q))
      BY <1>4 DEF StreamInv, StreamOK, Come
    <2>3. InOrder(got[q], Owed(q))
      BY <2>1, <2>2, OrderPrefix
    <2>4. Come(q)' = got[q]
      BY <1>1, <1>2, <2>1, UnitsEmpty, ConcatEmpty DEF Come
    <2> QED
      BY <2>3, <2>4, EmptyStream
  <1>5. StreamInv(q)'
    BY <1>1, <1>2, <1>4, OwedSame DEF StreamInv, Right
  <1> QED
    BY <1>3, <1>5

\* The other end sends a unit.
LEMMA SendKeeps ==
    ASSUME TypeOK, NEW q \in Peers, CloseInv(q), StreamInv(q), NEW kind \in Kinds, Send(Other(q), kind)
    PROVE  CloseInv(q)' /\ StreamInv(q)'
  <1> DEFINE p == Other(q)
             from == Owed(q)
             w == wire[q]
             f == Unit(Len(from) + 1)
  <1>1. p \in Peers /\ Other(p) = q
    BY PeerFacts
  <1>2. /\ UNCHANGED <<mode, expected_fp, closed, reader, inbox, got>> /\ ~closed[p]
        /\ sent'[p] = Append(sent[p], kind)
        /\ wire'[q] = IF closed[q] THEN w ELSE Append(w, f)
        /\ f \in Frames
    <2>1. /\ sent' = [sent EXCEPT ![p] = Append(@, kind)]
          /\ wire' = [wire EXCEPT ![q] = IF closed[q] THEN @ ELSE Append(@, f)]
          /\ f \in Frames
      <3>1. Len(Owed(q)) = Len(sent[p])
        BY OwedType
      <3> QED
        BY <1>1, <3>1, SendType
    <2>2. UNCHANGED <<mode, expected_fp, closed, reader, inbox, got>> /\ ~closed[p]
      BY DEF Send, CanSend, conn
    <2> HIDE DEF p, f
    <2> QED
      BY <1>1, <2>1, <2>2 DEF TypeOK
  <1>3. w \in Seq(Frames) /\ from \in Seq(Kinds) /\ Come(q) \in Seq(Nat)
    BY ComeType
  <1>4. CloseInv(q)'
    <2> SUFFICES ASSUME mode = "live"
                 PROVE  CloseOK(inbox[q], wire'[q], reader[q] = "done", closed[p])
      BY <1>2 DEF CloseInv
    <2>1. CloseOK(inbox[q], w, reader[q] = "done", closed[p])
      BY DEF CloseInv
    <2>2. CASE closed[q]
      BY <1>2, <2>1, <2>2
    <2>3. CASE ~closed[q]
      <3> HIDE DEF w, p, from
      <3> QED
        BY <1>2, <1>3, <2>1, <2>3, CloseSent
    <2> QED
      BY <2>2, <2>3
  <1>k. PICK k \in Kinds : Owed(q)' = Append(from, k)
    <2> HIDE DEF p
    <2>1. sent'[Other(q)] = Append(sent[Other(q)], kind)
      BY <1>2 DEF p
    <2> QED
      BY <1>2, <2>1, OwedSent
  <1>5. ASSUME Right(q) PROVE StreamOK(Come(q), wire'[q], Append(from, k), reader[q] = "done", closed[q])
    <2>1. StreamOK(Come(q), w, from, reader[q] = "done", closed[q])
      BY <1>5 DEF StreamInv
    <2> HIDE DEF w, p, from
    <2> QED
      BY <1>2, <1>3, <2>1, StreamSent
  <1>6. StreamInv(q)'
    <2>1. Come(q)' = Come(q)
      BY <1>2 DEF Come
    <2> HIDE DEF w, from
    <2> QED
      BY <1>2, <1>5, <1>k, <2>1 DEF StreamInv, Right
  <1> QED
    BY <1>4, <1>6

\* The runtime queues a state event.
LEMMA PcKeeps ==
    ASSUME TypeOK, NEW q \in Peers, StreamInv(q), NEW s \in ConnectionState, PcState(q, s)
    PROVE  CloseInv(q)' /\ StreamInv(q)'
  <1>1. /\ mode = "webrtc" /\ UNCHANGED <<mode, expected_fp, closed, reader, wire, sent, got>>
        /\ inbox'[q] = Append(inbox[q], StateEvent(s))
    BY DEF PcState, TypeOK
  <1>2. StateEvent(s) \in Frames /\ StateEvent(s).kind = "state"
    BY PeerFacts DEF StateEvent
  <1>3. Come(q)' = Come(q)
    BY <1>1, <1>2, ComeAppend
  <1> QED
    BY <1>1, <1>3, OwedSame DEF CloseInv, StreamInv, Right

\* A message or a sample arrives, or a sample is lost.
LEMMA MessageKeeps ==
    ASSUME TypeOK, NEW q \in Peers, ModeInv(q), StreamInv(q), NEW i \in 1 .. Len(wire[q]), OnMessage(q, i)
    PROVE  CloseInv(q)' /\ StreamInv(q)'
  <1> DEFINE w == wire[q]
             v == RemoveAt(w, i)
             from == Owed(q)
             R == Come(q)'
  <1>1. /\ w \in Seq(Frames) /\ from \in Seq(Kinds) /\ Come(q) \in Seq(Nat) /\ w[i] \in Frames
        /\ v \in Seq(Frames) /\ Without(w, i, v)
    <2>1. w \in Seq(Frames) /\ from \in Seq(Kinds) /\ Come(q) \in Seq(Nat)
      BY ComeType
    <2> QED
      BY <2>1, RemoveAtIs
  <1>2. /\ mode = "webrtc" /\ reader[q] = "none" /\ \A j \in 1 .. Len(w) : w[j].kind = "unit"
    BY DEF OnMessage, ModeInv
  <1>3. UNCHANGED <<mode, expected_fp, closed, reader, sent, got>> /\ wire'[q] = v
    BY DEF OnMessage, TypeOK, conn, counts
  <1>4. /\ from[w[i].n] = "media" \/ \A j \in 1 .. i - 1 : from[w[j].n] = "media"
        /\ inbox'[q] = Append(inbox[q], w[i]) \/ (from[w[i].n] = "media" /\ inbox'[q] = inbox[q])
    <2>1. from = sent[Other(q)]
      <3>1. sent[Other(q)] \in Seq(Kinds)
        BY PeerFacts DEF TypeOK
      <3> QED
        BY <1>2, <3>1 DEF Owed
    <2> QED
      BY <2>1 DEF OnMessage, TypeOK
  <1>5. R = Append(Come(q), w[i].n) \/ (R = Come(q) /\ from[w[i].n] = "media")
    <2>1. CASE inbox'[q] = Append(inbox[q], w[i])
      BY <1>1, <1>2, <1>3, <2>1, ComeAppend
    <2>2. CASE from[w[i].n] = "media" /\ inbox'[q] = inbox[q]
      BY <1>3, <2>2 DEF Come
    <2> QED
      BY <1>4, <2>1, <2>2
  <1>6. Alive(w, i)
    <2>1. \A j \in 1 .. i - 1 : j \in 1 .. Len(w)
      BY <1>1
    <2> QED
      BY <1>2, <2>1, PeerFacts DEF Alive
  <1> HIDE DEF w, v, from, R
  <1>7. Takes(Come(q), w, i, from, R)
    BY <1>4, <1>5, <1>6 DEF Takes
  <1>8. StreamOK(Come(q), w, from, FALSE, closed[q])
    BY <1>2 DEF StreamInv, Right, w, from
  <1>9. w[i] # Eof
    BY <1>6, PeerFacts DEF Alive
  <1>10. StreamOK(R, v, from, FALSE, closed[q])
    BY <1>1, <1>7, <1>8, <1>9, StreamTaken
  <1> QED
    BY <1>2, <1>3, <1>10, OwedSame DEF CloseInv, StreamInv, R, from

-----------------------------------------------------------------------------
\* Every step keeps the close and the stream of either peer.
LEMMA QueuesStep ==
    ASSUME TypeOK, NEW q \in Peers, ModeInv(q), PrintInv(q), CloseInv(q), StreamInv(q), [Next]_vars
    PROVE  CloseInv(q)' /\ StreamInv(q)'
  <1>0. Calm(q) => CloseInv(q)' /\ StreamInv(q)'
    BY CalmKeeps
  <1>1. CASE \/ UNCHANGED vars \/ CreateOffer \/ CreateAnswer
             \/ AcceptConnection \/ AcceptTimeout \/ ConnectionReset
             \/ \E p \in Peers : Described(p) \/ RestartIce(p) \/ ChannelOpen(p)
    BY <1>0, <1>1, CalmSteps
  <1>2. ASSUME NEW p \in Peers, Reader(p) PROVE CloseInv(q)' /\ StreamInv(q)'
    BY <1>0, <1>2, CalmElse, ReaderKeeps
  <1>3. ASSUME NEW p \in Peers, Poll(p) PROVE CloseInv(q)' /\ StreamInv(q)'
    <2>1. CASE p # q
      BY <1>0, <1>3, <2>1, CalmElse
    <2>2. CASE p = q
      <3>1. PollMock(q) \/ PollLive(q) \/ PollWebrtc(q)
        BY <1>3, <2>2 DEF Poll
      <3> QED
        BY <1>3, <2>2, <3>1, PollMockKeeps, PollLiveKeeps, PollWebrtcKeeps
    <2> QED
      BY <2>1, <2>2
  <1>4. ASSUME NEW p \in Peers, Close(p) PROVE CloseInv(q)' /\ StreamInv(q)'
    BY <1>0, <1>4, CalmElse, CloseKeeps
  <1>5. ASSUME NEW p \in Peers, NEW kind \in Kinds, Send(p, kind) PROVE CloseInv(q)' /\ StreamInv(q)'
    <2>1. p = q \/ p = Other(q)
      BY DEF Peers, Other
    <2>2. CASE p = q
      BY <1>0, <1>5, <2>2, CalmElse
    <2>3. CASE p = Other(q)
      BY <1>5, <2>3, SendKeeps
    <2> QED
      BY <2>1, <2>2, <2>3
  <1>6. ASSUME NEW p \in Peers, NEW s \in ConnectionState, PcState(p, s)
        PROVE  CloseInv(q)' /\ StreamInv(q)'
    BY <1>0, <1>6, CalmElse, PcKeeps
  <1>7. ASSUME NEW p \in Peers, PcConnected(p) \/ PcDisconnected(p) \/ PcFailed(p) \/ PcLate(p)
        PROVE  CloseInv(q)' /\ StreamInv(q)'
    <2>1. \E s \in Reports : PcState(p, s)
      BY <1>7, SomeReport
    <2> QED
      BY <1>6, <2>1 DEF ConnectionState, Reports
  <1>8. ASSUME NEW p \in Peers, NEW i \in 1 .. Len(wire[p]), OnMessage(p, i)
        PROVE  CloseInv(q)' /\ StreamInv(q)'
    <2>1. CASE p # q
      BY <1>0, <1>8, <2>1, CalmElse
    <2>2. CASE p = q
      BY <1>8, <2>2, MessageKeeps
    <2> QED
      BY <2>1, <2>2
  <1> QED
    <2>1. CASE Next
      BY <1>1, <1>2, <1>3, <1>4, <1>5, <1>7, <1>8, <2>1, DescribeDoes DEF Next
    <2> QED
      BY <1>1, <2>1

\* The invariant holds in the beginning.
LEMMA InvariantInit == Init => IInv
  <1> SUFFICES ASSUME Init PROVE IInv
    OBVIOUS
  <1>1. TypeOK
    BY TypeInit
  <1> SUFFICES ASSUME NEW p \in Peers PROVE PeerInv(p)
    BY <1>1 DEF IInv
  <1>2. /\ reader[p] = "none" /\ accept = "none" /\ wire[p] = <<>> /\ inbox[p] = <<>>
        /\ ~closed[p] /\ state[p] = "new" /\ told[p] = "new"
        /\ expected_fp[p] = "none" /\ remote_desc[p] = "none" /\ remote_fp[p] = "none"
        /\ sent[Other(p)] = <<>> /\ got[p] = <<>>
    BY PeerFacts DEF Init, Both
  <1>3. Len(<<>>) = 0
    OBVIOUS
  <1>4. ModeInv(p)
    BY <1>2, <1>3 DEF ModeInv
  <1>5. PrintInv(p)
    BY <1>2 DEF PrintInv
  <1>6. ToldInv(p)
    BY <1>2, ToldEmpty DEF ToldInv
  <1>7. CloseInv(p)
    BY <1>2, <1>3 DEF CloseInv, CloseOK
  <1>8. StreamInv(p)
    <2>1. Come(p) = <<>>
      BY <1>2, UnitsEmpty DEF Come
    <2>2. InOrder(<<>>, <<>>) /\ Ahead(<<>>, <<>>, <<>>) /\ AllOf(<<>>, <<>>, <<>>)
      BY <1>3 DEF InOrder, Ahead, AllOf
    <2>3. StreamOK(Come(p), wire[p], Owed(p), reader[p] = "done", closed[p])
      <3>1. Owed(p) = <<>>
        BY <1>2, <1>3 DEF Owed
      <3> QED
        BY <1>2, <2>1, <2>2, <3>1 DEF StreamOK
    <2> QED
      BY <2>3 DEF StreamInv
  <1> QED
    BY <1>4, <1>5, <1>6, <1>7, <1>8 DEF PeerInv

\* Every step keeps the invariant.
LEMMA InvariantStep == IInv /\ [Next]_vars => IInv'
  <1> SUFFICES ASSUME IInv, [Next]_vars PROVE IInv'
    OBVIOUS
  <1>1. TypeOK /\ TypeOK'
    BY TypeStep DEF IInv
  <1>2. ASSUME NEW p \in Peers PROVE PeerInv(p)'
    <2>1. ModeInv(p) /\ PrintInv(p) /\ ToldInv(p) /\ CloseInv(p) /\ StreamInv(p)
      BY DEF IInv, PeerInv
    <2>2. ModeInv(p)'
      BY <1>1, <2>1, ModeStep
    <2>3. PrintInv(p)'
      BY <1>1, <2>1, PrintStep
    <2>4. ToldInv(p)'
      BY <1>1, <2>1, ToldStep
    <2>5. CloseInv(p)' /\ StreamInv(p)'
      BY <1>1, <2>1, QueuesStep
    <2> QED
      BY <2>2, <2>3, <2>4, <2>5 DEF PeerInv
  <1> QED
    BY <1>1, <1>2 DEF IInv

\* The invariant says that the transports are sound.
LEMMA InvariantSound == IInv => TransportSound
  <1> SUFFICES ASSUME IInv PROVE TransportSound
    OBVIOUS
  <1>1. TypeOK
    BY DEF IInv
  <1>2. DeliveredInOrder
    <2> SUFFICES ASSUME NEW p \in Peers, mode = "live" => remote_fp[p] # "none",
                        NEW i \in 1 .. Len(got[p])
                 PROVE  LET from == sent[Other(p)]
                            Ordered(n) == mode = "webrtc" => from[n] = "data"
                        IN  /\ got[p][i] \in 1 .. Len(from)
                            /\ \A j \in 1 .. i - 1 : got[p][j] # got[p][i]
                            /\ Ordered(got[p][i]) =>
                                  \A n \in 1 .. got[p][i] - 1 : Ordered(n) =>
                                      \E j \in 1 .. i - 1 : got[p][j] = n
      BY DEF DeliveredInOrder
    <2>1. PrintInv(p) /\ StreamInv(p)
      BY DEF IInv, PeerInv
    <2>2. Right(p)
      BY <2>1 DEF PrintInv, Right
    <2>3. InOrder(got[p] \o Units(inbox[p]), Owed(p))
      BY <2>1, <2>2 DEF StreamInv, StreamOK, Come
    <2>4. InOrder(got[p], Owed(p))
      BY <1>1, <2>3, ComeType, OrderPrefix
    <2>5. Fits(got[p], i, Owed(p))
      BY <2>4 DEF InOrder
    <2>6. Len(Owed(p)) = Len(sent[Other(p)]) /\ Len(sent[Other(p)]) \in Nat
      <3>1. sent[Other(p)] \in Seq(Kinds)
        BY <1>1, PeerFacts DEF TypeOK
      <3> QED
        BY <1>1, <3>1, OwedType
    <2>7. \A n \in 1 .. Len(sent[Other(p)]) :
              Owed(p)[n] = "data" <=> (mode = "webrtc" => sent[Other(p)][n] = "data")
      BY DEF Owed
    <2>8. \A n \in 1 .. got[p][i] - 1 : n \in 1 .. Len(sent[Other(p)])
      BY <2>5, <2>6 DEF Fits
    <2> QED
      BY <2>5, <2>6, <2>7, <2>8 DEF Fits
  <1>3. ConnectedKnowsPeer
    BY DEF ConnectedKnowsPeer, IInv, PeerInv, PrintInv
  <1>4. CallbacksCatchUp
    <2> SUFFICES ASSUME NEW p \in Peers, p \notin restarted, Quiet(inbox[p]) PROVE told[p] = state[p]
      BY DEF CallbacksCatchUp, Quiet
    <2> QED
      BY DEF IInv, PeerInv, ToldInv, ToldOK
  <1> QED
    BY <1>1, <1>2, <1>3, <1>4 DEF TransportSound

\* On every transport the callbacks are given what the other end sent, in order,
\* once and without a gap, but for samples over webrtc; a connected peer knows
\* whom it talks to, over the network the end it was described; and the owner's
\* view of the connection is the transport's once poll has drained the queue.
THEOREM TransportSoundCorrect == Spec => []TransportSound
  <1>1. Spec => []IInv
    BY InvariantInit, InvariantStep, PTL DEF Spec
  <1> QED
    BY <1>1, InvariantSound, PTL

-----------------------------------------------------------------------------
\* What a step does to the state of a peer that is closed, or lost.
LEMMA FinalStep ==
    ASSUME TypeOK, NEW q \in Peers, ToldInv(q), [Next]_vars
    PROVE  /\ closed[q] =>
                 /\ closed'[q] /\ told'[q] = "closed"
                 /\ got'[q] = got[q] /\ sent'[q] = sent[q]
                 /\ mode # "webrtc" => state'[q] = "closed"
           /\ state[q] = "disconnected" /\ mode # "webrtc" => state'[q] \in {"disconnected", "closed"}
  <1> DEFINE Stays == /\ closed'[q] = closed[q] /\ told'[q] = told[q] /\ got'[q] = got[q]
                      /\ closed[q] => sent'[q] = sent[q]
                      /\ mode = "webrtc" \/ state'[q] = state[q]
             Ends == /\ ~closed[q]
                     /\ \/ mode = "webrtc"
                        \/ state[q] = "disconnected" => state'[q] \in {"disconnected", "closed"}
  <1>0. closed[q] => told[q] = "closed" /\ (mode # "webrtc" => state[q] = "closed")
    BY DEF ToldInv
  <1> SUFFICES Stays \/ Ends
    BY <1>0
  <1>a. ASSUME NEW p \in Peers, ~closed[p], closed' = closed \/ closed' = [closed EXCEPT ![p] = TRUE],
               got'[q] = got[q] \/ p = q, sent' = sent, NEW s, EmitState(p, s),
               mode = "webrtc" \/ (state[p] = "disconnected" => s \in {"disconnected", "closed"})
        PROVE  Stays \/ Ends
    <2>1. CASE p = q
      <3>1. state'[q] = s
        BY <1>a, <2>1 DEF EmitState, TypeOK
      <3> QED
        BY <1>a, <2>1, <3>1
    <2>2. CASE p # q
      BY <1>a, <2>2 DEF EmitState, TypeOK
    <2> QED
      BY <2>1, <2>2
  <1>1. CASE \/ UNCHANGED vars \/ CreateOffer \/ CreateAnswer
             \/ AcceptConnection \/ AcceptTimeout \/ ConnectionReset
             \/ \E p \in Peers : \/ ChannelOpen(p) \/ Reader(p)
                                 \/ \E i \in 1 .. Len(wire[p]) : OnMessage(p, i)
    <2>1. UNCHANGED <<closed, state, told, got, sent>>
      BY <1>1 DEF vars, CreateOffer, CreateAnswer, AcceptConnection, AcceptTimeout, ConnectionReset,
                  ChannelOpen, Reader, OnMessage, conn, counts
    <2> QED
      BY <2>1
  <1>7. ASSUME NEW p \in Peers, NEW kind \in Kinds, Send(p, kind) PROVE Stays \/ Ends
    <2>1. /\ ~closed[p] /\ UNCHANGED <<closed, state, told, got>>
          /\ sent' = [sent EXCEPT ![p] = Append(@, kind)]
      BY <1>7 DEF Send, CanSend, conn
    <2>2. closed[q] => sent'[q] = sent[q]
      BY <2>1 DEF TypeOK
    <2> QED
      BY <2>1, <2>2
  <1>2. ASSUME NEW p \in Peers, Described(p) PROVE Stays \/ Ends
    <2>1. ~closed[p] /\ UNCHANGED <<mode, closed, got, sent>> /\ Moves(p)
      BY <1>2 DEF Described
    <2>2. CASE UNCHANGED <<state, told>>
      BY <2>1, <2>2
    <2>3. CASE mode = "webrtc" /\ EmitState(p, "connecting")
      BY <1>a, <2>1, <2>3
    <2>4. ASSUME NEW s, EmitState(p, s), state[p] = "disconnected" => s = "disconnected" PROVE Stays \/ Ends
      BY <1>a, <2>1, <2>4
    <2> QED
      BY <2>1, <2>2, <2>3, <2>4 DEF Moves
  <1>3. ASSUME NEW p \in Peers, RestartIce(p) PROVE Stays \/ Ends
    BY <1>a, <1>3 DEF RestartIce
  <1>4. ASSUME NEW p \in Peers, Close(p) PROVE Stays \/ Ends
    <2>1. /\ ~closed[p] /\ closed' = [closed EXCEPT ![p] = TRUE] /\ EmitState(p, "closed")
          /\ UNCHANGED <<got, sent>>
      BY <1>4, CloseDoes DEF counts
    <2> QED
      BY <1>a, <2>1
  <1>5. ASSUME NEW p \in Peers, NEW s, PcState(p, s) PROVE Stays \/ Ends
    <2>1. mode = "webrtc" /\ UNCHANGED <<closed, told, got, sent>>
      BY <1>5 DEF PcState
    <2> QED
      BY <2>1
  <1>6. ASSUME NEW p \in Peers, Poll(p) PROVE Stays \/ Ends
    <2>1. ~closed[p] /\ UNCHANGED <<closed, sent>>
      BY <1>6 DEF Poll
    <2>2. CASE PollMock(p)
      <3>1. /\ \E s : EmitState(p, s) /\ (state[p] = "disconnected" => s = "disconnected")
            /\ got'[q] = got[q] \/ p = q
        BY <2>2 DEF PollMock
      <3> QED
        BY <1>a, <2>1, <3>1
    <2>3. CASE PollLive(p)
      <3>1. /\ \E s : EmitState(p, s) /\ (state[p] = "disconnected" => s = "disconnected")
            /\ \E x : got' = [got EXCEPT ![p] = x]
        BY <2>3, PollLiveDoes
      <3>2. got'[q] = got[q] \/ p = q
        BY <3>1
      <3> QED
        BY <1>a, <2>1, <3>1, <3>2
    <2>4. CASE PollWebrtc(p)
      <3>1. /\ mode = "webrtc" /\ state' = state
            /\ p # q => told'[q] = told[q] /\ got'[q] = got[q]
        BY <2>4 DEF PollWebrtc
      <3> QED
        BY <2>1, <3>1
    <2> QED
      BY <1>6, <2>2, <2>3, <2>4 DEF Poll
  <1> QED
    <2>1. CASE Next
      BY <1>1, <1>2, <1>3, <1>4, <1>5, <1>6, <1>7, <2>1, DescribeDoes
         DEF Next, PcConnected, PcDisconnected, PcFailed, PcLate
    <2> QED
      BY <1>1, <2>1

\* A peer that is closed stays closed, calls nobody back and sends nothing, on
\* every backend, though a late callback of webrtc's may change what its
\* connection_state says; and a peer over the mock or TCP that lost the other end is never connected again.
THEOREM LossIsFinalCorrect == Spec => LossIsFinal
  <1> DEFINE Closed == \A p \in Peers : closed[p] =>
                 /\ closed'[p] /\ told'[p] = "closed"
                 /\ got'[p] = got[p] /\ sent'[p] = sent[p]
                 /\ mode # "webrtc" => state'[p] = "closed"
             Lost == \A p \in Peers : state[p] = "disconnected" /\ mode # "webrtc"
                 => state'[p] \in {"disconnected", "closed"}
  <1>1. Spec => []IInv
    BY InvariantInit, InvariantStep, PTL DEF Spec
  <1>2. IInv /\ [Next]_vars => [Closed]_vars /\ [Lost]_vars
    BY FinalStep DEF IInv, PeerInv
  <1>3. Spec => [][Closed]_vars /\ [][Lost]_vars
    BY <1>1, <1>2, PTL DEF Spec
  <1> QED
    BY <1>3 DEF LossIsFinal, ClosedIsFinal, LostIsLost

=============================================================================
