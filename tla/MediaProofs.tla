---------------------------- MODULE MediaProofs ----------------------------
(***************************************************************************)
(* That what plays on the viewer is sound (PlayoutSound) and that what     *)
(* leaves the host is (PlaneSound), for every value of the constants: any  *)
(* size of desktop, padding and preview, any frame of samples, any jitter, *)
(* skew and silence.                                                       *)
(*                                                                         *)
(* In this order: arithmetic of quotients and rounding; the jitter buffer, *)
(* the skew correction with its resampler and the freeze policy, and their *)
(* invariant PlayoutInv; the audio turns of pump_media, by climbing from 0 *)
(* to AudioPerFrame; the preview and its boxes; the encoders; the          *)
(* invariant MediaInv of the plane, one lemma for each action.             *)
(***************************************************************************)
EXTENDS MCMedia, SequenceTheorems, WellFoundedInduction, TLAPS

-----------------------------------------------------------------------------
(***************************************************************************)
(* Whole numbers.                                                          *)
(***************************************************************************)

\* A product grows with its factor.
LEMMA MulMono ==
    ASSUME NEW a \in Int, NEW c \in Int, NEW b \in Nat, a <= c
    PROVE  a * b <= c * b
  OBVIOUS

\* Division with remainder.
LEMMA DivLaw ==
    ASSUME NEW a \in Int, NEW b \in Nat \ {0}
    PROVE  /\ a \div b \in Int
           /\ a % b \in 0 .. (b - 1)
           /\ a = b * (a \div b) + (a % b)
  OBVIOUS

\* A quotient is the only multiple that fits.
LEMMA DivUnique ==
    ASSUME NEW a \in Int, NEW b \in Nat \ {0}, NEW q \in Int, b * q <= a, a < b * q + b
    PROVE  a \div b = q
  OBVIOUS

\* A quotient is at least what fits.
LEMMA DivAtLeast ==
    ASSUME NEW a \in Int, NEW b \in Nat \ {0}, NEW q \in Int, b * q <= a
    PROVE  q <= a \div b
  OBVIOUS

\* A quotient is below what does not fit.
LEMMA DivBelow ==
    ASSUME NEW a \in Int, NEW b \in Nat \ {0}, NEW q \in Int, a < b * q
    PROVE  a \div b < q
  OBVIOUS

\* A quotient grows with what is divided.
LEMMA DivMono ==
    ASSUME NEW a \in Int, NEW c \in Int, NEW b \in Nat \ {0}, a <= c
    PROVE  a \div b <= c \div b
  OBVIOUS

\* The smaller and the larger of two numbers.
LEMMA MinOfTwo ==
    ASSUME NEW a \in Int, NEW b \in Int
    PROVE  Min({a, b}) = IF a <= b THEN a ELSE b
  <1> DEFINE m == IF a <= b THEN a ELSE b
  <1>1. m \in {a, b} /\ \A y \in {a, b} : m =< y
    OBVIOUS
  <1>2. ASSUME NEW x \in {a, b}, \A y \in {a, b} : x =< y PROVE x = m
    BY <1>2
  <1> QED
    BY <1>1, <1>2 DEF Min

\* The larger of two numbers.
LEMMA MaxOfTwo ==
    ASSUME NEW a \in Int, NEW b \in Int
    PROVE  Max({a, b}) = IF a >= b THEN a ELSE b
  <1> DEFINE m == IF a >= b THEN a ELSE b
  <1>1. m \in {a, b} /\ \A y \in {a, b} : m >= y
    OBVIOUS
  <1>2. ASSUME NEW x \in {a, b}, \A y \in {a, b} : x >= y PROVE x = m
    BY <1>2
  <1> QED
    BY <1>1, <1>2 DEF Max

\* Rounding a fraction: of a whole number it is that number, it never
\* reverses an order, and it is within half of the fraction.
LEMMA RoundInt ==
    ASSUME NEW num \in Int, NEW den \in Nat \ {0}
    PROVE  Round(num, den) \in Int
  BY DEF Round

\* A rounded quotient is a whole number.
LEMMA RoundWhole ==
    ASSUME NEW m \in Int, NEW den \in Nat \ {0}
    PROVE  Round(m * den, den) = m
  <1>0. 2 * den \in Nat \ {0}
    OBVIOUS
  <1>1. CASE m * den >= 0
    <2>1. (2 * den) * m <= 2 * (m * den) + den
      OBVIOUS
    <2>2. 2 * (m * den) + den < (2 * den) * m + 2 * den
      OBVIOUS
    <2>3. 2 * (m * den) + den \in Int
      OBVIOUS
    <2>4. (2 * (m * den) + den) \div (2 * den) = m
      BY <1>0, <2>1, <2>2, <2>3, DivUnique
    <2> QED BY <1>1, <2>4 DEF Round
  <1>2. CASE m * den < 0
    <2>1. (2 * den) * (-m) <= 2 * (-(m * den)) + den
      OBVIOUS
    <2>2. 2 * (-(m * den)) + den < (2 * den) * (-m) + 2 * den
      OBVIOUS
    <2>3. 2 * (-(m * den)) + den \in Int /\ -m \in Int
      OBVIOUS
    <2>4. (2 * (-(m * den)) + den) \div (2 * den) = -m
      BY <1>0, <2>1, <2>2, <2>3, DivUnique
    <2>5. ~(m * den >= 0) /\ -(-m) = m
      BY <1>2
    <2> QED BY <2>4, <2>5 DEF Round
  <1> QED BY <1>1, <1>2

\* Rounding keeps the order.
LEMMA RoundMono ==
    ASSUME NEW a \in Int, NEW b \in Int, NEW den \in Nat \ {0}, a <= b
    PROVE  Round(a, den) <= Round(b, den)
  <1>0. 2 * den \in Nat \ {0}
    OBVIOUS
  <1>1. CASE a >= 0
    <2>1. 2 * a + den <= 2 * b + den /\ 2 * a + den \in Int /\ 2 * b + den \in Int
      OBVIOUS
    <2>2. (2 * a + den) \div (2 * den) <= (2 * b + den) \div (2 * den)
      BY <1>0, <2>1, DivMono
    <2>3. b >= 0
      BY <1>1
    <2> QED BY <1>1, <2>2, <2>3 DEF Round
  <1>2. CASE a < 0 /\ b >= 0
    <2>1. (2 * den) * 0 <= 2 * b + den /\ (2 * den) * 0 <= 2 * (-a) + den
      BY <1>2
    <2>2. 0 <= (2 * b + den) \div (2 * den) /\ 0 <= (2 * (-a) + den) \div (2 * den)
      BY <1>0, <2>1, DivAtLeast
    <2>3. (2 * b + den) \div (2 * den) \in Int /\ (2 * (-a) + den) \div (2 * den) \in Int
      BY <1>0, DivLaw
    <2> QED BY <1>2, <2>2, <2>3 DEF Round
  <1>3. CASE b < 0
    <2>1. 2 * (-b) + den <= 2 * (-a) + den /\ 2 * (-a) + den \in Int /\ 2 * (-b) + den \in Int
      OBVIOUS
    <2>2. (2 * (-b) + den) \div (2 * den) <= (2 * (-a) + den) \div (2 * den)
      BY <1>0, <2>1, DivMono
    <2>3. (2 * (-b) + den) \div (2 * den) \in Int /\ (2 * (-a) + den) \div (2 * den) \in Int
      BY <1>0, DivLaw
    <2>4. ~(a >= 0) /\ ~(b >= 0)
      BY <1>3
    <2> QED BY <2>2, <2>3, <2>4 DEF Round
  <1> QED BY <1>1, <1>2, <1>3

\* A rounded quotient is within half a divisor.
LEMMA RoundNear ==
    ASSUME NEW num \in Nat, NEW den \in Nat \ {0}
    PROVE  2 * num < 2 * (den * Round(num, den)) + den
  <1>0. 2 * den \in Nat \ {0} /\ 2 * num + den \in Int
    OBVIOUS
  <1>1. Round(num, den) = (2 * num + den) \div (2 * den)
    BY DEF Round
  <1>2. 2 * num + den < (2 * den) * ((2 * num + den) \div (2 * den)) + 2 * den
    <2> DEFINE u == 2 * num + den
               v == 2 * den
    <2>1. u \in Int /\ v \in Nat \ {0}
      BY <1>0
    <2> HIDE DEF u, v
    <2>2. u < v * (u \div v) + v
      BY <2>1, DivLaw
    <2> QED BY <2>2 DEF u, v
  <1>3. Round(num, den) \in Int
    BY RoundInt
  <1>4. (2 * den) * Round(num, den) = 2 * (den * Round(num, den))
    BY <1>3
  <1>5. den * Round(num, den) \in Int
    BY <1>3
  <1> QED BY <1>1, <1>2, <1>4, <1>5

-----------------------------------------------------------------------------
(***************************************************************************)
(* Positions and sequences.                                                *)
(***************************************************************************)

\* A set of positions has a least element.
LEMMA LeastOf ==
    ASSUME NEW T, T \subseteq Nat, T # {}
    PROVE  \E x \in T : \A y \in T : x <= y
  <1>1. PICK x \in T : \A y \in T : ~ (<<y, x>> \in OpToRel(<, Nat))
    BY NatLessThanWellFounded, WFMin
  <1>2. \A y \in T : y < x => <<y, x>> \in OpToRel(<, Nat)
    BY DEF OpToRel
  <1>3. \A y \in T : x <= y
    <2> TAKE y \in T
    <2>1. x \in Nat /\ y \in Nat
      OBVIOUS
    <2>2. ~(y < x)
      BY <1>1, <1>2
    <2> QED BY <2>1, <2>2
  <1> QED BY <1>3

\* Min is one.
LEMMA MinOfNats ==
    ASSUME NEW T, T \subseteq Nat, T # {}
    PROVE  Min(T) \in T /\ \A y \in T : Min(T) <= y
  <1>1. \E x \in T : \A y \in T : x =< y
    BY LeastOf
  <1> QED BY <1>1 DEF Min

\* Of a bounded set of positions Max is one.
LEMMA MaxOfNats ==
    ASSUME NEW n \in Nat, NEW T, T \subseteq 0 .. n, T # {}
    PROVE  Max(T) \in T /\ \A y \in T : Max(T) >= y
  <1> DEFINE U == {i \in 0 .. n : n - i \in T}
  <1>1. U \subseteq Nat
    OBVIOUS
  <1>2. U # {}
    <2>1. PICK t \in T : TRUE
      OBVIOUS
    <2>2. n - t \in 0 .. n /\ n - (n - t) = t
      BY <2>1
    <2> QED BY <2>1, <2>2
  <1>3. PICK u \in U : \A v \in U : u <= v
    BY <1>1, <1>2, LeastOf
  <1>4. ASSUME NEW y \in T PROVE n - u >= y
    <2>1. y \in 0 .. n /\ u \in 0 .. n
      OBVIOUS
    <2>2. n - y \in 0 .. n /\ n - (n - y) = y
      BY <2>1
    <2>3. n - y \in U
      BY <1>4, <2>2
    <2>4. u <= n - y
      BY <1>3, <2>3
    <2> QED BY <2>1, <2>4
  <1>5. \E x \in T : \A y \in T : x >= y
    BY <1>4
  <1> QED BY <1>5 DEF Max

\* What holds first and is passed on holds to the end.
LEMMA Climb ==
    ASSUME NEW n \in Nat, NEW P,
           0 \in P, \A i \in 1 .. n : i - 1 \in P => i \in P
    PROVE  \A i \in 0 .. n : i \in P
  <1> SUFFICES ASSUME NEW i0 \in 0 .. n, i0 \notin P PROVE FALSE
    OBVIOUS
  <1> DEFINE T == {i \in 0 .. n : i \notin P}
  <1>1. T \subseteq Nat /\ T # {}
    OBVIOUS
  <1>2. PICK x \in T : \A y \in T : x <= y
    BY <1>1, LeastOf
  <1>3. x \in 1 .. n /\ x - 1 \in 0 .. n
    BY <1>2
  <1>4. x - 1 \notin T
    BY <1>2, <1>3
  <1> QED BY <1>2, <1>3, <1>4

\* The numbers of a sequence have a least and a greatest.
LEMMA LeastInSeq ==
    ASSUME NEW s \in Seq(Int), Len(s) >= 1
    PROVE  \E k \in 1 .. Len(s) : \A j \in 1 .. Len(s) : s[k] <= s[j]
  <1> DEFINE n == Len(s)
             P == {i \in 0 .. (n - 1) :
                     \E k \in 1 .. (i + 1) : \A j \in 1 .. (i + 1) : s[k] <= s[j]}
  <1>1. n \in Nat /\ n - 1 \in Nat /\ \A j \in 1 .. n : s[j] \in Int
    OBVIOUS
  <1>2. 0 \in P
    <2>1. 1 \in 1 .. 1 /\ \A j \in 1 .. 1 : s[1] <= s[j]
      BY <1>1
    <2> QED BY <1>1, <2>1
  <1>3. ASSUME NEW i \in 1 .. (n - 1), i - 1 \in P PROVE i \in P
    <2>1. PICK k \in 1 .. i : \A j \in 1 .. i : s[k] <= s[j]
      BY <1>3, <1>1
    <2>2. CASE s[k] <= s[i + 1]
      <3>1. \A j \in 1 .. (i + 1) : s[k] <= s[j]
        BY <1>1, <2>1, <2>2
      <3> QED BY <2>1, <3>1
    <2>3. CASE ~(s[k] <= s[i + 1])
      <3>1. \A j \in 1 .. (i + 1) : s[i + 1] <= s[j]
        <4> TAKE j \in 1 .. (i + 1)
        <4>1. s[j] \in Int /\ s[k] \in Int /\ s[i + 1] \in Int
          BY <1>1
        <4>2. CASE j = i + 1
          BY <4>1, <4>2
        <4>3. CASE j \in 1 .. i
          BY <4>1, <4>3, <2>1, <2>3
        <4> QED BY <4>2, <4>3
      <3>2. i + 1 \in 1 .. (i + 1)
        OBVIOUS
      <3> QED BY <3>1, <3>2
    <2> QED BY <2>2, <2>3
  <1> HIDE DEF P
  <1>4. \A i \in 0 .. (n - 1) : i \in P
    BY <1>1, <1>2, <1>3, Climb
  <1>5. n - 1 \in P /\ (n - 1) + 1 = n
    BY <1>1, <1>4
  <1> QED BY <1>5 DEF P

\* A sequence of numbers has a greatest element.
LEMMA GreatestInSeq ==
    ASSUME NEW s \in Seq(Int), Len(s) >= 1
    PROVE  \E k \in 1 .. Len(s) : \A j \in 1 .. Len(s) : s[k] >= s[j]
  <1> DEFINE n == Len(s)
             t == [i \in 1 .. n |-> -s[i]]
  <1>1. n \in Nat /\ \A j \in 1 .. n : s[j] \in Int
    OBVIOUS
  <1>2. t \in [1 .. n -> Int]
    BY <1>1
  <1>3. t \in Seq(Int) /\ Len(t) = n
    BY <1>1, <1>2, SeqDef
  <1>4. PICK k \in 1 .. n : \A j \in 1 .. n : t[k] <= t[j]
    BY <1>3, LeastInSeq
  <1>5. ASSUME NEW j \in 1 .. n PROVE s[k] >= s[j]
    <2>1. t[k] <= t[j] /\ t[k] = -s[k] /\ t[j] = -s[j]
      BY <1>4
    <2> QED BY <1>1, <2>1
  <1> QED BY <1>5

\* Every number of a sequence is between its least and its greatest.
LEMMA WithinRange ==
    ASSUME NEW s \in Seq(Int), Len(s) >= 1
    PROVE  /\ Min(ToSet(s)) \in Int /\ Max(ToSet(s)) \in Int
           /\ \A j \in 1 .. Len(s) : Min(ToSet(s)) <= s[j] /\ s[j] <= Max(ToSet(s))
  <1>1. \A j \in 1 .. Len(s) : s[j] \in Int /\ s[j] \in ToSet(s)
    BY DEF ToSet
  <1>2. \A x \in ToSet(s) : \E j \in 1 .. Len(s) : x = s[j]
    BY DEF ToSet
  <1>3. \E x \in ToSet(s) : \A y \in ToSet(s) : x =< y
    <2>1. PICK k \in 1 .. Len(s) : \A j \in 1 .. Len(s) : s[k] <= s[j]
      BY LeastInSeq
    <2> QED BY <1>1, <1>2, <2>1
  <1>4. \E x \in ToSet(s) : \A y \in ToSet(s) : x >= y
    <2>1. PICK k \in 1 .. Len(s) : \A j \in 1 .. Len(s) : s[k] >= s[j]
      BY GreatestInSeq
    <2> QED BY <1>1, <1>2, <2>1
  <1>5. Min(ToSet(s)) \in ToSet(s) /\ \A y \in ToSet(s) : Min(ToSet(s)) =< y
    BY <1>3 DEF Min
  <1>6. Max(ToSet(s)) \in ToSet(s) /\ \A y \in ToSet(s) : Max(ToSet(s)) >= y
    BY <1>4 DEF Max
  <1>7. Min(ToSet(s)) \in Int /\ Max(ToSet(s)) \in Int
    BY <1>1, <1>2, <1>5, <1>6
  <1>8. ASSUME NEW j \in 1 .. Len(s) PROVE Min(ToSet(s)) <= s[j] /\ s[j] <= Max(ToSet(s))
    BY <1>1, <1>5, <1>6, <1>7
  <1> QED BY <1>7, <1>8

\* What a function on the first n numbers lists.
LEMMA ListOf ==
    ASSUME NEW S, NEW n \in Nat, NEW f \in [1 .. n -> S]
    PROVE  f \in Seq(S) /\ Len(f) = n
  <1>1. f \in Seq(S)
    BY SeqDef
  <1> QED BY <1>1, LenProperties

-----------------------------------------------------------------------------
(***************************************************************************)
(* The jitter buffer's queue.                                              *)
(***************************************************************************)

\* A packet that waits.
Queued == [pts : Nat, recv : Nat]

\* q is in the order it is to be played in: by pts, and of packets with one
\* pts by arrival.
PlayOrder(q) ==
    \A i, j \in 1 .. Len(q) :
        i < j => \/ q[i].pts < q[j].pts
                 \/ q[i].pts = q[j].pts /\ q[i].recv <= q[j].recv

\* Inserting adds one packet and moves the rest up.
LEMMA InsertMoves ==
    ASSUME NEW S, NEW q \in Seq(S), NEW e \in S, NEW pos \in 1 .. (Len(q) + 1)
    PROVE  /\ InsertAt(q, pos, e) \in Seq(S)
           /\ Len(InsertAt(q, pos, e)) = Len(q) + 1
           /\ \A i \in 1 .. (Len(q) + 1) :
                InsertAt(q, pos, e)[i] = IF i < pos THEN q[i] ELSE IF i = pos THEN e ELSE q[i - 1]
  <1> DEFINE a == SubSeq(q, 1, pos - 1)
             b == SubSeq(q, pos, Len(q))
  <1>1. /\ a \in Seq(S) /\ Len(a) = pos - 1
        /\ \A i \in 1 .. (pos - 1) : a[i] = q[i]
    <2>1. \A i \in 1 .. (pos - 1) : q[i] \in S
      OBVIOUS
    <2>2. pos - 1 \in Int /\ 1 \in Int
      OBVIOUS
    <2> QED BY <2>1, <2>2, SubSeqProperties
  <1>2. /\ b \in Seq(S) /\ Len(b) = Len(q) - pos + 1
        /\ \A i \in 1 .. (Len(q) - pos + 1) : b[i] = q[pos + i - 1]
    <2>1. \A i \in pos .. Len(q) : q[i] \in S
      OBVIOUS
    <2>2. pos \in Int /\ Len(q) \in Int
      OBVIOUS
    <2> QED BY <2>1, <2>2, SubSeqProperties
  <1>3. <<e>> \in Seq(S) /\ Len(<<e>>) = 1 /\ <<e>>[1] = e
    OBVIOUS
  <1> HIDE DEF a, b
  <1>4. /\ a \o <<e>> \in Seq(S) /\ Len(a \o <<e>>) = pos
        /\ \A i \in 1 .. pos : (a \o <<e>>)[i] = IF i < pos THEN q[i] ELSE e
    <2>1. /\ a \o <<e>> \in Seq(S) /\ Len(a \o <<e>>) = Len(a) + 1
          /\ \A i \in 1 .. Len(a) + 1 :
               (a \o <<e>>)[i] = IF i <= Len(a) THEN a[i] ELSE <<e>>[i - Len(a)]
      BY <1>1, <1>3, ConcatProperties
    <2> QED BY <1>1, <1>3, <2>1
  <1>5. /\ (a \o <<e>>) \o b \in Seq(S)
        /\ Len((a \o <<e>>) \o b) = pos + Len(b)
        /\ \A i \in 1 .. (pos + Len(b)) :
             ((a \o <<e>>) \o b)[i] = IF i <= pos THEN (a \o <<e>>)[i] ELSE b[i - pos]
    <2> DEFINE c == a \o <<e>>
    <2>1. c \in Seq(S) /\ Len(c) = pos
      BY <1>4
    <2> HIDE DEF c
    <2>2. /\ c \o b \in Seq(S) /\ Len(c \o b) = Len(c) + Len(b)
          /\ \A i \in 1 .. Len(c) + Len(b) :
               (c \o b)[i] = IF i <= Len(c) THEN c[i] ELSE b[i - Len(c)]
      BY <1>2, <2>1, ConcatProperties
    <2>3. /\ c \o b \in Seq(S) /\ Len(c \o b) = pos + Len(b)
          /\ \A i \in 1 .. (pos + Len(b)) :
               (c \o b)[i] = IF i <= pos THEN c[i] ELSE b[i - pos]
      BY <2>1, <2>2
    <2> QED BY <2>3 DEF c
  <1>6. InsertAt(q, pos, e) = (a \o <<e>>) \o b
    BY DEF InsertAt, a, b
  <1>7. pos + Len(b) = Len(q) + 1
    BY <1>2
  <1>8. ASSUME NEW i \in 1 .. (Len(q) + 1)
        PROVE  ((a \o <<e>>) \o b)[i] = IF i < pos THEN q[i] ELSE IF i = pos THEN e ELSE q[i - 1]
    <2>1. CASE i <= pos
      BY <1>4, <1>5, <1>7, <2>1
    <2>2. CASE i > pos
      <3>1. i - pos \in 1 .. (Len(q) - pos + 1) /\ pos + (i - pos) - 1 = i - 1
        BY <2>2
      <3>2. b[i - pos] = q[pos + (i - pos) - 1]
        BY <1>2, <3>1
      <3> QED BY <1>5, <1>7, <2>2, <3>1, <3>2
    <2>3. i <= pos \/ i > pos
      OBVIOUS
    <2> QED BY <2>1, <2>2, <2>3, Zenon
  <1> QED BY <1>5, <1>6, <1>7, <1>8

\* A packet is put behind those with its pts and before the first later one;
\* having arrived last it leaves the queue in order.
LEMMA InsertInOrder ==
    ASSUME NEW q \in Seq(Queued), PlayOrder(q), NEW e \in Queued,
           \A i \in 1 .. Len(q) : q[i].recv <= e.recv
    PROVE  /\ InsertByPts(q, e) \in Seq(Queued)
           /\ Len(InsertByPts(q, e)) = Len(q) + 1
           /\ \A i \in 1 .. Len(InsertByPts(q, e)) : InsertByPts(q, e)[i].recv <= e.recv
           /\ PlayOrder(InsertByPts(q, e))
  <1> DEFINE n == Len(q)
             later == {i \in 1 .. n : q[i].pts > e.pts}
             pos == IF later = {} THEN n + 1 ELSE Min(later)
             r == InsertByPts(q, e)
  <1>1. n \in Nat /\ \A i \in 1 .. n : q[i] \in Queued /\ q[i].pts \in Nat /\ q[i].recv \in Nat
    <2>1. n \in Nat /\ \A i \in 1 .. n : q[i] \in Queued
      OBVIOUS
    <2> QED BY <2>1 DEF Queued
  <1>2. e.pts \in Nat /\ e.recv \in Nat
    BY DEF Queued
  <1>3. /\ pos \in 1 .. (n + 1)
        /\ \A i \in 1 .. n : i < pos => q[i].pts <= e.pts
        /\ \A i \in 1 .. n : i >= pos => q[i].pts > e.pts
    <2>1. CASE later = {}
      BY <1>1, <1>2, <2>1
    <2>2. CASE later # {}
      <3>1. later \subseteq Nat
        OBVIOUS
      <3>2. pos \in later /\ \A y \in later : pos <= y
        BY <2>2, <3>1, MinOfNats
      <3>3. ASSUME NEW i \in 1 .. n, i < pos PROVE q[i].pts <= e.pts
        <4>1. i \notin later
          BY <3>2, <3>3
        <4> QED BY <1>1, <1>2, <4>1
      <3> HIDE DEF pos
      <3>4. ASSUME NEW i \in 1 .. n, i >= pos PROVE q[i].pts > e.pts
        <4>1. q[pos].pts > e.pts /\ pos \in 1 .. n
          BY <3>2
        <4>2. CASE i = pos
          BY <4>1, <4>2
        <4>3. CASE pos < i
          <5>1. q[pos].pts < q[i].pts \/ q[pos].pts = q[i].pts
            BY <4>1, <4>3 DEF PlayOrder
          <5> QED BY <1>1, <1>2, <4>1, <5>1
        <4> QED BY <3>4, <4>1, <4>2, <4>3
      <3> QED BY <3>2, <3>3, <3>4
    <2> QED BY <2>1, <2>2
  <1>4. r = InsertAt(q, pos, e)
    BY DEF InsertByPts
  <1> HIDE DEF pos, later, r
  <1>5. /\ r \in Seq(Queued) /\ Len(r) = n + 1
        /\ \A i \in 1 .. (n + 1) :
             r[i] = IF i < pos THEN q[i] ELSE IF i = pos THEN e ELSE q[i - 1]
    <2>1. pos \in 1 .. (Len(q) + 1)
      BY <1>3
    <2>2. /\ InsertAt(q, pos, e) \in Seq(Queued)
          /\ Len(InsertAt(q, pos, e)) = Len(q) + 1
          /\ \A i \in 1 .. (Len(q) + 1) :
               InsertAt(q, pos, e)[i] = IF i < pos THEN q[i] ELSE IF i = pos THEN e ELSE q[i - 1]
      BY <2>1, InsertMoves
    <2> QED BY <1>4, <2>2
  <1>6. \A i \in 1 .. (n + 1) : r[i].recv <= e.recv
    <2> TAKE i \in 1 .. (n + 1)
    <2>1. CASE i < pos
      BY <1>1, <1>2, <1>3, <1>5, <2>1
    <2>2. CASE i = pos
      BY <1>2, <1>5, <2>2
    <2>3. CASE i > pos
      <3>1. i - 1 \in 1 .. n /\ r[i] = q[i - 1]
        BY <1>1, <1>3, <1>5, <2>3
      <3> QED BY <3>1
    <2> QED BY <1>3, <2>1, <2>2, <2>3
  <1>7. PlayOrder(r)
    <2> SUFFICES ASSUME NEW i \in 1 .. (n + 1), NEW j \in 1 .. (n + 1), i < j
                 PROVE  \/ r[i].pts < r[j].pts
                        \/ r[i].pts = r[j].pts /\ r[i].recv <= r[j].recv
      BY <1>5 DEF PlayOrder
    <2>1. CASE j < pos
      BY <1>1, <1>3, <1>5, <2>1, SMTT(30) DEF PlayOrder
    <2>2. CASE j = pos
      <3>1. r[j] = e /\ r[i] = q[i] /\ i \in 1 .. n /\ q[i].pts <= e.pts
        BY <1>1, <1>3, <1>5, <2>2
      <3> QED BY <1>1, <1>2, <3>1
    <2>3. CASE j > pos
      <3>1. j - 1 \in 1 .. n /\ r[j] = q[j - 1]
        BY <1>1, <1>3, <1>5, <2>3
      <3>2. q[j - 1].pts > e.pts
        BY <1>3, <2>3, <3>1
      <3>3. CASE i < pos
        <4>1. r[i] = q[i] /\ i \in 1 .. n /\ i < j - 1
          BY <1>1, <1>3, <1>5, <2>3, <3>3
        <4> QED BY <3>1, <4>1 DEF PlayOrder
      <3>4. CASE i = pos
        BY <1>5, <3>1, <3>2, <3>4
      <3>5. CASE i > pos
        <4>1. r[i] = q[i - 1] /\ i - 1 \in 1 .. n /\ i - 1 < j - 1
          BY <1>1, <1>3, <1>5, <2>3, <3>5
        <4> QED BY <3>1, <4>1 DEF PlayOrder
      <3> QED BY <1>3, <3>3, <3>4, <3>5
    <2> QED BY <1>3, <2>1, <2>2, <2>3
  <1> QED BY <1>5, <1>6, <1>7 DEF r

\* What is left of a queue from some position on is in order.
LEMMA RestInOrder ==
    ASSUME NEW q \in Seq(Queued), PlayOrder(q), NEW k \in 0 .. Len(q), NEW t \in Nat,
           \A i \in 1 .. Len(q) : q[i].recv <= t
    PROVE  /\ SubSeq(q, k + 1, Len(q)) \in Seq(Queued)
           /\ Len(SubSeq(q, k + 1, Len(q))) = Len(q) - k
           /\ \A i \in 1 .. (Len(q) - k) : SubSeq(q, k + 1, Len(q))[i].recv <= t
           /\ PlayOrder(SubSeq(q, k + 1, Len(q)))
  <1> DEFINE n == Len(q)
             r == SubSeq(q, k + 1, n)
  <1>1. n \in Nat
    OBVIOUS
  <1>2. \A i \in (k + 1) .. n : q[i] \in Queued
    BY <1>1
  <1>3. k + 1 \in Int /\ n \in Int
    BY <1>1
  <1>4. /\ r \in Seq(Queued)
        /\ Len(r) = IF k + 1 <= n THEN n - (k + 1) + 1 ELSE 0
        /\ \A i \in 1 .. (n - (k + 1) + 1) : r[i] = q[(k + 1) + i - 1]
    BY <1>2, <1>3, SubSeqProperties
  <1>5. Len(r) = n - k
    BY <1>1, <1>4
  <1>6. ASSUME NEW i \in 1 .. (n - k) PROVE r[i] = q[k + i] /\ k + i \in 1 .. n
    <2>1. r[i] = q[(k + 1) + i - 1]
      BY <1>1, <1>4
    <2>2. (k + 1) + i - 1 = k + i
      BY <1>1
    <2> QED BY <1>1, <2>1, <2>2
  <1> HIDE DEF r
  <1>7. PlayOrder(r)
    <2> SUFFICES ASSUME NEW i \in 1 .. (n - k), NEW j \in 1 .. (n - k), i < j
                 PROVE  \/ r[i].pts < r[j].pts
                        \/ r[i].pts = r[j].pts /\ r[i].recv <= r[j].recv
      BY <1>5 DEF PlayOrder
    <2>1. r[i] = q[k + i] /\ k + i \in 1 .. n
      BY <1>6
    <2>2. r[j] = q[k + j] /\ k + j \in 1 .. n
      BY <1>6
    <2>3. k + i < k + j
      BY <1>1
    <2> QED BY <2>1, <2>2, <2>3 DEF PlayOrder
  <1> QED BY <1>4, <1>5, <1>6, <1>7 DEF r

-----------------------------------------------------------------------------
(***************************************************************************)
(* The jitter buffer.                                                      *)
(***************************************************************************)

\* The clock and what is on its way.
ClockInv ==
    /\ now \in Nat
    /\ now <= IF part = "jitter" THEN MaxTime + Interval ELSE MaxTicks

NetInv == net \subseteq [seq : Nat, pts : Nat, due : Nat, state : {"flying", "gone"}]

\* The queue is in the order it is to be played in, and every packet that came
\* is in it or counted.
QueueInv ==
    /\ queue \in Seq(Queued) /\ PlayOrder(queue)
    /\ \A i \in 1 .. Len(queue) : queue[i].recv <= now
    /\ received \in Nat /\ released \in Nat /\ dropped \in Nat
    /\ PacketsAccounted

\* Wherever the spread of the delays is known, it holds the jitter estimate
\* and the delay of the packet the next one is compared with.
EstimateInv ==
    /\ ewma \in Nat /\ target \in TargetRange
    /\ spread = <<>> => last = <<>> /\ ewma = 0
    /\ spread # <<>> =>
         /\ spread.lo \in Int /\ spread.hi \in Int /\ spread.lo <= spread.hi
         /\ ewma <= spread.hi - spread.lo
    /\ last # <<>> =>
         /\ last.pts \in Nat /\ last.recv \in Nat /\ last.recv <= now
         /\ spread.lo <= last.recv - last.pts /\ last.recv - last.pts <= spread.hi

JitterInv == NetInv /\ QueueInv /\ EstimateInv

\* The constants of the jitter buffer.
LEMMA PlayoutFacts ==
    /\ MinTarget \in Nat /\ MaxTarget \in Nat /\ MinTarget <= MaxTarget
    /\ InitialTarget \in Nat /\ LateThreshold \in Nat /\ Delays \subseteq Nat
    /\ Interval \in Nat \ {0} /\ SeqWrap \in Nat \ {0}
    /\ MaxPackets \in Nat /\ MaxTime \in Nat /\ MaxTicks \in Nat
  BY PlayoutAssumption

\* A target is clamped to its limits.
LEMMA ClampWithin ==
    ASSUME NEW v \in Int, NEW lo \in Int, NEW hi \in Int, lo <= hi
    PROVE  Clamp(v, lo, hi) \in lo .. hi
  BY DEF Clamp

\* The jitter buffer starts in order.
LEMMA JitterInitial == JitterInit /\ now = 0 => JitterInv
  <1> SUFFICES ASSUME JitterInit, now = 0 PROVE JitterInv
    OBVIOUS
  <1>1. NetInv
    BY DEF JitterInit, NetInv
  <1>2. QueueInv
    <2>1. queue = <<>> /\ received = 0 /\ released = 0 /\ dropped = 0
      BY DEF JitterInit
    <2>2. queue \in Seq(Queued) /\ Len(queue) = 0
      BY <2>1, EmptySeq
    <2> QED BY <2>1, <2>2 DEF QueueInv, PlayOrder, PacketsAccounted
  <1>3. EstimateInv
    <2>1. target \in TargetRange
      BY PlayoutFacts, ClampWithin DEF JitterInit, TargetRange
    <2>2. ewma = 0 /\ spread = <<>> /\ last = <<>>
      BY DEF JitterInit
    <2> QED BY <2>1, <2>2 DEF EstimateInv
  <1> QED BY <1>1, <1>2, <1>3 DEF JitterInv

\* A packet of the source.
LEMMA PacketKind ==
    ASSUME NEW pkt \in Packets
    PROVE  pkt \in [seq : Nat, pts : Nat, due : Nat, state : {"flying", "gone"}]
  <1>1. PICK k \in 0 .. (MaxPackets - 1), d \in Delays :
          pkt = [seq |-> k % SeqWrap, pts |-> k * Interval, due |-> k * Interval + d,
                 state |-> "flying"]
    BY DEF Packets
  <1>2. k \in Nat /\ d \in Nat /\ k % SeqWrap \in Nat
    BY PlayoutFacts
  <1>3. k * Interval \in Nat
    BY <1>2, PlayoutFacts
  <1> QED BY <1>1, <1>2, <1>3

\* The new estimate is between the old one and the difference just seen.
LEMMA EstimateRises ==
    ASSUME NEW e \in Nat, NEW abs \in Nat
    PROVE  /\ e + SatSub(abs, e) \div 16 \in Nat
           /\ e + SatSub(abs, e) \div 16 <= e \/ e + SatSub(abs, e) \div 16 <= abs
  BY DEF SatSub

\* Two packets whose delays are within lo .. hi: what their arrivals differ
\* from their timestamps is no more than that range, whichever was sent first.
LEMMA TransitWithin ==
    ASSUME NEW recv \in Nat, NEW pts \in Nat, NEW r0 \in Nat, NEW p0 \in Nat,
           NEW lo \in Int, NEW hi \in Int, r0 <= recv,
           lo <= recv - pts, recv - pts <= hi, lo <= r0 - p0, r0 - p0 <= hi
    PROVE  /\ Abs(SatSub(recv, r0) - SatSub(pts, p0)) \in Nat
           /\ Abs(SatSub(recv, r0) - SatSub(pts, p0)) <= hi - lo
  BY DEF Abs, SatSub

\* apply_transit keeps the estimate within the spread.
LEMMA TransitKeeps ==
    ASSUME EstimateInv, now \in Nat, NEW pts \in Nat, NEW lo \in Int, NEW hi \in Int, lo <= hi,
           lo <= now - pts, now - pts <= hi,
           spread # <<>> => lo <= spread.lo /\ spread.hi <= hi,
           ApplyTransit(pts, now)
    PROVE  ewma' \in Nat /\ target' \in TargetRange /\ ewma' <= hi - lo
  <1>0. ewma \in Nat /\ ewma <= hi - lo
    BY DEF EstimateInv
  <1>1. CASE last = <<>>
    BY <1>0, <1>1 DEF ApplyTransit, EstimateInv
  <1>2. CASE last # <<>>
    <2> DEFINE abs == Abs(SatSub(now, last.recv) - SatSub(pts, last.pts))
               e == ewma + SatSub(abs, ewma) \div 16
    <2>1. /\ last.pts \in Nat /\ last.recv \in Nat /\ last.recv <= now
          /\ lo <= last.recv - last.pts /\ last.recv - last.pts <= hi
      BY <1>2 DEF EstimateInv
    <2>2. abs \in Nat /\ abs <= hi - lo
      BY <2>1, TransitWithin
    <2>3. /\ ewma' = e
          /\ target' = Clamp(target + Div(2 * e - target, 8), MinTarget, MaxTarget)
      BY <1>2 DEF ApplyTransit
    <2> HIDE DEF abs
    <2>4. e \in Nat /\ (e <= ewma \/ e <= abs)
      BY <1>0, <2>2, EstimateRises
    <2> HIDE DEF e
    <2>5. target \in Int
      BY PlayoutFacts DEF EstimateInv, TargetRange
    <2>6. target + Div(2 * e - target, 8) \in Int
      BY <2>4, <2>5 DEF Div
    <2>7. target' \in TargetRange
      BY <2>3, <2>6, ClampWithin, PlayoutFacts, SMTT(30) DEF TargetRange
    <2> QED BY <1>0, <2>2, <2>3, <2>4, <2>7
  <1> QED BY <1>1, <1>2

\* A packet that arrives leaves the estimate within its limits.
LEMMA PushKeepsEstimate ==
    ASSUME EstimateInv, now \in Nat, now' = now, NEW pkt, pkt.pts \in Nat, Push(pkt)
    PROVE  EstimateInv'
  <1> DEFINE delay == now - pkt.pts
             lo == IF spread = <<>> THEN delay ELSE Min({spread.lo, delay})
             hi == IF spread = <<>> THEN delay ELSE Max({spread.hi, delay})
  <1>1. delay \in Int
    OBVIOUS
  <1>2. spread' = [lo |-> lo, hi |-> hi]
    BY DEF Push
  <1>3. /\ lo \in Int /\ hi \in Int /\ lo <= delay /\ delay <= hi
        /\ spread # <<>> => lo <= spread.lo /\ spread.hi <= hi
    <2>1. CASE spread = <<>>
      BY <1>1, <2>1
    <2>2. CASE spread # <<>>
      <3>1. spread.lo \in Int /\ spread.hi \in Int
        BY <2>2 DEF EstimateInv
      <3>2. lo = IF spread.lo <= delay THEN spread.lo ELSE delay
        BY <1>1, <2>2, <3>1, MinOfTwo
      <3>3. hi = IF spread.hi >= delay THEN spread.hi ELSE delay
        BY <1>1, <2>2, <3>1, MaxOfTwo
      <3> QED BY <1>1, <3>1, <3>2, <3>3
    <2> QED BY <2>1, <2>2
  <1> HIDE DEF lo, hi
  <1>4. spread' # <<>> /\ spread'.lo = lo /\ spread'.hi = hi
    BY <1>2
  <1>5. lo <= hi /\ ewma \in Nat /\ ewma <= hi - lo /\ target \in TargetRange
    <2>1. lo <= hi
      BY <1>1, <1>3
    <2>2. CASE spread = <<>>
      BY <1>3, <2>1, <2>2 DEF EstimateInv
    <2>3. CASE spread # <<>>
      BY <1>3, <2>1, <2>3 DEF EstimateInv
    <2> QED BY <2>1, <2>2, <2>3
  <1>6. ApplyTransit(pkt.pts, now) => ewma' \in Nat /\ target' \in TargetRange /\ ewma' <= hi - lo
    BY <1>1, <1>3, <1>5, TransitKeeps
  <1>7. /\ ewma' \in Nat /\ target' \in TargetRange /\ ewma' <= hi - lo
        /\ last' = last \/ (last'.pts = pkt.pts /\ last'.recv = now)
    <2>1. Adapt(pkt)
      BY DEF Push
    <2>2. CASE numbered
      BY <1>5, <1>6, <2>1, <2>2 DEF Adapt, Remember
    <2>3. CASE ~numbered
      BY <1>5, <1>6, <2>1, <2>3 DEF Adapt, Remember
    <2> QED BY <2>2, <2>3
  <1>8. last' # <<>> =>
          /\ last'.pts \in Nat /\ last'.recv \in Nat /\ last'.recv <= now
          /\ lo <= last'.recv - last'.pts /\ last'.recv - last'.pts <= hi
    <2>1. CASE last' = last
      BY <1>3, <2>1 DEF EstimateInv
    <2>2. CASE last'.pts = pkt.pts /\ last'.recv = now
      BY <1>1, <1>3, <2>2
    <2> QED BY <1>7, <2>1, <2>2
  <1> QED BY <1>3, <1>4, <1>5, <1>7, <1>8 DEF EstimateInv

\* A packet that arrives is put in its place.
LEMMA PushKeepsQueue ==
    ASSUME QueueInv, now \in Nat, now' = now, NEW pkt, pkt.pts \in Nat, Push(pkt)
    PROVE  QueueInv'
  <1> DEFINE e == [pts |-> pkt.pts, recv |-> now]
  <1>1. e \in Queued /\ e.recv = now
    BY DEF Queued
  <1>2. queue' = InsertByPts(queue, e)
    BY DEF Push
  <1> HIDE DEF e
  <1>3. /\ queue' \in Seq(Queued) /\ Len(queue') = Len(queue) + 1
        /\ \A i \in 1 .. Len(queue') : queue'[i].recv <= now
        /\ PlayOrder(queue')
    <2>1. /\ queue \in Seq(Queued) /\ PlayOrder(queue)
          /\ \A i \in 1 .. Len(queue) : queue[i].recv <= e.recv
      BY <1>1 DEF QueueInv
    <2> QED BY <1>1, <1>2, <2>1, InsertInOrder
  <1>4. received' = received + 1 /\ released' = released /\ dropped' = dropped
    BY DEF Push
  <1>5. /\ received \in Nat /\ released \in Nat /\ dropped \in Nat /\ Len(queue) \in Nat
        /\ received = released + dropped + Len(queue)
    BY DEF QueueInv, PacketsAccounted
  <1>6. PacketsAccounted'
    BY <1>3, <1>4, <1>5 DEF PacketsAccounted
  <1> QED BY <1>3, <1>4, <1>5, <1>6 DEF QueueInv

\* A packet that has gone is one that was there.
LEMMA GoneKeepsNet ==
    ASSUME NetInv, NEW pkt \in net,
           net' = (net \ {pkt}) \cup {[pkt EXCEPT !.state = "gone"]}
    PROVE  NetInv' /\ pkt.pts \in Nat
  <1>1. pkt \in [seq : Nat, pts : Nat, due : Nat, state : {"flying", "gone"}]
    BY DEF NetInv
  <1>2. [pkt EXCEPT !.state = "gone"] \in [seq : Nat, pts : Nat, due : Nat, state : {"flying", "gone"}]
    BY <1>1
  <1> QED BY <1>1, <1>2 DEF NetInv

\* A packet that is played is counted.
LEMMA TakeKeepsQueue ==
    ASSUME QueueInv, now \in Nat, now' = now, queue # <<>>, TakeFront, UNCHANGED <<received, dropped>>
    PROVE  QueueInv'
  <1>1. queue \in Seq(Queued) /\ Len(queue) \in Nat /\ Len(queue) >= 1
    BY EmptySeq DEF QueueInv
  <1>2. queue' = SubSeq(queue, 2, Len(queue))
    BY <1>1, TailIsSubSeq DEF TakeFront
  <1>3. /\ queue' \in Seq(Queued) /\ Len(queue') = Len(queue) - 1
        /\ \A i \in 1 .. (Len(queue) - 1) : queue'[i].recv <= now
        /\ PlayOrder(queue')
    <2>1. 1 \in 0 .. Len(queue) /\ 1 + 1 = 2
      BY <1>1
    <2>2. PlayOrder(queue) /\ \A i \in 1 .. Len(queue) : queue[i].recv <= now
      BY DEF QueueInv
    <2> QED BY <1>1, <1>2, <2>1, <2>2, RestInOrder
  <1>4. released' = released + 1 /\ received' = received /\ dropped' = dropped
    BY DEF TakeFront
  <1>5. /\ received \in Nat /\ released \in Nat /\ dropped \in Nat
        /\ received = released + dropped + Len(queue)
    BY DEF QueueInv, PacketsAccounted
  <1>6. PacketsAccounted'
    BY <1>1, <1>3, <1>4, <1>5 DEF PacketsAccounted
  <1> QED BY <1>3, <1>4, <1>5, <1>6 DEF QueueInv

\* A packet that is dropped is counted.
LEMMA DropKeepsQueue ==
    ASSUME QueueInv, now \in Nat, now' = now, DropLate
    PROVE  QueueInv'
  <1> DEFINE late(i) == Held(queue[i]) > target + LateThreshold
             T == {k \in 0 .. Len(queue) : \A i \in 1 .. k : late(i)}
             n == Max(T)
  <1>1. queue \in Seq(Queued) /\ Len(queue) \in Nat
    BY DEF QueueInv
  <1>2. n \in 0 .. Len(queue)
    <2>1. 0 \in T
      BY <1>1
    <2> HIDE DEF late
    <2>2. T \subseteq 0 .. Len(queue) /\ T # {}
      BY <2>1
    <2>3. n \in T
      BY <1>1, <2>2, MaxOfNats
    <2> QED BY <2>2, <2>3
  <1>3. /\ queue' = SubSeq(queue, n + 1, Len(queue))
        /\ dropped' = dropped + n
        /\ released' = released /\ received' = received
    BY DEF DropLate
  <1> HIDE DEF T, n
  <1>4. /\ queue' \in Seq(Queued) /\ Len(queue') = Len(queue) - n
        /\ \A i \in 1 .. (Len(queue) - n) : queue'[i].recv <= now
        /\ PlayOrder(queue')
    <2>1. PlayOrder(queue) /\ \A i \in 1 .. Len(queue) : queue[i].recv <= now
      BY DEF QueueInv
    <2> QED BY <1>1, <1>2, <1>3, <2>1, RestInOrder
  <1>5. /\ received \in Nat /\ released \in Nat /\ dropped \in Nat
        /\ received = released + dropped + Len(queue)
    BY DEF QueueInv, PacketsAccounted
  <1>6. PacketsAccounted'
    <2>1. /\ Len(queue') = Len(queue) - n /\ dropped' = dropped + n
          /\ released' = released /\ received' = received
      BY <1>3, <1>4
    <2>2. received' = released' + dropped' + Len(queue')
      BY <1>1, <1>2, <1>5, <2>1
    <2> QED BY <2>2 DEF PacketsAccounted
  <1>7. dropped' \in Nat
    BY <1>2, <1>3, <1>5
  <1> QED BY <1>3, <1>4, <1>5, <1>6, <1>7 DEF QueueInv

\* Every step of the jitter buffer keeps its invariant.
LEMMA JitterKeeps ==
    ASSUME JitterInv, now \in Nat, JitterStep
    PROVE  JitterInv'
  <1>0. now' = now
    BY DEF JitterStep
  <1>1. ASSUME UNCHANGED queue, UNCHANGED <<received, released, dropped>> PROVE QueueInv'
    BY <1>0, <1>1 DEF JitterInv, QueueInv, PacketsAccounted
  <1>2. ASSUME UNCHANGED <<ewma, target, spread, last>> PROVE EstimateInv'
    BY <1>0, <1>2 DEF JitterInv, EstimateInv
  <1>3. ASSUME NEW pkt \in Packets, Emit(pkt) PROVE JitterInv'
    <2>1. NetInv'
      BY <1>3, PacketKind DEF Emit, JitterInv, NetInv
    <2> QED BY <1>1, <1>2, <1>3, <2>1 DEF Emit, JitterInv
  <1>4. ASSUME NEW pkt \in net, Push(pkt) PROVE JitterInv'
    <2>1. NetInv' /\ pkt.pts \in Nat
      BY <1>4, GoneKeepsNet DEF Push, JitterInv
    <2>2. QueueInv'
      BY <1>0, <1>4, <2>1, PushKeepsQueue DEF JitterInv
    <2>3. EstimateInv'
      BY <1>0, <1>4, <2>1, PushKeepsEstimate DEF JitterInv
    <2> QED BY <2>1, <2>2, <2>3 DEF JitterInv
  <1>5. ASSUME NEW pkt \in net, Lose(pkt) PROVE JitterInv'
    <2>1. NetInv'
      BY <1>5, GoneKeepsNet DEF Lose, JitterInv
    <2> QED BY <1>1, <1>2, <1>5, <2>1 DEF Lose, JitterInv
  <1>6. CASE PopReady
    <2>1. NetInv'
      BY <1>6 DEF PopReady, JitterInv, NetInv
    <2>2. QueueInv'
      BY <1>0, <1>6, TakeKeepsQueue DEF PopReady, JitterInv
    <2> QED BY <1>2, <1>6, <2>1, <2>2 DEF PopReady, JitterInv
  <1>7. CASE PopFront
    <2>1. NetInv'
      BY <1>7 DEF PopFront, JitterInv, NetInv
    <2>2. QueueInv'
      BY <1>0, <1>7, TakeKeepsQueue DEF PopFront, JitterInv
    <2> QED BY <1>2, <1>7, <2>1, <2>2 DEF PopFront, JitterInv
  <1>8. CASE DropLate
    <2>1. NetInv'
      BY <1>8 DEF DropLate, JitterInv, NetInv
    <2>2. QueueInv'
      BY <1>0, <1>8, DropKeepsQueue DEF JitterInv
    <2> QED BY <1>2, <1>8, <2>1, <2>2 DEF DropLate, JitterInv
  <1> QED BY <1>3, <1>4, <1>5, <1>6, <1>7, <1>8 DEF JitterStep

\* Time changes nothing of it.
LEMMA JitterStays ==
    ASSUME JitterInv, now \in Nat, now' \in Nat, now <= now', UNCHANGED jitter
    PROVE  JitterInv'
  <1>1. NetInv'
    BY DEF JitterInv, NetInv, jitter
  <1>2. QueueInv'
    <2>1. queue' = queue /\ UNCHANGED <<received, released, dropped>>
      BY DEF jitter
    <2>2. \A i \in 1 .. Len(queue) : queue[i].recv <= now'
      <3> TAKE i \in 1 .. Len(queue)
      <3>1. queue[i] \in Queued /\ queue[i].recv <= now
        BY DEF JitterInv, QueueInv
      <3> QED BY <3>1 DEF Queued
    <2> QED BY <2>1, <2>2 DEF JitterInv, QueueInv, PacketsAccounted
  <1>3. EstimateInv'
    BY DEF JitterInv, EstimateInv, jitter
  <1> QED BY <1>1, <1>2, <1>3 DEF JitterInv

-----------------------------------------------------------------------------
(***************************************************************************)
(* The skew controller.                                                    *)
(***************************************************************************)

\* A stretch against the skew s.
Opposes(x, s) ==
    IF Abs(s) <= Deadband THEN x = 0
    ELSE /\ (x > 0) <=> (s > 0)
         /\ Abs(x) <= Abs(s) - Deadband

\* What is asked of a resampled block.
Faithful(i, o) ==
    LET rising(s) == \A k \in 2..Len(s) : s[k - 1] <= s[k]
    IN /\ o[1] = i[1]
       /\ \A k \in DOMAIN o : o[k] \in Min(ToSet(i))..Max(ToSet(i))
       /\ rising(i) => rising(o) /\ o[Len(o)] >= i[Max({1, Len(i) - 2})]

\* The offset is at most one step for every interval between the first and the
\* last step, and one.
OffsetInv ==
    /\ delay_offset \in Int
    /\ first_step \in -1 .. now /\ last_step \in -1 .. now
    /\ (first_step = -1) <=> (last_step = -1)
    /\ first_step = -1 => delay_offset = 0
    /\ first_step # -1 =>
         /\ first_step <= last_step
         /\ Abs(delay_offset) <=
              Step * (1 + (last_step - first_step) \div MinStepInterval)

SkewInv ==
    /\ OffsetInv
    /\ skew \in Int /\ stretch \in StretchRange /\ Opposes(stretch, skew)
    /\ pcm # <<>> => Faithful(pcm.input, pcm.output)

\* The constants of the skew correction.
LEMMA SkewFacts ==
    /\ Step \in Nat \ {0} /\ MinStepInterval \in Nat \ {0} /\ FullStretch \in Nat \ {0}
    /\ StretchDiv \in Nat \ {0} /\ StretchDiv >= 2 /\ Deadband \in Nat /\ Skews \subseteq Int
    /\ Pcm \subseteq Seq(Int) \ {<<>>}
  BY PlayoutAssumption

\* After a whole interval there is room for another step.
LEMMA IntervalCounts ==
    ASSUME NEW a \in Int, NEW b \in Int, NEW m \in Nat \ {0}, a >= b + m
    PROVE  a \div m >= b \div m + 1
  <1>1. b \div m \in Int /\ m * (b \div m) <= b
    BY DivLaw
  <1>2. m * (b \div m + 1) <= a
    BY <1>1
  <1> QED BY <1>1, <1>2, DivAtLeast

\* A step of the offset fits into the interval it takes.
LEMMA OffsetGrows ==
    ASSUME NEW x \in Int, NEW y \in Int, NEW d \in Int, NEW s \in Nat \ {0}, NEW off \in Int,
           Abs(off) <= s * (1 + x), y >= x + 1, d = s \/ d = -s
    PROVE  Abs(off + d) <= s * (1 + y)
  <1>1. (2 + x) * s <= (1 + y) * s
    BY MulMono
  <1>2. s * (1 + x) + s <= s * (1 + y)
    BY <1>1
  <1>3. Abs(off + d) <= Abs(off) + s
    BY DEF Abs
  <1>4. Abs(off) \in Int /\ Abs(off + d) \in Int /\ s * (1 + x) \in Int /\ s * (1 + y) \in Int
    BY DEF Abs
  <1> QED BY <1>2, <1>3, <1>4

\* The skew correction starts at zero.
LEMMA SkewInitial == SkewInit /\ now = 0 => SkewInv
  <1>1. 0 \in StretchRange
    BY SkewFacts DEF StretchRange
  <1>2. Opposes(0, 0)
    BY SkewFacts DEF Opposes, Abs
  <1> QED BY <1>1, <1>2 DEF SkewInit, SkewInv, OffsetInv

\* The stretch is within its range and acts against the skew.
LEMMA StretchActs ==
    ASSUME NEW s \in Int, Abs(s) > Deadband
    PROVE  Stretch(s) \in StretchRange /\ Opposes(Stretch(s), s)
  BY SkewFacts DEF Stretch, StretchRange, Opposes, Abs, Clamp

\* A correction is no larger than the intervals allow.
LEMMA UpdateKeepsOffset ==
    ASSUME OffsetInv, now \in Nat, now' = now, NEW s \in Int, Update(s)
    PROVE  OffsetInv'
  <1>1. CASE UNCHANGED <<delay_offset, last_step, first_step>>
    BY <1>1 DEF OffsetInv
  <1>2. ASSUME CanStep(now),
               delay_offset' = delay_offset + (IF s > 0 THEN Step ELSE -Step),
               last_step' = now, first_step' = IF first_step = -1 THEN now ELSE first_step
        PROVE  OffsetInv'
    <2> DEFINE d == IF s > 0 THEN Step ELSE -Step
    <2>1. d \in Int /\ (d = Step \/ d = -Step)
      BY SkewFacts
    <2>2. delay_offset' \in Int /\ delay_offset' = delay_offset + d
      BY <1>2, <2>1 DEF OffsetInv
    <2> HIDE DEF d
    <2>3. CASE first_step = -1
      <3>1. delay_offset = 0 /\ first_step' = now
        BY <1>2, <2>3 DEF OffsetInv
      <3>2. (now - now) \div MinStepInterval = 0
        BY SkewFacts
      <3>3. Abs(delay_offset') <= Step * (1 + 0)
        BY <2>1, <2>2, <3>1, SkewFacts DEF Abs
      <3> QED BY <1>2, <2>2, <3>1, <3>2, <3>3 DEF OffsetInv
    <2>4. CASE first_step # -1
      <3>1. /\ first_step \in Nat /\ last_step \in Nat /\ first_step <= last_step /\ last_step <= now
            /\ Abs(delay_offset) <=
                 Step * (1 + (last_step - first_step) \div MinStepInterval)
        BY <2>4 DEF OffsetInv
      <3>2. now - last_step >= MinStepInterval
        BY <1>2, <3>1, SkewFacts DEF CanStep, SatSub
      <3>3. now - first_step >= (last_step - first_step) + MinStepInterval
        BY <3>1, <3>2, SkewFacts
      <3>4. (now - first_step) \div MinStepInterval >=
              (last_step - first_step) \div MinStepInterval + 1
        BY <3>1, <3>3, SkewFacts, IntervalCounts
      <3>5. /\ (now - first_step) \div MinStepInterval \in Int
            /\ (last_step - first_step) \div MinStepInterval \in Int
        BY <3>1, SkewFacts, DivLaw
      <3>6. delay_offset \in Int
        BY DEF OffsetInv
      <3>7. Abs(delay_offset + d) <= Step * (1 + (now - first_step) \div MinStepInterval)
        BY <2>1, <3>1, <3>4, <3>5, <3>6, SkewFacts, OffsetGrows
      <3> QED BY <1>2, <2>2, <2>4, <3>1, <3>7 DEF OffsetInv
    <2> QED BY <2>3, <2>4
  <1> QED BY <1>1, <1>2 DEF Update

-----------------------------------------------------------------------------
\* The resampler.

\* Which sample lies at position j, and the two neighbours mixed.
Clip(j, n) == Min({j, n - 1}) + 1

Mix(s0, s1, frac, p) == Round(s0 * p + (s1 - s0) * frac, p)

Sample(input, p, q, k) ==
    Mix(input[Clip((k * q) \div p, Len(input))], input[Clip((k * q) \div p + 1, Len(input))],
        (k * q) % p, p)

\* The source index is clipped to the frame.
LEMMA ClipIs ==
    ASSUME NEW j \in Nat, NEW n \in Nat \ {0}
    PROVE  Clip(j, n) = IF j <= n - 1 THEN j + 1 ELSE n
  <1>1. Min({j, n - 1}) = IF j <= n - 1 THEN j ELSE n - 1
    BY MinOfTwo
  <1> QED BY <1>1 DEF Clip

\* A mixture lies between what is mixed, begins with the first and grows with
\* the share of a larger second.
LEMMA MixBetween ==
    ASSUME NEW s0 \in Int, NEW s1 \in Int, NEW p \in Nat \ {0}, NEW frac \in 0 .. (p - 1)
    PROVE  /\ Mix(s0, s1, frac, p) \in Int
           /\ s0 <= s1 => s0 <= Mix(s0, s1, frac, p) /\ Mix(s0, s1, frac, p) <= s1
           /\ s1 <= s0 => s1 <= Mix(s0, s1, frac, p) /\ Mix(s0, s1, frac, p) <= s0
           /\ frac = 0 => Mix(s0, s1, frac, p) = s0
  <1> DEFINE v == s0 * p + (s1 - s0) * frac
  <1>0. v \in Int /\ s0 * p \in Int /\ s1 * p \in Int
    OBVIOUS
  <1>1. Mix(s0, s1, frac, p) = Round(v, p)
    BY DEF Mix
  <1>2. Round(s0 * p, p) = s0 /\ Round(s1 * p, p) = s1
    BY RoundWhole
  <1>3. ASSUME s0 <= s1 PROVE s0 * p <= v /\ v <= s1 * p
    <2>1. 0 * (s1 - s0) <= frac * (s1 - s0) /\ frac * (s1 - s0) <= p * (s1 - s0)
      <3>1. s1 - s0 \in Nat /\ 0 <= frac /\ frac <= p /\ frac \in Int
        BY <1>3
      <3> QED BY <3>1, MulMono
    <2> QED BY <2>1
  <1>4. ASSUME s1 <= s0 PROVE s1 * p <= v /\ v <= s0 * p
    <2>1. 0 * (s0 - s1) <= frac * (s0 - s1) /\ frac * (s0 - s1) <= p * (s0 - s1)
      <3>1. s0 - s1 \in Nat /\ 0 <= frac /\ frac <= p /\ frac \in Int
        BY <1>4
      <3> QED BY <3>1, MulMono
    <2> QED BY <2>1
  <1>5. frac = 0 => v = s0 * p
    OBVIOUS
  <1> HIDE DEF v
  <1>6. Round(v, p) \in Int
    BY <1>0, RoundInt
  <1>7. ASSUME s0 <= s1 PROVE s0 <= Round(v, p) /\ Round(v, p) <= s1
    <2>1. Round(s0 * p, p) <= Round(v, p) /\ Round(v, p) <= Round(s1 * p, p)
      BY <1>0, <1>3, <1>7, RoundMono
    <2> QED BY <1>2, <2>1
  <1>8. ASSUME s1 <= s0 PROVE s1 <= Round(v, p) /\ Round(v, p) <= s0
    <2>1. Round(s1 * p, p) <= Round(v, p) /\ Round(v, p) <= Round(s0 * p, p)
      BY <1>0, <1>4, <1>8, RoundMono
    <2> QED BY <1>2, <2>1
  <1> QED BY <1>1, <1>2, <1>5, <1>6, <1>7, <1>8

\* A mixture grows with the share of a larger second sample.
LEMMA MixGrows ==
    ASSUME NEW s0 \in Int, NEW s1 \in Int, s0 <= s1, NEW p \in Nat \ {0},
           NEW f \in 0 .. (p - 1), NEW g \in 0 .. (p - 1), f <= g
    PROVE  Mix(s0, s1, f, p) <= Mix(s0, s1, g, p)
  <1>1. f * (s1 - s0) <= g * (s1 - s0)
    BY MulMono
  <1>2. s0 * p + (s1 - s0) * f <= s0 * p + (s1 - s0) * g
    BY <1>1
  <1>3. s0 * p + (s1 - s0) * f \in Int /\ s0 * p + (s1 - s0) * g \in Int
    OBVIOUS
  <1> QED BY <1>2, <1>3, RoundMono DEF Mix

Rising(s) == \A k \in 2..Len(s) : s[k - 1] <= s[k]

\* The parts a sample is made of.
LEMMA SampleParts ==
    ASSUME NEW input \in Seq(Int), Len(input) >= 1, NEW p \in Nat \ {0}, NEW q \in Nat \ {0},
           NEW k \in Nat
    PROVE  LET n == Len(input)
               i0 == (k * q) \div p
           IN /\ i0 \in Nat /\ (k * q) % p \in 0 .. (p - 1)
              /\ Clip(i0, n) \in 1 .. n /\ Clip(i0 + 1, n) \in 1 .. n
              /\ input[Clip(i0, n)] \in Int /\ input[Clip(i0 + 1, n)] \in Int
              /\ Rising(input) => input[Clip(i0, n)] <= input[Clip(i0 + 1, n)]
  <1> DEFINE n == Len(input)
             i0 == (k * q) \div p
  <1>0. n \in Nat \ {0} /\ \A j \in 1 .. n : input[j] \in Int
    OBVIOUS
  <1>1. i0 \in Nat /\ (k * q) % p \in 0 .. (p - 1)
    <2>1. k * q \in Nat
      OBVIOUS
    <2>2. p * 0 <= k * q
      BY <2>1
    <2>3. 0 <= (k * q) \div p
      BY <2>1, <2>2, DivAtLeast
    <2> QED BY <2>1, <2>3, DivLaw
  <1> HIDE DEF i0
  <1>2. /\ Clip(i0, n) = IF i0 <= n - 1 THEN i0 + 1 ELSE n
        /\ Clip(i0 + 1, n) = IF i0 + 1 <= n - 1 THEN i0 + 2 ELSE n
    BY <1>0, <1>1, ClipIs
  <1>3. Clip(i0, n) \in 1 .. n /\ Clip(i0 + 1, n) \in 1 .. n
    BY <1>0, <1>1, <1>2
  <1>4. ASSUME Rising(input) PROVE input[Clip(i0, n)] <= input[Clip(i0 + 1, n)]
    <2>1. CASE i0 + 1 <= n - 1
      <3>1. Clip(i0, n) = i0 + 1 /\ Clip(i0 + 1, n) = i0 + 2 /\ i0 + 2 \in 2 .. n
            /\ (i0 + 2) - 1 = i0 + 1
        BY <1>0, <1>1, <1>2, <2>1
      <3> QED BY <1>4, <3>1 DEF Rising
    <2>2. CASE i0 + 1 > n - 1
      <3>1. Clip(i0, n) = n /\ Clip(i0 + 1, n) = n
        BY <1>0, <1>1, <1>2, <2>2
      <3> QED BY <1>0, <3>1
    <2> QED BY <1>0, <1>1, <2>1, <2>2
  <1> QED BY <1>0, <1>1, <1>3, <1>4 DEF i0

\* A sample is within the range of the input; the first is the first.
LEMMA SampleWithin ==
    ASSUME NEW input \in Seq(Int), Len(input) >= 1, NEW p \in Nat \ {0}, NEW q \in Nat \ {0},
           NEW k \in Nat
    PROVE  /\ Sample(input, p, q, k) \in Min(ToSet(input)) .. Max(ToSet(input))
           /\ k = 0 => Sample(input, p, q, k) = input[1]
  <1> DEFINE n == Len(input)
             i0 == (k * q) \div p
             frac == (k * q) % p
             s0 == input[Clip(i0, n)]
             s1 == input[Clip(i0 + 1, n)]
             lo == Min(ToSet(input))
             hi == Max(ToSet(input))
  <1>1. /\ i0 \in Nat /\ frac \in 0 .. (p - 1)
        /\ Clip(i0, n) \in 1 .. n /\ Clip(i0 + 1, n) \in 1 .. n
        /\ s0 \in Int /\ s1 \in Int
    BY SampleParts
  <1>2. lo \in Int /\ hi \in Int /\ lo <= s0 /\ s0 <= hi /\ lo <= s1 /\ s1 <= hi
    BY <1>1, WithinRange
  <1>3. Sample(input, p, q, k) = Mix(s0, s1, frac, p)
    BY DEF Sample
  <1>4. k = 0 => frac = 0 /\ s0 = input[1]
    <2> SUFFICES ASSUME k = 0 PROVE frac = 0 /\ s0 = input[1]
      OBVIOUS
    <2>1. k * q = 0
      OBVIOUS
    <2>2. 0 \div p = 0 /\ 0 % p = 0
      OBVIOUS
    <2>3. i0 = 0 /\ frac = 0
      BY <2>1, <2>2
    <2>4. n \in Nat \ {0}
      OBVIOUS
    <2>5. Clip(0, n) = 1
      BY <2>4, ClipIs
    <2> QED BY <2>3, <2>5
  <1> HIDE DEF i0, frac, s0, s1, lo, hi
  <1>5. /\ Mix(s0, s1, frac, p) \in Int
        /\ s0 <= s1 => s0 <= Mix(s0, s1, frac, p) /\ Mix(s0, s1, frac, p) <= s1
        /\ s1 <= s0 => s1 <= Mix(s0, s1, frac, p) /\ Mix(s0, s1, frac, p) <= s0
        /\ frac = 0 => Mix(s0, s1, frac, p) = s0
    BY <1>1, MixBetween
  <1>6. Mix(s0, s1, frac, p) \in lo .. hi
    BY <1>1, <1>2, <1>5
  <1> QED BY <1>3, <1>4, <1>5, <1>6 DEF lo, hi

\* Samples of a rising input rise.
LEMMA SampleRises ==
    ASSUME NEW input \in Seq(Int), Len(input) >= 1, Rising(input),
           NEW p \in Nat \ {0}, NEW q \in Nat \ {0}, q <= 2 * p, NEW k \in Nat
    PROVE  Sample(input, p, q, k) <= Sample(input, p, q, k + 1)
  <1> DEFINE n == Len(input)
             a == (k * q) \div p
             b == ((k + 1) * q) \div p
             f == (k * q) % p
             g == ((k + 1) * q) % p
             x == k * q
             y == (k + 1) * q
  <1>0. n \in Nat \ {0} /\ k + 1 \in Nat /\ \A j \in 1 .. n : input[j] \in Int
    OBVIOUS
  <1>1. /\ a \in Nat /\ f \in 0 .. (p - 1)
        /\ Clip(a, n) \in 1 .. n /\ Clip(a + 1, n) \in 1 .. n
        /\ input[Clip(a, n)] \in Int /\ input[Clip(a + 1, n)] \in Int
        /\ input[Clip(a, n)] <= input[Clip(a + 1, n)]
    BY SampleParts
  <1>2. /\ b \in Nat /\ g \in 0 .. (p - 1)
        /\ Clip(b, n) \in 1 .. n /\ Clip(b + 1, n) \in 1 .. n
        /\ input[Clip(b, n)] \in Int /\ input[Clip(b + 1, n)] \in Int
        /\ input[Clip(b, n)] <= input[Clip(b + 1, n)]
    BY <1>0, SampleParts
  <1>3. x \in Int /\ y = x + q /\ y \in Int
    OBVIOUS
  <1>4. x = p * a + f /\ y = p * b + g
    BY <1>3, DivLaw
  <1>5. /\ Sample(input, p, q, k) = Mix(input[Clip(a, n)], input[Clip(a + 1, n)], f, p)
        /\ Sample(input, p, q, k + 1) = Mix(input[Clip(b, n)], input[Clip(b + 1, n)], g, p)
    BY DEF Sample
  <1> HIDE DEF a, b, f, g, x, y
  <1>6. a <= b /\ b <= a + 2
    <2>1. p * a <= y
      <3>1. p * a \in Int
        BY <1>1
      <3> QED BY <1>1, <1>3, <1>4, <3>1
    <2>2. y < p * (a + 3)
      <3>1. p * (a + 3) = p * a + 3 * p
        BY <1>1
      <3>2. p * a \in Int
        BY <1>1
      <3> QED BY <1>1, <1>3, <1>4, <3>1, <3>2
    <2>3. b = y \div p
      BY DEF b, y
    <2>4. a \in Int /\ a + 3 \in Int /\ y \in Int
      BY <1>1, <1>3
    <2>5. a <= y \div p
      BY <2>1, <2>4, DivAtLeast
    <2>6. y \div p < a + 3
      BY <2>2, <2>4, DivBelow
    <2> QED BY <1>1, <1>2, <2>3, <2>5, <2>6
  <1>7. CASE a = b
    <2>1. f <= g
      <3>1. p * a \in Int
        BY <1>1
      <3> QED BY <1>1, <1>2, <1>3, <1>4, <1>7, <3>1
    <2> QED BY <1>1, <1>2, <1>5, <1>7, <2>1, MixGrows
  <1>8. CASE a < b
    <2>1. Mix(input[Clip(a, n)], input[Clip(a + 1, n)], f, p) \in Int
          /\ Mix(input[Clip(a, n)], input[Clip(a + 1, n)], f, p) <= input[Clip(a + 1, n)]
      BY <1>1, MixBetween
    <2>2. Mix(input[Clip(b, n)], input[Clip(b + 1, n)], g, p) \in Int
          /\ input[Clip(b, n)] <= Mix(input[Clip(b, n)], input[Clip(b + 1, n)], g, p)
      BY <1>2, MixBetween
    <2>3. input[Clip(a + 1, n)] <= input[Clip(b, n)]
      <3>1. CASE b = a + 1
        BY <1>2, <3>1
      <3>2. CASE b = a + 2
        <4>1. a + 1 \in Nat
          BY <1>1
        <4>2. input[Clip(a + 1, n)] <= input[Clip((a + 1) + 1, n)]
          <5>1. /\ Clip(a + 1, n) = IF a + 1 <= n - 1 THEN a + 2 ELSE n
                /\ Clip(a + 2, n) = IF a + 2 <= n - 1 THEN a + 3 ELSE n
            BY <1>0, <1>1, ClipIs, SMTT(30)
          <5>2. (a + 1) + 1 = a + 2
            BY <1>1
          <5>3. CASE a + 2 <= n - 1
            <6>1. Clip(a + 1, n) = a + 2 /\ Clip(a + 2, n) = a + 3 /\ a + 3 \in 2 .. n
                  /\ (a + 3) - 1 = a + 2
              BY <1>0, <1>1, <5>1, <5>3
            <6> QED BY <5>2, <6>1 DEF Rising
          <5>4. CASE a + 2 > n - 1
            <6>1. Clip(a + 1, n) = n /\ Clip(a + 2, n) = n
              BY <1>0, <1>1, <5>1, <5>4
            <6> QED BY <1>0, <5>2, <6>1
          <5> QED BY <1>0, <1>1, <5>3, <5>4
        <4>3. (a + 1) + 1 = b
          BY <1>1, <3>2
        <4> QED BY <4>2, <4>3
      <3> QED BY <1>1, <1>2, <1>6, <1>8, <3>1, <3>2
    <2> DEFINE u == Mix(input[Clip(a, n)], input[Clip(a + 1, n)], f, p)
               v == Mix(input[Clip(b, n)], input[Clip(b + 1, n)], g, p)
               s == input[Clip(a + 1, n)]
               t == input[Clip(b, n)]
    <2>4. u \in Int /\ v \in Int /\ s \in Int /\ t \in Int /\ u <= s /\ s <= t /\ t <= v
      BY <1>1, <1>2, <2>1, <2>2, <2>3
    <2> HIDE DEF u, v, s, t
    <2>5. u <= v
      BY <2>4
    <2> QED BY <1>5, <2>5 DEF u, v
  <1> QED BY <1>1, <1>2, <1>6, <1>7, <1>8

\* How many samples come out, and where the last of them is read.
LEMMA FramesOut ==
    ASSUME NEW n \in Nat, n >= 2, NEW p \in Nat \ {0}, NEW q \in Nat \ {0}, q <= 2 * p
    PROVE  LET out == Max({Round(n * p, q), 1})
           IN out \in Nat /\ out >= 1 /\ n - 3 <= ((out - 1) * q) \div p
  <1> DEFINE r == Round(n * p, q)
             out == Max({r, 1})
             x == n * p
  <1>0. x \in Nat
    OBVIOUS
  <1>1. r \in Int /\ 2 * x < 2 * (q * r) + q
    BY <1>0, RoundInt, RoundNear
  <1> HIDE DEF r
  <1>2. out = IF r >= 1 THEN r ELSE 1
    BY <1>1, MaxOfTwo
  <1>3. out \in Nat /\ out >= 1 /\ r <= out /\ out - 1 \in Nat
    BY <1>1, <1>2
  <1> HIDE DEF out
  <1>4. (r - 1) * q <= (out - 1) * q
    <2>1. r - 1 \in Int /\ out - 1 \in Int /\ r - 1 <= out - 1 /\ q \in Nat
      BY <1>1, <1>3
    <2> QED BY <2>1, MulMono
  <1>5. 2 * x - 3 * q < 2 * ((r - 1) * q)
    <2>1. (r - 1) * q = q * r - q /\ q * r \in Int
      BY <1>1
    <2> QED BY <1>0, <1>1, <2>1
  <1>6. p * (n - 3) = x - 3 * p
    OBVIOUS
  <1>7. p * (n - 3) <= (out - 1) * q
    <2>1. (r - 1) * q \in Int /\ (out - 1) * q \in Int /\ p * (n - 3) \in Int
      BY <1>1, <1>3
    <2> HIDE DEF x
    <2> QED BY <1>0, <1>4, <1>5, <1>6, <2>1
  <1>8. (out - 1) * q \in Int /\ n - 3 \in Int
    BY <1>3
  <1>9. n - 3 <= ((out - 1) * q) \div p
    BY <1>7, <1>8, DivAtLeast
  <1> QED BY <1>3, <1>9 DEF out, r

\* Where the block is short or the ratio is one, it is copied.
LEMMA CopyFaithful ==
    ASSUME NEW input \in Seq(Int), Len(input) >= 1
    PROVE  Faithful(input, input)
  <1> DEFINE n == Len(input)
  <1>1. n \in Nat \ {0} /\ DOMAIN input = 1 .. n /\ \A j \in 1 .. n : input[j] \in Int
    OBVIOUS
  <1>2. \A k \in DOMAIN input : input[k] \in Min(ToSet(input)) .. Max(ToSet(input))
    BY <1>1, WithinRange
  <1>3. ASSUME \A k \in 2 .. n : input[k - 1] <= input[k]
        PROVE  input[n] >= input[Max({1, n - 2})]
    <2>1. Max({1, n - 2}) = IF 1 >= n - 2 THEN 1 ELSE n - 2
      BY <1>1, MaxOfTwo
    <2>2. CASE n = 1
      BY <1>1, <2>1, <2>2
    <2>3. CASE n = 2
      <3>1. Max({1, n - 2}) = 1 /\ 2 \in 2 .. n /\ 2 - 1 = 1 /\ 1 \in 1 .. n
        BY <2>1, <2>3
      <3>2. input[1] <= input[2] /\ input[1] \in Int /\ input[2] \in Int
        BY <1>1, <1>3, <2>3, <3>1
      <3> QED BY <2>3, <3>1, <3>2
    <2>4. CASE n >= 3
      <3>1. Max({1, n - 2}) = n - 2
        BY <1>1, <2>1, <2>4
      <3>2. n \in 2 .. n /\ n - 1 \in 2 .. n /\ (n - 1) - 1 = n - 2 /\ n - 2 \in 1 .. n
        BY <1>1, <2>4
      <3>3. input[n - 1] <= input[n] /\ input[n - 2] <= input[n - 1]
        BY <1>3, <3>2
      <3>4. input[n - 1] \in Int /\ input[n] \in Int /\ input[n - 2] \in Int
        BY <1>1, <3>2
      <3>5. input[n] >= input[n - 2]
        BY <3>3, <3>4
      <3> QED BY <3>1, <3>5
    <2> QED BY <1>1, <2>2, <2>3, <2>4
  <1>4. input[1] = input[1]
    OBVIOUS
  <1> QED BY <1>2, <1>3 DEF Faithful

\* linear_resample_i16 keeps what is asked of it for any block and any ratio
\* of at least a half.
LEMMA ResampleKeeps ==
    ASSUME NEW input \in Seq(Int), Len(input) >= 1,
           NEW p \in Nat \ {0}, NEW q \in Nat \ {0}, q <= 2 * p
    PROVE  Faithful(input, LinearResample(input, p, q))
  <1> DEFINE n == Len(input)
             out == Max({Round(n * p, q), 1})
             o == LinearResample(input, p, q)
  <1>0. n \in Nat \ {0} /\ \A j \in 1 .. n : input[j] \in Int
    OBVIOUS
  <1>1. CASE n <= 1 \/ p = q
    <2>1. o = input
      BY <1>1 DEF LinearResample
    <2> QED BY <2>1, CopyFaithful
  <1>2. CASE ~(n <= 1 \/ p = q)
    <2>1. out \in Nat /\ out >= 1 /\ n - 3 <= ((out - 1) * q) \div p
      BY <1>0, <1>2, FramesOut
    <2>2. o = [k \in 1 .. out |-> Sample(input, p, q, k - 1)]
      BY <1>2 DEF LinearResample, Sample, Mix, Clip
    <2> HIDE DEF out, o
    <2>3. \A k \in 1 .. out : k - 1 \in Nat /\ o[k] = Sample(input, p, q, k - 1)
      BY <2>1, <2>2
    <2>4. \A k \in 1 .. out : o[k] \in Min(ToSet(input)) .. Max(ToSet(input))
      BY <2>3, SampleWithin, ZenonT(60)
    <2>5. DOMAIN o = 1 .. out
      BY <2>2
    <2>6. \A k \in 1 .. out : o[k] \in Int
      <3>1. Min(ToSet(input)) \in Int /\ Max(ToSet(input)) \in Int
        BY WithinRange
      <3> QED BY <2>4, <3>1
    <2>7. Len(o) = out
      <3>1. o \in [1 .. out -> Int]
        BY <2>2, <2>3, <2>6
      <3> QED BY <2>1, <3>1, ListOf
    <2>8. o[1] = input[1]
      <3>1. 1 \in 1 .. out /\ 1 - 1 = 0 /\ 0 \in Nat
        BY <2>1
      <3>2. Sample(input, p, q, 0) = input[1]
        BY <3>1, SampleWithin
      <3>3. o[1] = Sample(input, p, q, 0)
        BY <2>3, <3>1
      <3> QED BY <3>2, <3>3
    <2>9. ASSUME Rising(input)
          PROVE  /\ \A k \in 2 .. Len(o) : o[k - 1] <= o[k]
                 /\ o[Len(o)] >= input[Max({1, n - 2})]
      <3>1. ASSUME NEW k \in 2 .. out PROVE o[k - 1] <= o[k]
        <4>1. k - 2 \in Nat /\ k - 1 \in 1 .. out /\ k \in 1 .. out
              /\ (k - 1) - 1 = k - 2 /\ (k - 2) + 1 = k - 1
          BY <2>1
        <4>2. Sample(input, p, q, k - 2) <= Sample(input, p, q, (k - 2) + 1)
          BY <2>9, <4>1, SampleRises
        <4>3. o[k - 1] = Sample(input, p, q, k - 2) /\ o[k] = Sample(input, p, q, k - 1)
          BY <2>3, <4>1
        <4> QED BY <4>1, <4>2, <4>3
      <3>2. o[out] >= input[Max({1, n - 2})]
        <4> DEFINE kk == out - 1
                   i0 == (kk * q) \div p
                   frac == (kk * q) % p
                   s0 == input[Clip(i0, n)]
                   s1 == input[Clip(i0 + 1, n)]
        <4>1. kk \in Nat /\ out \in 1 .. out
          BY <2>1
        <4>2. /\ i0 \in Nat /\ frac \in 0 .. (p - 1)
              /\ Clip(i0, n) \in 1 .. n /\ Clip(i0 + 1, n) \in 1 .. n
              /\ s0 \in Int /\ s1 \in Int /\ s0 <= s1
          BY <2>9, <4>1, SampleParts
        <4>3. o[out] = Mix(s0, s1, frac, p)
          BY <2>3, <4>1 DEF Sample
        <4>4. n - 3 <= i0
          BY <2>1
        <4> HIDE DEF i0, frac
        <4>5. Clip(i0, n) = IF i0 <= n - 1 THEN i0 + 1 ELSE n
          BY <1>0, <4>2, ClipIs
        <4> HIDE DEF s0, s1
        <4>6. Mix(s0, s1, frac, p) \in Int /\ s0 <= Mix(s0, s1, frac, p)
          BY <4>2, MixBetween
        <4>7. Max({1, n - 2}) = IF 1 >= n - 2 THEN 1 ELSE n - 2
          BY <1>0, MaxOfTwo
        <4>8. \A j \in 1 .. n : j + 1 <= n => input[j] <= input[j + 1]
          <5> TAKE j \in 1 .. n
          <5> HAVE j + 1 <= n
          <5>1. j + 1 \in 2 .. n /\ (j + 1) - 1 = j
            BY <1>0
          <5> QED BY <2>9, <5>1 DEF Rising
        <4> DEFINE b == Max({1, n - 2})
                   c == Clip(i0, n)
        <4>9. b \in 1 .. n /\ c \in 1 .. n /\ b <= c /\ c <= b + 2
          <5>1. b = (IF 1 >= n - 2 THEN 1 ELSE n - 2) /\ n \in Nat /\ n >= 2
            BY <1>0, <1>2, <4>7
          <5>2. c = (IF i0 <= n - 1 THEN i0 + 1 ELSE n) /\ i0 \in Nat /\ n - 3 <= i0
            BY <4>2, <4>4, <4>5
          <5> HIDE DEF b, c
          <5> QED BY <5>1, <5>2
        <4> HIDE DEF b, c
        <4>10. input[b] <= input[c]
          <5>1. CASE c = b
            BY <1>0, <4>9, <5>1
          <5>2. CASE c = b + 1
            BY <4>8, <4>9, <5>2
          <5>3. CASE c = b + 2
            <6>1. b + 1 \in 1 .. n /\ (b + 1) + 1 = c
              BY <1>0, <4>9, <5>3
            <6>2. input[b] <= input[b + 1] /\ input[b + 1] <= input[c]
              BY <4>8, <4>9, <6>1
            <6>3. input[b] \in Int /\ input[b + 1] \in Int /\ input[c] \in Int
              BY <1>0, <4>9, <6>1
            <6> QED BY <6>2, <6>3
          <5> QED BY <1>0, <4>9, <5>1, <5>2, <5>3
        <4>11. input[c] = s0 /\ input[b] \in Int /\ s0 \in Int
          BY <1>0, <4>2, <4>9 DEF s0, c
        <4>12. input[b] <= Mix(s0, s1, frac, p)
          BY <4>6, <4>10, <4>11
        <4> QED BY <4>3, <4>6, <4>11, <4>12 DEF b
      <3> QED BY <2>7, <3>1, <3>2
    <2>10. \A k \in DOMAIN o : o[k] \in Min(ToSet(input)) .. Max(ToSet(input))
      BY <2>4, <2>5
    <2>11. Rising(input) => Rising(o) /\ o[Len(o)] >= input[Max({1, Len(input) - 2})]
      BY <2>9 DEF Rising
    <2> QED BY <2>8, <2>10, <2>11 DEF Faithful, Rising, o
  <1> QED BY <1>1, <1>2

-----------------------------------------------------------------------------
\* Every step of the skew correction keeps its invariant.
LEMMA SkewKeeps ==
    ASSUME SkewInv, now \in Nat, SkewStep
    PROVE  SkewInv'
  <1>0. now' = now
    BY DEF SkewStep
  <1>1. CASE Reset
    BY <1>0, <1>1 DEF Reset, SkewInv, OffsetInv
  <1>2. ASSUME NEW s \in Skews, Update(s) PROVE SkewInv'
    <2>1. s \in Int
      BY SkewFacts
    <2>2. OffsetInv'
      BY <1>0, <1>2, <2>1, UpdateKeepsOffset DEF SkewInv
    <2>3. skew' = s /\ pcm' = pcm
      BY <1>2 DEF Update
    <2>4. stretch' \in StretchRange /\ Opposes(stretch', s)
      <3>1. CASE Abs(s) <= Deadband
        <4>1. stretch' = 0
          BY <1>2, <3>1 DEF Update
        <4>2. 0 \in StretchRange
          BY SkewFacts DEF StretchRange
        <4> QED BY <3>1, <4>1, <4>2 DEF Opposes
      <3>2. CASE ~(Abs(s) <= Deadband)
        <4>1. stretch' = Stretch(s)
          BY <1>2, <3>2 DEF Update
        <4>2. Abs(s) > Deadband
          BY <2>1, <3>2, SkewFacts DEF Abs
        <4> QED BY <2>1, <4>1, <4>2, StretchActs
      <3> QED BY <3>1, <3>2
    <2>5. pcm' # <<>> => Faithful(pcm'.input, pcm'.output)
      BY <2>3 DEF SkewInv
    <2> QED BY <2>1, <2>2, <2>3, <2>4, <2>5 DEF SkewInv, Opposes
  <1>3. ASSUME NEW block \in Pcm, Resample(block) PROVE SkewInv'
    <2> DEFINE p == StretchDiv * FullStretch + stretch
               q == StretchDiv * FullStretch
    <2>1. block \in Seq(Int) /\ Len(block) >= 1
      <3>1. block \in Seq(Int) /\ block # <<>>
        BY SkewFacts
      <3> QED BY <3>1, EmptySeq
    <2>2. p \in Nat \ {0} /\ q \in Nat \ {0} /\ q <= 2 * p
      <3>1. 2 * FullStretch <= StretchDiv * FullStretch
        BY SkewFacts, MulMono
      <3>2. StretchDiv * FullStretch \in Nat
        BY SkewFacts
      <3>3. stretch \in Int /\ -FullStretch <= stretch
        BY SkewFacts DEF SkewInv, StretchRange
      <3> QED BY <3>1, <3>2, <3>3, SkewFacts
    <2>3. pcm' = [input |-> block, output |-> LinearResample(block, p, q)]
      BY <1>3 DEF Resample
    <2> HIDE DEF p, q
    <2>4. Faithful(block, LinearResample(block, p, q))
      BY <2>1, <2>2, ResampleKeeps
    <2>5. Faithful(pcm'.input, pcm'.output)
      BY <2>3, <2>4
    <2>6. UNCHANGED <<delay_offset, last_step, first_step, stretch, skew>>
      BY <1>3 DEF Resample
    <2> QED BY <1>0, <2>5, <2>6 DEF SkewInv, OffsetInv
  <1> QED BY <1>1, <1>2, <1>3 DEF SkewStep

\* A step of another part keeps the invariant of the skew correction.
LEMMA SkewStays ==
    ASSUME SkewInv, now \in Nat, now' \in Nat, now <= now', UNCHANGED skewing
    PROVE  SkewInv'
  <1>1. OffsetInv'
    BY DEF SkewInv, OffsetInv, skewing
  <1> QED BY <1>1 DEF SkewInv, skewing

-----------------------------------------------------------------------------
(***************************************************************************)
(* Audio while the picture is frozen.                                      *)
(***************************************************************************)

\* What tick would answer at time t, the picture having stood since seen.
GainAt(t, seen) ==
    IF \/ freeze_mode = "continue"
       \/ seen = -1
       \/ SatSub(t, seen) <= FreezeThreshold
    THEN Unity
    ELSE IF freeze_mode = "duck" THEN DuckGain
         ELSE HoldFade(SatSub(t, seen) - FreezeThreshold).gain

\* The volume has come down no further than it may by now, and only because
\* of a picture that has stood.
FreezeInv ==
    /\ last_video = shown /\ shown \in -1 .. now
    /\ gain \in 0 .. Unity /\ hold_last \in BOOLEAN
    /\ gain < Unity => shown # -1 /\ now - shown > FreezeThreshold
    /\ GainAt(now, shown) <= gain

\* The constants of the freeze policy.
LEMMA FreezeFacts ==
    /\ Hold \in Nat /\ Fade \in Nat \ {0} /\ Unity \in Nat \ {0} /\ FreezeThreshold \in Nat
    /\ DuckGain \in 0 .. Unity
  BY PlayoutAssumption

\* Hold, then fade: within the range of volumes, and only ever down.
LEMMA FadeWithin ==
    ASSUME NEW s \in Nat
    PROVE  HoldFade(s).gain \in 0 .. Unity /\ HoldFade(s).hold \in BOOLEAN
  <1>1. CASE s < Hold
    BY <1>1, FreezeFacts DEF HoldFade
  <1>2. CASE ~(s < Hold) /\ s - Hold < Fade
    <2> DEFINE x == s - Hold
    <2>1. x \in Nat /\ x < Fade
      BY <1>2, FreezeFacts
    <2>2. HoldFade(s) = [gain |-> Unity - (x * Unity) \div Fade, hold |-> TRUE]
      BY <1>2 DEF HoldFade
    <2> HIDE DEF x
    <2>3. 0 <= x * Unity /\ x * Unity <= Fade * Unity
      <3>1. 0 * Unity <= x * Unity /\ x * Unity <= Fade * Unity
        BY <2>1, FreezeFacts, MulMono
      <3> QED BY <3>1, FreezeFacts
    <2>4. 0 <= (x * Unity) \div Fade
      <3>1. x * Unity \in Int /\ Fade * 0 <= x * Unity
        BY <2>1, <2>3, FreezeFacts
      <3> QED BY <3>1, FreezeFacts, DivAtLeast
    <2>5. (x * Unity) \div Fade < Unity + 1
      <3>1. x * Unity \in Int /\ x * Unity < Fade * (Unity + 1)
        BY <2>1, <2>3, FreezeFacts
      <3> QED BY <3>1, FreezeFacts, DivBelow, SMTT(30)
    <2>6. (x * Unity) \div Fade \in Int
      BY <2>1, FreezeFacts, DivLaw
    <2> QED BY <2>2, <2>4, <2>5, <2>6, FreezeFacts
  <1>3. CASE ~(s < Hold) /\ ~(s - Hold < Fade)
    BY <1>3, FreezeFacts DEF HoldFade
  <1> QED BY <1>1, <1>2, <1>3

\* The longer the fade, the lower the gain.
LEMMA FadeFalls ==
    ASSUME NEW s \in Nat, NEW r \in Nat, s <= r
    PROVE  HoldFade(r).gain <= HoldFade(s).gain
  <1>0. HoldFade(r).gain \in 0 .. Unity /\ HoldFade(s).gain \in 0 .. Unity
    BY FadeWithin
  <1>1. CASE s < Hold
    <2>1. HoldFade(s).gain = Unity
      BY <1>1 DEF HoldFade
    <2> QED BY <1>0, <2>1, FreezeFacts
  <1>2. CASE ~(s < Hold) /\ r - Hold < Fade
    <2> DEFINE x == s - Hold
               y == r - Hold
    <2>1. x \in Nat /\ y \in Nat /\ x <= y
      BY <1>2, FreezeFacts
    <2>2. HoldFade(s).gain = Unity - (x * Unity) \div Fade
      BY <1>2, FreezeFacts DEF HoldFade
    <2>3. HoldFade(r).gain = Unity - (y * Unity) \div Fade
      BY <1>2, FreezeFacts DEF HoldFade
    <2> HIDE DEF x, y
    <2>4. x * Unity <= y * Unity
      BY <2>1, FreezeFacts, MulMono
    <2>5. x * Unity \in Int /\ y * Unity \in Int
      BY <2>1, FreezeFacts
    <2>6. (x * Unity) \div Fade <= (y * Unity) \div Fade
      BY <2>4, <2>5, FreezeFacts, DivMono
    <2>7. (x * Unity) \div Fade \in Int /\ (y * Unity) \div Fade \in Int
      BY <2>5, FreezeFacts, DivLaw
    <2> QED BY <2>2, <2>3, <2>6, <2>7, FreezeFacts
  <1>3. CASE ~(s < Hold) /\ ~(r - Hold < Fade)
    <2>1. ~(r < Hold)
      BY <1>3, FreezeFacts
    <2>2. HoldFade(r).gain = 0
      BY <1>3, <2>1 DEF HoldFade
    <2> QED BY <1>0, <2>2
  <1> QED BY <1>1, <1>2, <1>3

\* A gain lies between silence and unity.
LEMMA GainWithin ==
    ASSUME NEW t \in Nat, NEW seen \in -1 .. t
    PROVE  /\ GainAt(t, seen) \in 0 .. Unity
           /\ GainAt(t, seen) < Unity => seen # -1 /\ t - seen > FreezeThreshold
  <1>1. CASE freeze_mode = "continue" \/ seen = -1 \/ SatSub(t, seen) <= FreezeThreshold
    BY <1>1, FreezeFacts DEF GainAt
  <1>2. CASE ~(freeze_mode = "continue" \/ seen = -1 \/ SatSub(t, seen) <= FreezeThreshold)
    <2>1. SatSub(t, seen) - FreezeThreshold \in Nat /\ seen # -1 /\ t - seen > FreezeThreshold
      BY <1>2, FreezeFacts DEF SatSub
    <2>2. HoldFade(SatSub(t, seen) - FreezeThreshold).gain \in 0 .. Unity
      BY <2>1, FadeWithin
    <2>3. GainAt(t, seen) \in 0 .. Unity
      BY <1>2, <2>2, FreezeFacts DEF GainAt
    <2> QED BY <2>1, <2>3
  <1> QED BY <1>1, <1>2

\* While the video is frozen the gain falls.
LEMMA GainFalls ==
    ASSUME NEW t \in Nat, NEW u \in Nat, t <= u, NEW seen \in -1 .. t
    PROVE  GainAt(u, seen) <= GainAt(t, seen)
  <1>0. GainAt(t, seen) \in 0 .. Unity /\ GainAt(u, seen) \in 0 .. Unity
    BY GainWithin
  <1>1. CASE freeze_mode = "continue" \/ seen = -1 \/ SatSub(t, seen) <= FreezeThreshold
    <2>1. GainAt(t, seen) = Unity
      BY <1>1 DEF GainAt
    <2> QED BY <1>0, <2>1, FreezeFacts
  <1>2. CASE ~(freeze_mode = "continue" \/ seen = -1 \/ SatSub(t, seen) <= FreezeThreshold)
    <2> DEFINE s == SatSub(t, seen) - FreezeThreshold
               r == SatSub(u, seen) - FreezeThreshold
    <2>1. s \in Nat /\ r \in Nat /\ s <= r /\ ~(SatSub(u, seen) <= FreezeThreshold)
      BY <1>2, FreezeFacts DEF SatSub
    <2>2. CASE freeze_mode = "duck"
      <3>1. GainAt(t, seen) = DuckGain /\ GainAt(u, seen) = DuckGain
        BY <1>2, <2>1, <2>2 DEF GainAt
      <3> QED BY <3>1, FreezeFacts
    <2>3. CASE freeze_mode # "duck"
      <3>1. GainAt(t, seen) = HoldFade(s).gain /\ GainAt(u, seen) = HoldFade(r).gain
        BY <1>2, <2>1, <2>3 DEF GainAt
      <3> QED BY <2>1, <3>1, FadeFalls
    <2> QED BY <2>2, <2>3
  <1> QED BY <1>1, <1>2

\* The freeze policy starts at full volume.
LEMMA FreezeInitial == FreezeInit /\ now = 0 => FreezeInv
  <1> SUFFICES ASSUME FreezeInit, now = 0 PROVE FreezeInv
    OBVIOUS
  <1>1. GainAt(now, -1) = Unity
    BY DEF GainAt
  <1>2. /\ last_video = shown /\ shown \in -1 .. now /\ shown = -1
        /\ gain \in 0 .. Unity /\ ~(gain < Unity) /\ gain = Unity
    BY FreezeFacts DEF FreezeInit
  <1>3. hold_last \in BOOLEAN
    BY DEF FreezeInit
  <1>4. GainAt(now, shown) <= gain
    BY <1>1, <1>2, FreezeFacts
  <1> QED BY <1>2, <1>3, <1>4 DEF FreezeInv

\* A tick answers with the volume of its time.
LEMMA TickAnswers ==
    ASSUME FreezeTick
    PROVE  gain' = GainAt(now, last_video)
  BY DEF FreezeTick, GainAt

\* Whether the last picture is held is yes or no.
LEMMA TickHolds ==
    ASSUME FreezeTick, now \in Nat, last_video \in -1 .. now
    PROVE  hold_last' \in BOOLEAN
  <1>1. CASE \/ freeze_mode = "continue" \/ last_video = -1
             \/ SatSub(now, last_video) <= FreezeThreshold
    BY <1>1 DEF FreezeTick
  <1>2. CASE ~ (\/ freeze_mode = "continue" \/ last_video = -1
                \/ SatSub(now, last_video) <= FreezeThreshold)
    <2>1. SatSub(now, last_video) - FreezeThreshold \in Nat
      BY <1>2, FreezeFacts DEF SatSub
    <2>2. HoldFade(SatSub(now, last_video) - FreezeThreshold).hold \in BOOLEAN
      BY <2>1, FadeWithin
    <2> QED BY <1>2, <2>2 DEF FreezeTick
  <1> QED BY <1>1, <1>2

\* Every step of the freeze policy keeps its invariant.
LEMMA FreezeKeeps ==
    ASSUME FreezeInv, now \in Nat, FreezeStep
    PROVE  FreezeInv' /\ (shown' = shown => gain' <= gain)
  <1>0. now' = now /\ freeze_mode' = freeze_mode
    BY DEF FreezeStep
  <1>1. CASE OnVideoFrame /\ shown' = now
    <2>1. last_video' = now /\ gain' = Unity /\ hold_last' = FALSE /\ shown' = now
      BY <1>1 DEF OnVideoFrame
    <2>2. GainAt(now, now) = Unity
      BY FreezeFacts DEF GainAt, SatSub
    <2>3. hold_last' \in BOOLEAN
      BY <2>1
    <2>4. GainAt(now, shown)' = Unity
      BY <1>0, <2>1, FreezeFacts DEF GainAt, SatSub
    <2>5. FreezeInv'
      <3>1. /\ last_video' = shown' /\ shown' \in -1 .. now'
            /\ gain' \in 0 .. Unity /\ ~(gain' < Unity)
        BY <1>0, <2>1, FreezeFacts
      <3>2. GainAt(now, shown)' <= gain'
        BY <2>1, <2>4, FreezeFacts
      <3> QED BY <2>3, <3>1, <3>2 DEF FreezeInv
    <2>6. shown' = shown => gain' <= gain
      <3> SUFFICES ASSUME shown = now PROVE Unity <= gain
        BY <2>1
      <3>1. GainAt(now, shown) = Unity
        BY <2>2
      <3> QED BY <3>1 DEF FreezeInv
    <2> QED BY <2>5, <2>6
  <1>2. CASE FreezeTick /\ UNCHANGED shown
    <2>1. last_video = shown /\ shown \in -1 .. now /\ last_video' = last_video /\ shown' = shown
      BY <1>2 DEF FreezeInv, FreezeTick
    <2>2. gain' = GainAt(now, shown)
      BY <1>2, <2>1, TickAnswers
    <2>3. /\ GainAt(now, shown) \in 0 .. Unity
          /\ GainAt(now, shown) < Unity => shown # -1 /\ now - shown > FreezeThreshold
      BY <2>1, GainWithin
    <2>4. GainAt(now, shown)' = GainAt(now, shown)
      BY <1>0, <2>1 DEF GainAt, HoldFade, SatSub
    <2>5. hold_last' \in BOOLEAN
      BY <1>2, <2>1, TickHolds
    <2>6. GainAt(now, shown) <= gain
      BY DEF FreezeInv
    <2>7. FreezeInv'
      BY <1>0, <2>1, <2>2, <2>3, <2>4, <2>5 DEF FreezeInv
    <2> QED BY <2>2, <2>6, <2>7
  <1> QED BY <1>1, <1>2 DEF FreezeStep

\* A step of another part keeps the invariant of the freeze policy.
LEMMA FreezeStays ==
    ASSUME FreezeInv, now \in Nat, now' \in Nat, now <= now', UNCHANGED freezing
    PROVE  FreezeInv' /\ gain' = gain
  <1>0. /\ freeze_mode' = freeze_mode /\ last_video' = last_video /\ shown' = shown
        /\ gain' = gain /\ hold_last' = hold_last
    BY DEF freezing
  <1>1. shown \in -1 .. now /\ gain \in 0 .. Unity
    BY DEF FreezeInv
  <1>2. GainAt(now', shown) <= GainAt(now, shown)
    BY <1>1, GainFalls
  <1>3. GainAt(now, shown)' = GainAt(now', shown)
    BY <1>0 DEF GainAt, HoldFade, SatSub
  <1>4. GainAt(now', shown) \in 0 .. Unity /\ GainAt(now, shown) \in 0 .. Unity
    <2>1. shown \in -1 .. now'
      BY <1>1
    <2> QED BY <1>1, <2>1, GainWithin
  <1>5. GainAt(now', shown) <= gain
    BY <1>1, <1>2, <1>4 DEF FreezeInv
  <1>6. hold_last' \in BOOLEAN
    BY <1>0 DEF FreezeInv
  <1>7. /\ last_video' = shown' /\ shown' \in -1 .. now' /\ gain' \in 0 .. Unity
        /\ gain' < Unity => shown' # -1 /\ now' - shown' > FreezeThreshold
    <2>1. last_video = shown /\ (gain < Unity => shown # -1 /\ now - shown > FreezeThreshold)
      BY DEF FreezeInv
    <2>2. last_video' = shown' /\ shown' \in -1 .. now' /\ gain' \in 0 .. Unity
      BY <1>0, <1>1, <2>1
    <2>3. gain' < Unity => shown' # -1 /\ now' - shown' > FreezeThreshold
      <3>1. gain' = gain /\ shown' = shown /\ shown \in Int
        BY <1>0, <1>1
      <3> SUFFICES ASSUME gain < Unity PROVE shown # -1 /\ now' - shown > FreezeThreshold
        BY <3>1
      <3>2. shown # -1 /\ now - shown > FreezeThreshold
        BY <2>1
      <3>3. FreezeThreshold \in Int /\ now - shown \in Int
        BY <3>1, FreezeFacts
      <3>4. \A a, b \in Nat, s, t \in Int : a <= b /\ a - s > t => b - s > t
        OBVIOUS
      <3> QED BY <3>1, <3>2, <3>3, <3>4
    <2> QED BY <2>2, <2>3
  <1>8. GainAt(now, shown)' <= gain'
    BY <1>0, <1>3, <1>5
  <1> QED BY <1>0, <1>6, <1>7, <1>8 DEF FreezeInv

-----------------------------------------------------------------------------
(***************************************************************************)
(* The playout as a whole.                                                 *)
(***************************************************************************)
PlayoutInv == ClockInv /\ JitterInv /\ SkewInv /\ FreezeInv

\* The invariant holds at first.
LEMMA PlayoutStarts == PlayoutInit => PlayoutInv
  <1> SUFFICES ASSUME PlayoutInit PROVE PlayoutInv
    OBVIOUS
  <1>1. ClockInv
    BY PlayoutFacts DEF PlayoutInit, ClockInv
  <1>2. JitterInv
    BY JitterInitial DEF PlayoutInit
  <1>3. SkewInv
    BY SkewInitial DEF PlayoutInit
  <1>4. FreezeInv
    BY FreezeInitial DEF PlayoutInit
  <1> QED BY <1>1, <1>2, <1>3, <1>4 DEF PlayoutInv

\* Every step keeps it, and lowers the gain while no frame comes.
LEMMA PlayoutStep ==
    ASSUME PlayoutInv, [PlayoutNext]_pvars
    PROVE  PlayoutInv' /\ (part = "freeze" /\ shown' = shown => gain' <= gain)
  <1>0. now \in Nat /\ gain \in 0 .. Unity
    BY DEF PlayoutInv, ClockInv, FreezeInv
  <1>1. CASE part = "jitter" /\ JitterStep /\ UNCHANGED part
    <2>1. now' = now /\ UNCHANGED skewing /\ UNCHANGED freezing
      BY <1>1 DEF JitterStep
    <2>2. ClockInv'
      BY <1>1, <2>1 DEF PlayoutInv, ClockInv
    <2>3. JitterInv'
      BY <1>0, <1>1, JitterKeeps DEF PlayoutInv
    <2>4. SkewInv'
      BY <1>0, <2>1, SkewStays DEF PlayoutInv
    <2>5. FreezeInv'
      BY <1>0, <2>1, FreezeStays DEF PlayoutInv
    <2> QED BY <1>1, <2>2, <2>3, <2>4, <2>5 DEF PlayoutInv
  <1>2. CASE part = "skew" /\ SkewStep /\ UNCHANGED part
    <2>1. now' = now /\ UNCHANGED jitter /\ UNCHANGED freezing
      BY <1>2 DEF SkewStep
    <2>2. ClockInv'
      BY <1>2, <2>1 DEF PlayoutInv, ClockInv
    <2>3. JitterInv'
      BY <1>0, <2>1, JitterStays DEF PlayoutInv
    <2>4. SkewInv'
      BY <1>0, <1>2, SkewKeeps DEF PlayoutInv
    <2>5. FreezeInv'
      BY <1>0, <2>1, FreezeStays DEF PlayoutInv
    <2> QED BY <1>2, <2>2, <2>3, <2>4, <2>5 DEF PlayoutInv
  <1>3. CASE part = "freeze" /\ FreezeStep /\ UNCHANGED part
    <2>1. now' = now /\ UNCHANGED jitter /\ UNCHANGED skewing
      BY <1>3 DEF FreezeStep
    <2>2. ClockInv'
      BY <1>3, <2>1 DEF PlayoutInv, ClockInv
    <2>3. JitterInv'
      BY <1>0, <2>1, JitterStays DEF PlayoutInv
    <2>4. SkewInv'
      BY <1>0, <2>1, SkewStays DEF PlayoutInv
    <2>5. FreezeInv' /\ (shown' = shown => gain' <= gain)
      BY <1>0, <1>3, FreezeKeeps DEF PlayoutInv
    <2> QED BY <2>2, <2>3, <2>4, <2>5 DEF PlayoutInv
  <1>4. CASE PlayoutClock /\ UNCHANGED part
    <2>1. UNCHANGED jitter /\ UNCHANGED skewing /\ UNCHANGED freezing
      BY <1>4 DEF PlayoutClock
    <2>2. ClockInv' /\ now' \in Nat /\ now <= now'
      <3>1. CASE part = "jitter"
        BY <1>0, <1>4, <3>1, PlayoutFacts DEF PlayoutClock, PlayoutInv, ClockInv
      <3>2. CASE part # "jitter"
        BY <1>0, <1>4, <3>2, PlayoutFacts DEF PlayoutClock, PlayoutInv, ClockInv
      <3> QED BY <3>1, <3>2
    <2>3. JitterInv'
      BY <1>0, <2>1, <2>2, JitterStays DEF PlayoutInv
    <2>4. SkewInv'
      BY <1>0, <2>1, <2>2, SkewStays DEF PlayoutInv
    <2>5. FreezeInv' /\ gain' = gain
      BY <1>0, <2>1, <2>2, FreezeStays DEF PlayoutInv
    <2> QED BY <1>0, <2>2, <2>3, <2>4, <2>5 DEF PlayoutInv
  <1>5. CASE UNCHANGED pvars
    <2>1. now' = now /\ part' = part /\ UNCHANGED jitter /\ UNCHANGED skewing /\ UNCHANGED freezing
      BY <1>5 DEF pvars
    <2>2. ClockInv'
      BY <2>1 DEF PlayoutInv, ClockInv
    <2>3. JitterInv'
      BY <1>0, <2>1, JitterStays DEF PlayoutInv
    <2>4. SkewInv'
      BY <1>0, <2>1, SkewStays DEF PlayoutInv
    <2>5. FreezeInv' /\ gain' = gain
      BY <1>0, <2>1, FreezeStays DEF PlayoutInv
    <2> QED BY <1>0, <2>2, <2>3, <2>4, <2>5 DEF PlayoutInv
  <1> QED BY <1>1, <1>2, <1>3, <1>4, <1>5 DEF PlayoutNext

\* What the invariant says of the run's property.
LEMMA PlayoutInvSound == PlayoutInv => PlayoutSound
  <1> SUFFICES ASSUME PlayoutInv PROVE PlayoutSound
    OBVIOUS
  <1>0. now \in Nat
    BY DEF PlayoutInv, ClockInv
  <1>1. PlayoutTypeOK
    <2>1. now \in 0 .. (MaxTime + Interval + MaxTicks)
      BY PlayoutFacts DEF PlayoutInv, ClockInv
    <2>2. \A i \in 1 .. Len(queue) : queue[i].pts \in Nat /\ queue[i].recv \in 0 .. now
      <3> TAKE i \in 1 .. Len(queue)
      <3>1. queue[i] \in Queued /\ queue[i].recv <= now
        BY DEF PlayoutInv, JitterInv, QueueInv
      <3> QED BY <1>0, <3>1 DEF Queued
    <2>3. target \in TargetRange /\ ewma \in Nat
      BY DEF PlayoutInv, JitterInv, EstimateInv
    <2>4. last_step \in -1 .. now /\ first_step \in -1 .. now /\ stretch \in StretchRange
      BY DEF PlayoutInv, SkewInv, OffsetInv
    <2>5. gain \in 0 .. Unity /\ hold_last \in BOOLEAN
      BY DEF PlayoutInv, FreezeInv
    <2> QED BY <2>1, <2>2, <2>3, <2>4, <2>5 DEF PlayoutTypeOK
  <1>2. PacketsAccounted
    BY DEF PlayoutInv, JitterInv, QueueInv
  <1>3. EwmaWithinSpread
    BY DEF PlayoutInv, JitterInv, EstimateInv, EwmaWithinSpread
  <1>4. SkewRateBounded
    <2>1. CASE first_step = -1
      BY <2>1 DEF PlayoutInv, SkewInv, OffsetInv, SkewRateBounded
    <2>2. CASE first_step # -1
      <3>1. /\ first_step \in Nat /\ last_step \in Nat /\ first_step <= last_step
            /\ last_step <= now /\ delay_offset \in Int
            /\ Abs(delay_offset) <=
                 Step * (1 + (last_step - first_step) \div MinStepInterval)
        BY <2>2 DEF PlayoutInv, SkewInv, OffsetInv
      <3> DEFINE x == (last_step - first_step) \div MinStepInterval
                 y == (now - first_step) \div MinStepInterval
      <3>2. x <= y /\ x \in Int /\ y \in Int
        <4>1. last_step - first_step <= now - first_step
          BY <1>0, <3>1
        <4>2. last_step - first_step \in Int /\ now - first_step \in Int
          BY <1>0, <3>1
        <4> QED BY <4>1, <4>2, SkewFacts, DivMono, DivLaw
      <3> HIDE DEF x, y
      <3>3. (1 + x) * Step <= (1 + y) * Step
        BY <3>2, SkewFacts, MulMono
      <3>4. Abs(delay_offset) <= Step * (1 + x)
        BY <3>1 DEF x
      <3>5. Abs(delay_offset) <= Step * (1 + y)
        <4>1. Abs(delay_offset) \in Int
          BY <3>1 DEF Abs
        <4> QED BY <3>2, <3>3, <3>4, <4>1, SkewFacts
      <3> QED BY <2>2, <3>5 DEF y, SkewRateBounded
    <2> QED BY <2>1, <2>2
  <1>5. StretchOpposesSkew
    BY DEF PlayoutInv, SkewInv, Opposes, StretchOpposesSkew
  <1>6. ResampleFaithful
    BY DEF PlayoutInv, SkewInv, Faithful, ResampleFaithful
  <1>7. FreshVideoFullAudio
    BY DEF PlayoutInv, FreezeInv, FreshVideoFullAudio
  <1> QED BY <1>1, <1>2, <1>3, <1>4, <1>5, <1>6, <1>7 DEF PlayoutSound

\* The invariant of the viewer's playout.
LEMMA PlayoutInvariant == PlayoutSpec => []PlayoutInv
  <1>1. PlayoutInv /\ [PlayoutNext]_pvars => PlayoutInv'
    BY PlayoutStep
  <1> QED BY PlayoutStarts, <1>1, PTL DEF PlayoutSpec

\* What plays is sound (jitter.rs, skew.rs, freeze.rs): the packets of the jitter
\* buffer are in order and accounted for, the delay is within its limits, the
\* skew correction keeps its pace and frames their samples, and the volume is
\* what the freeze policy says.
THEOREM PlayoutCorrect == PlayoutSpec => []PlayoutSound
  BY PlayoutInvariant, PlayoutInvSound, PTL

\* What leaves the queue is the earliest of what is in it.
LEMMA EarliestFirst ==
    ASSUME PlayoutInv, [PlayoutNext]_pvars
    PROVE  \A k \in 2..Len(queue) : released' # released =>
             \/ Head(queue).pts < queue[k].pts
             \/ Head(queue).pts = queue[k].pts /\ Head(queue).recv <= queue[k].recv
  <1> TAKE k \in 2 .. Len(queue)
  <1>1. queue \in Seq(Queued) /\ PlayOrder(queue)
    BY DEF PlayoutInv, JitterInv, QueueInv
  <1>2. 1 \in 1 .. Len(queue) /\ k \in 1 .. Len(queue) /\ 1 < k /\ Head(queue) = queue[1]
    BY <1>1
  <1> QED BY <1>1, <1>2 DEF PlayOrder

\* The packet that push_inner and pop release is the earliest of those that wait.
THEOREM PlayoutInOrderCorrect == PlayoutSpec => PlayoutInOrder
  <1>1. PlayoutInv /\ [PlayoutNext]_pvars
          => [\A k \in 2..Len(queue) : released' # released =>
                \/ Head(queue).pts < queue[k].pts
                \/ Head(queue).pts = queue[k].pts /\ Head(queue).recv <= queue[k].recv]_pvars
    BY EarliestFirst
  <1> QED BY PlayoutInvariant, <1>1, PTL DEF PlayoutSpec, PlayoutInOrder

\* While no frame comes, tick of freeze.rs never raises the volume.
THEOREM GainFallsCorrect == PlayoutSpec => GainFallsWhileFrozen
  <1>1. PlayoutInv /\ [PlayoutNext]_pvars
          => [part = "freeze" /\ shown' = shown => gain' <= gain]_pvars
    BY PlayoutStep
  <1> QED BY PlayoutInvariant, <1>1, PTL DEF PlayoutSpec, GainFallsWhileFrozen

-----------------------------------------------------------------------------
(***************************************************************************)
(* The media plane: its state and its audio.                               *)
(***************************************************************************)

\* A plane that is open.
Plane ==
    [open : {TRUE}, video : VideoCaptureKind, next_pts : Nat,
     next_rtp_ts : 0 .. (RtpWrap - 1), video_frames_sent : Nat,
     audio : {"tone", "stub", "native", "monitor"}, start_pts : {0}, index : Nat,
     pending : Seq(BOOLEAN), streak : Nat, warned : BOOLEAN, warnings : {0, 1},
     encoder : {"mf", "software"}, frames_encoded : Nat, keyframe_pending : BOOLEAN]

\* The next stamp is the one of the packet that comes next, a warning was given
\* for a long silence and for no other, and the client has no more sound than
\* there was time for.
AudioInv(p, held) ==
    /\ p.index > 0 => p.next_rtp_ts = RtpTs(p.index, T0, AudioRate)
    /\ p.warned <=> p.streak >= ExclusivePackets
    /\ p.warnings = (IF p.streak >= ExclusivePackets THEN 1 ELSE 0)
    /\ p.audio = "native" => p.index + Len(p.pending) + held <= host - boot

\* Two planes that differ in their audio only.
SameVideo(p, q) ==
    /\ p.video = q.video /\ p.next_pts = q.next_pts /\ p.audio = q.audio
    /\ p.video_frames_sent = q.video_frames_sent /\ p.encoder = q.encoder
    /\ p.frames_encoded = q.frames_encoded /\ p.keyframe_pending = q.keyframe_pending

\* A packet is stamped as was predicted.
OnTime(packet) == packet # Nothing => packet.rtp = packet.predicted

\* The constants of the media plane.
LEMMA MediaFacts ==
    /\ FrameTicks \in Nat \ {0} /\ MaxPreviewW \in Nat \ {0} /\ MaxPreviewH \in Nat \ {0}
    /\ KeyInterval \in Nat \ {0} /\ AudioPerFrame \in Nat \ {0} /\ ExclusivePackets \in Nat \ {0}
    /\ AudioRate \in Nat \ {0} /\ VideoRate \in Nat \ {0} /\ RtpWrap \in Nat \ {0}
    /\ MaxAudio \in Nat \ {0} /\ Backlog \in Nat /\ MaxHost \in Nat
    /\ VideoKinds \subseteq VideoCaptureKind /\ AudioKinds \subseteq AudioCaptureKind
    /\ Uptimes \subseteq Nat /\ Pads \subseteq Nat
    /\ \A s \in Sizes : s[1] \in Nat \ {0} /\ s[2] \in Nat \ {0}
    /\ SynthSize[1] \in Nat \ {0} /\ SynthSize[2] \in Nat \ {0}
  BY MediaPlaneAssumption

\* A timestamp fits its field.
LEMMA StampFits ==
    ASSUME NEW pts \in Nat, NEW rate \in Nat \ {0}
    PROVE  RtpTs(pts, T0, rate) \in 0 .. (RtpWrap - 1)
  <1>1. (IF pts > T0 THEN pts - T0 ELSE 0) * rate \in Nat
    BY DEF T0
  <1> DEFINE x == (IF pts > T0 THEN pts - T0 ELSE 0) * rate
  <1>2. x \in Int
    BY <1>1
  <1> HIDE DEF x
  <1>3. x % RtpWrap \in 0 .. (RtpWrap - 1)
    BY <1>2, MediaFacts, DivLaw
  <1> QED BY <1>3 DEF RtpTs, x

\* Adding the difference of two stamps, modulo the width, gives the second.
LEMMA StampAdvances ==
    ASSUME NEW w \in Nat \ {0}, NEW t \in 0 .. (w - 1), NEW u \in 0 .. (w - 1)
    PROVE  (t + ((u - t) % w)) % w = u
  <1>1. CASE t <= u
    <2>1. u - t \in 0 .. (w - 1)
      BY <1>1
    <2>2. (u - t) % w = u - t
      BY <2>1
    <2>3. t + (u - t) = u /\ u % w = u
      OBVIOUS
    <2> QED BY <2>2, <2>3
  <1>2. CASE t > u
    <2> DEFINE d == u - t
    <2>1. d \in Int /\ w * (-1) <= d /\ d < w * (-1) + w
      BY <1>2
    <2>2. d \div w = -1
      BY <2>1, DivUnique
    <2>3. d = w * (d \div w) + (d % w) /\ d % w \in Int
      BY <2>1, DivLaw
    <2>4. d % w = d + w
      BY <2>1, <2>2, <2>3
    <2>5. t + (d % w) = u + w
      BY <2>1, <2>4
    <2>6. (u + w) \div w = 1
      <3>1. u + w \in Int /\ w * 1 <= u + w /\ u + w < w * 1 + w /\ 1 \in Int
        OBVIOUS
      <3> QED BY <3>1, DivUnique
    <2>7. u + w = w * ((u + w) \div w) + ((u + w) % w) /\ (u + w) % w \in Int
      BY DivLaw
    <2>8. (u + w) % w = u
      BY <2>6, <2>7
    <2> QED BY <2>5, <2>8
  <1> QED BY <1>1, <1>2

\* Encoding predicts the stamp of the packet after it.
LEMMA EncodePredicts ==
    ASSUME NEW p \in Plane, NEW pts \in Nat
    PROVE  /\ EncodeOpus(p, pts) = [p EXCEPT !.next_rtp_ts = RtpTs(pts + 1, T0, AudioRate)]
           /\ RtpTs(pts + 1, T0, AudioRate) \in 0 .. (RtpWrap - 1)
  <1> DEFINE ts == RtpTs(pts, T0, AudioRate)
             nx == RtpTs(pts + 1, T0, AudioRate)
  <1>1. ts \in 0 .. (RtpWrap - 1) /\ nx \in 0 .. (RtpWrap - 1)
    <2>1. pts + 1 \in Nat
      OBVIOUS
    <2> QED BY <2>1, MediaFacts, StampFits
  <1> HIDE DEF ts, nx
  <1>2. (ts + ((nx - ts) % RtpWrap)) % RtpWrap = nx
    BY <1>1, MediaFacts, StampAdvances
  <1> QED BY <1>1, <1>2 DEF EncodeOpus, Stamp, ts, nx

\* A plane whose silence watch is set is a plane.
LEMMA EnergySet ==
    ASSUME NEW p \in Plane, NEW s \in Nat, NEW w \in BOOLEAN, NEW n \in {0, 1}
    PROVE  [p EXCEPT !.streak = s, !.warned = w, !.warnings = n] \in Plane
  BY DEF Plane

\* Warnings follow the streak of silent packets.
LEMMA EnergyNoted ==
    ASSUME NEW p \in Plane, NEW silent \in BOOLEAN,
           p.warned <=> p.streak >= ExclusivePackets,
           p.warnings = (IF p.streak >= ExclusivePackets THEN 1 ELSE 0)
    PROVE  LET r == NoteEnergy(p, silent)
           IN /\ r \in Plane
              /\ r.warned <=> r.streak >= ExclusivePackets
              /\ r.warnings = (IF r.streak >= ExclusivePackets THEN 1 ELSE 0)
              /\ SameVideo(r, p) /\ r.index = p.index /\ r.pending = p.pending
  <1> DEFINE r == NoteEnergy(p, silent)
  <1>0. p.streak \in Nat /\ p.warned \in BOOLEAN /\ p.warnings \in {0, 1}
    BY DEF Plane
  <1>1. CASE silent
    <2> DEFINE warn == ~p.warned /\ p.streak + 1 >= ExclusivePackets
    <2>1. r = [p EXCEPT !.streak = @ + 1, !.warned = @ \/ warn,
                        !.warnings = IF warn THEN @ + 1 ELSE @]
      BY <1>1 DEF NoteEnergy
    <2> DEFINE A == p.streak >= ExclusivePackets
               B == p.streak + 1 >= ExclusivePackets
    <2>0. p.streak + 1 \in Nat /\ (A => B) /\ (p.warned <=> A)
      BY <1>0, MediaFacts
    <2>a. p.warnings = (IF A THEN 1 ELSE 0)
      OBVIOUS
    <2> HIDE DEF A, B
    <2>b. warn <=> (~A /\ B)
      BY <2>0 DEF B
    <2>c. (p.warned \/ warn) <=> B
      BY <2>0, <2>b
    <2>2. /\ p.streak + 1 \in Nat /\ (p.warned \/ warn) \in BOOLEAN
          /\ (p.warned \/ warn) <=> (p.streak + 1 >= ExclusivePackets)
      BY <2>0, <2>c DEF B
    <2>3. (IF warn THEN p.warnings + 1 ELSE p.warnings)
             = (IF p.streak + 1 >= ExclusivePackets THEN 1 ELSE 0)
      <3>1. (IF warn THEN p.warnings + 1 ELSE p.warnings) = (IF B THEN 1 ELSE 0)
        <4> HIDE DEF warn
        <4> QED BY <2>0, <2>a, <2>b
      <3> QED BY <3>1 DEF B
    <2> HIDE DEF warn
    <2>4. r \in Plane
      BY <2>1, <2>2, <2>3, ZenonT(60) DEF Plane
    <2>5. /\ r.streak = p.streak + 1 /\ r.warned = (p.warned \/ warn)
          /\ r.warnings = (IF warn THEN p.warnings + 1 ELSE p.warnings)
      BY <2>1 DEF Plane
    <2>6. SameVideo(r, p) /\ r.index = p.index /\ r.pending = p.pending
      BY <2>1 DEF Plane, SameVideo
    <2> QED BY <2>2, <2>3, <2>4, <2>5, <2>6
  <1>2. CASE ~silent
    <2>1. r = [p EXCEPT !.streak = 0, !.warned = FALSE, !.warnings = 0]
      BY <1>2 DEF NoteEnergy
    <2>2. r \in Plane
      <3>1. FALSE \in BOOLEAN /\ 0 \in Nat /\ 0 \in {0, 1}
        OBVIOUS
      <3> QED BY <2>1, <3>1, EnergySet, ZenonT(60)
    <2>3. r.streak = 0 /\ r.warned = FALSE /\ r.warnings = 0
      BY <2>1 DEF Plane
    <2>4. ~(0 >= ExclusivePackets)
      BY MediaFacts
    <2>5. SameVideo(r, p) /\ r.index = p.index /\ r.pending = p.pending
      BY <2>1 DEF Plane, SameVideo
    <2> QED BY <2>2, <2>3, <2>4, <2>5
  <1> QED BY <1>1, <1>2

\* What holds after n audio turns.
TurnInv(acc, n) ==
    /\ acc.plane \in Plane /\ SameVideo(acc.plane, plane) /\ AudioInv(acc.plane, 0)
    /\ acc.plane.index <= plane.index + n
    /\ OnTime(acc.last)

\* A packet more was rendered.
LEMMA IndexSet ==
    ASSUME NEW p \in Plane
    PROVE  LET r == [p EXCEPT !.index = @ + 1]
           IN /\ r \in Plane /\ SameVideo(r, p) /\ r.index = p.index + 1
              /\ r.streak = p.streak /\ r.warned = p.warned /\ r.warnings = p.warnings
              /\ r.pending = p.pending
  <1> DEFINE k == p.index + 1
             r == [p EXCEPT !.index = k]
  <1>1. k \in Nat
    BY DEF Plane
  <1> HIDE DEF k
  <1>2. r \in Plane
    BY <1>1 DEF Plane
  <1>3. SameVideo(r, p)
    BY DEF Plane, SameVideo
  <1>4. /\ r.index = k /\ r.streak = p.streak /\ r.warned = p.warned
        /\ r.warnings = p.warnings /\ r.pending = p.pending
    BY DEF Plane
  <1> QED BY <1>2, <1>3, <1>4 DEF k

\* A packet more was taken from what is pending.
LEMMA PendingTaken ==
    ASSUME NEW p \in Plane, p.pending # <<>>
    PROVE  LET r == [p EXCEPT !.pending = Tail(@), !.index = @ + 1]
           IN /\ r \in Plane /\ SameVideo(r, p) /\ r.index = p.index + 1
              /\ r.streak = p.streak /\ r.warned = p.warned /\ r.warnings = p.warnings
              /\ Len(r.pending) = Len(p.pending) - 1 /\ Len(p.pending) \in Nat
              /\ Head(p.pending) \in BOOLEAN
  <1>1. p.pending \in Seq(BOOLEAN)
    BY DEF Plane
  <1> DEFINE t == Tail(p.pending)
  <1>2. /\ t \in Seq(BOOLEAN) /\ Len(t) = Len(p.pending) - 1 /\ Len(p.pending) \in Nat
        /\ Head(p.pending) \in BOOLEAN
    <2>1. t \in Seq(BOOLEAN) /\ Head(p.pending) \in BOOLEAN /\ Len(t) = Len(p.pending) - 1
      BY <1>1, HeadTailProperties
    <2>2. Len(p.pending) \in Nat
      BY <1>1
    <2> QED BY <2>1, <2>2
  <1> HIDE DEF t
  <1> DEFINE k == p.index + 1
             r == [p EXCEPT !.pending = t, !.index = k]
  <1>3. k \in Nat
    BY DEF Plane
  <1> HIDE DEF k
  <1>4. r \in Plane
    BY <1>2, <1>3 DEF Plane
  <1>5. SameVideo(r, p)
    BY DEF Plane, SameVideo
  <1>6. /\ r.index = k /\ r.streak = p.streak /\ r.warned = p.warned
        /\ r.warnings = p.warnings /\ r.pending = t
    BY DEF Plane
  <1> QED BY <1>2, <1>4, <1>5, <1>6 DEF t, k

\* What was taken or rendered is stamped and sent.
LEMMA SendKeeps ==
    ASSUME NEW p \in Plane, AudioInv(p, 0), SameVideo(p, plane),
           plane.index \in Nat, NEW n \in Nat, p.index <= plane.index + n,
           NEW q \in Plane, SameVideo(q, p), q.index = p.index + 1,
           q.warned <=> q.streak >= ExclusivePackets,
           q.warnings = (IF q.streak >= ExclusivePackets THEN 1 ELSE 0),
           q.audio = "native" => q.index + Len(q.pending) <= host - boot
    PROVE  TurnInv([plane |-> EncodeOpus(q, p.start_pts + p.index),
                    last |-> AudioPacket(p, p.start_pts + p.index)], n + 1)
  <1> DEFINE pts == p.start_pts + p.index
             nx == RtpTs(pts + 1, T0, AudioRate)
             r == EncodeOpus(q, pts)
             a == AudioPacket(p, pts)
  <1>1. p.start_pts = 0 /\ p.index \in Nat /\ pts = p.index /\ pts + 1 = q.index
    BY SMTT(30) DEF Plane
  <1>2. r = [q EXCEPT !.next_rtp_ts = nx] /\ nx \in 0 .. (RtpWrap - 1)
    BY <1>1, EncodePredicts
  <1>3. nx = RtpTs(q.index, T0, AudioRate)
    BY <1>1
  <1> HIDE DEF nx, r
  <1>4. /\ r \in Plane /\ SameVideo(r, q) /\ r.index = q.index /\ r.next_rtp_ts = nx
        /\ r.streak = q.streak /\ r.warned = q.warned /\ r.warnings = q.warnings
        /\ r.pending = q.pending /\ r.audio = q.audio
    BY <1>2 DEF Plane, SameVideo
  <1>5. SameVideo(r, plane)
    BY <1>4 DEF SameVideo
  <1>6. AudioInv(r, 0)
    <2>1. q.index \in Nat /\ Len(q.pending) \in Nat
      BY DEF Plane
    <2>2. r.index > 0 => r.next_rtp_ts = RtpTs(r.index, T0, AudioRate)
      BY <1>3, <1>4
    <2>3. r.audio = "native" => r.index + Len(r.pending) + 0 <= host - boot
      BY <1>4, <2>1
    <2>4. r.warned <=> r.streak >= ExclusivePackets
      BY <1>4
    <2>5. r.warnings = (IF r.streak >= ExclusivePackets THEN 1 ELSE 0)
      BY <1>4
    <2> QED BY <2>2, <2>3, <2>4, <2>5 DEF AudioInv
  <1>7. r.index <= plane.index + (n + 1)
    BY <1>1, <1>4
  <1>8. OnTime(a)
    <2>1. a.rtp = Stamp(p, pts)
      BY DEF AudioPacket
    <2>2. a.predicted = IF pts = p.start_pts THEN Stamp(p, pts) ELSE p.next_rtp_ts
      BY DEF AudioPacket
    <2>3. pts # p.start_pts => p.next_rtp_ts = Stamp(p, pts)
      <3>1. pts # p.start_pts => p.index > 0
        BY <1>1
      <3> QED BY <1>1, <3>1 DEF AudioInv, Stamp
    <2> QED BY <2>1, <2>2, <2>3 DEF OnTime
  <1> HIDE DEF a, pts
  <1>9. TurnInv([plane |-> r, last |-> a], n + 1)
    BY <1>4, <1>5, <1>6, <1>7, <1>8 DEF TurnInv
  <1> QED BY <1>9 DEF r, a, pts

\* One turn.
LEMMA TurnKeeps ==
    ASSUME plane.index \in Nat, NEW acc, NEW n \in Nat, TurnInv(acc, n)
    PROVE  TurnInv(AudioTurn(acc), n + 1)
  <1> DEFINE p == acc.plane
             pts == p.start_pts + p.index
             send(q) == [plane |-> EncodeOpus(q, pts), last |-> AudioPacket(p, pts)]
  <1>1. /\ p \in Plane /\ SameVideo(p, plane) /\ AudioInv(p, 0)
        /\ p.index <= plane.index + n /\ OnTime(acc.last)
    BY DEF TurnInv
  <1>2. /\ p.audio \in {"tone", "stub", "native", "monitor"} /\ p.index \in Nat
        /\ p.pending \in Seq(BOOLEAN)
    BY <1>1 DEF Plane
  <1>3. /\ p.warned <=> p.streak >= ExclusivePackets
        /\ p.warnings = (IF p.streak >= ExclusivePackets THEN 1 ELSE 0)
        /\ p.audio = "native" => p.index + Len(p.pending) <= host - boot
    <2>1. Len(p.pending) \in Nat
      BY <1>2
    <2>2. p.audio = "native" => p.index + Len(p.pending) + 0 <= host - boot
      BY <1>1 DEF AudioInv
    <2>3. p.index + Len(p.pending) + 0 = p.index + Len(p.pending)
      BY <1>2, <2>1
    <2> QED BY <1>1, <2>2, <2>3 DEF AudioInv
  <1> HIDE DEF p
  <1>4. CASE p.audio = "native" /\ p.pending = <<>>
    <2>1. AudioTurn(acc) = acc
      BY <1>4 DEF AudioTurn, p
    <2>2. acc.plane.index <= plane.index + (n + 1)
      BY <1>1, <1>2 DEF p
    <2> QED BY <1>1, <2>1, <2>2 DEF TurnInv, p
  <1>5. CASE p.audio = "native" /\ p.pending # <<>>
    <2> DEFINE t == [p EXCEPT !.pending = Tail(@), !.index = @ + 1]
               silent == Head(p.pending)
               q == NoteEnergy(t, silent)
    <2>1. AudioTurn(acc) = send(q)
      BY <1>5 DEF AudioTurn, p, TakePacket
    <2>2. /\ t \in Plane /\ SameVideo(t, p) /\ t.index = p.index + 1
          /\ t.streak = p.streak /\ t.warned = p.warned /\ t.warnings = p.warnings
          /\ Len(t.pending) = Len(p.pending) - 1 /\ Len(p.pending) \in Nat
          /\ silent \in BOOLEAN
      BY <1>1, <1>5, PendingTaken
    <2> HIDE DEF t, silent
    <2>3. /\ q \in Plane
          /\ q.warned <=> q.streak >= ExclusivePackets
          /\ q.warnings = (IF q.streak >= ExclusivePackets THEN 1 ELSE 0)
          /\ SameVideo(q, t) /\ q.index = t.index /\ q.pending = t.pending
      BY <1>3, <2>2, EnergyNoted
    <2> HIDE DEF q
    <2>4. SameVideo(q, p) /\ q.index = p.index + 1
      BY <2>2, <2>3 DEF SameVideo
    <2>5. q.index + Len(q.pending) <= host - boot
      <3>1. q.index + Len(q.pending) = p.index + Len(p.pending)
        BY <1>2, <2>2, <2>3, SMTT(30)
      <3> QED BY <1>3, <1>5, <3>1
    <2>6. TurnInv(send(q), n + 1)
      BY <1>1, <2>3, <2>4, <2>5, SendKeeps
    <2> QED BY <2>1, <2>6
  <1>6. CASE p.audio = "stub"
    <2> DEFINE t == [p EXCEPT !.index = @ + 1]
               q == NoteEnergy(t, FALSE)
    <2>1. AudioTurn(acc) = send(q)
      BY <1>6 DEF AudioTurn, p, RenderStub
    <2>2. /\ t \in Plane /\ SameVideo(t, p) /\ t.index = p.index + 1
          /\ t.streak = p.streak /\ t.warned = p.warned /\ t.warnings = p.warnings
      BY <1>1, IndexSet
    <2> HIDE DEF t
    <2>3. /\ q \in Plane
          /\ q.warned <=> q.streak >= ExclusivePackets
          /\ q.warnings = (IF q.streak >= ExclusivePackets THEN 1 ELSE 0)
          /\ SameVideo(q, t) /\ q.index = t.index
      <3>1. FALSE \in BOOLEAN
        OBVIOUS
      <3> QED BY <1>3, <2>2, <3>1, EnergyNoted
    <2> HIDE DEF q
    <2>4. SameVideo(q, p) /\ q.index = p.index + 1 /\ q.audio # "native"
      BY <1>6, <2>2, <2>3 DEF SameVideo
    <2>5. TurnInv(send(q), n + 1)
      BY <1>1, <2>3, <2>4, SendKeeps
    <2> QED BY <2>1, <2>5
  <1>7. CASE p.audio = "tone" \/ p.audio = "monitor"
    <2> DEFINE q == [p EXCEPT !.index = @ + 1]
    <2>1. AudioTurn(acc) = send(q)
      BY <1>7 DEF AudioTurn, p, RenderTone, RenderMonitor
    <2>2. /\ q \in Plane /\ SameVideo(q, p) /\ q.index = p.index + 1
          /\ q.streak = p.streak /\ q.warned = p.warned /\ q.warnings = p.warnings
      BY <1>1, IndexSet
    <2> HIDE DEF q
    <2>3. q.audio # "native"
      BY <1>7, <2>2 DEF SameVideo
    <2>4. /\ q.warned <=> q.streak >= ExclusivePackets
          /\ q.warnings = (IF q.streak >= ExclusivePackets THEN 1 ELSE 0)
      BY <1>3, <2>2
    <2>5. TurnInv(send(q), n + 1)
      BY <1>1, <2>2, <2>3, <2>4, SendKeeps
    <2> QED BY <2>1, <2>5
  <1> QED BY <1>2, <1>4, <1>5, <1>6, <1>7

-----------------------------------------------------------------------------
\* The turns of a pump: u lists where each leaves the plane.
TurnStart ==
    [plane |-> IF plane.audio = "native" THEN PullFromDevice(plane) ELSE plane, last |-> audio]

Turns(m, u) == u = [i \in 0 .. m |-> IF i = 0 THEN TurnStart ELSE AudioTurn(u[i - 1])]

\* The audio turns are a function of their number.
LEMMA TurnsExist ==
    ASSUME NEW n \in Nat
    PROVE  \E u : Turns(n, u)
  <1> DEFINE P == {m \in Nat : \E u : Turns(m, u)}
  <1>1. 0 \in P
    <2>1. Turns(0, [i \in 0 .. 0 |-> TurnStart])
      BY DEF Turns
    <2> QED BY <2>1
  <1>2. ASSUME NEW m \in 1 .. n, m - 1 \in P PROVE m \in P
    <2>1. PICK u : Turns(m - 1, u)
      BY <1>2
    <2> DEFINE final == AudioTurn(u[m - 1])
               v == [i \in 0 .. m |-> IF i = m THEN final ELSE u[i]]
    <2>2. ASSUME NEW i \in 0 .. m
          PROVE  v[i] = IF i = 0 THEN TurnStart ELSE AudioTurn(v[i - 1])
      <3>1. CASE i = m
        <4>1. v[m] = final /\ v[m - 1] = u[m - 1]
          OBVIOUS
        <4> QED BY <3>1, <4>1
      <3>2. CASE i # m
        <4>1. i \in 0 .. m - 1 /\ v[i] = u[i] /\ (i # 0 => i - 1 \in 0 .. m /\ i - 1 # m)
          BY <3>2
        <4>2. i # 0 => v[i - 1] = u[i - 1]
          BY <4>1
        <4>3. u[i] = IF i = 0 THEN TurnStart ELSE AudioTurn(u[i - 1])
          BY <2>1, <4>1 DEF Turns
        <4> QED BY <4>1, <4>2, <4>3
      <3> QED BY <3>1, <3>2
    <2>3. v = [i \in 0 .. m |-> IF i = 0 THEN TurnStart ELSE AudioTurn(v[i - 1])]
      BY <2>2
    <2> HIDE DEF v
    <2>4. Turns(m, v)
      BY <2>3 DEF Turns
    <2> QED BY <2>4
  <1> HIDE DEF P
  <1>3. \A m \in 0 .. n : m \in P
    BY <1>1, <1>2, Climb
  <1>4. n \in P
    BY <1>3
  <1> QED BY <1>4 DEF P

\* After the first n turns of a pump.
LEMMA TurnsKeep ==
    ASSUME NEW n \in Nat, plane \in Plane, device \in Seq(BOOLEAN), OnTime(audio),
           AudioInv(plane, Len(device))
    PROVE  TurnInv(AudioTurnsUpTo(n), n)
  <1> DEFINE u == CHOOSE w : Turns(n, w)
  <1>0. n \in Nat /\ plane.index \in Nat
    BY DEF Plane
  <1>1. Turns(n, u)
    BY <1>0, TurnsExist
  <1>2. AudioTurnsUpTo(n) = u[n]
    BY DEF AudioTurnsUpTo, Turns, TurnStart
  <1> HIDE DEF u
  <1>3. TurnInv(TurnStart, 0)
    <2> DEFINE p == IF plane.audio = "native" THEN PullFromDevice(plane) ELSE plane
    <2>1. TurnStart.plane = p /\ TurnStart.last = audio
      BY DEF TurnStart
    <2>2. CASE plane.audio = "native"
      <3> DEFINE d == plane.pending \o device
      <3>1. p = [plane EXCEPT !.pending = d]
        BY <2>2 DEF PullFromDevice
      <3>2. /\ d \in Seq(BOOLEAN) /\ Len(d) = Len(plane.pending) + Len(device)
            /\ Len(plane.pending) \in Nat /\ Len(device) \in Nat
        <4>1. plane.pending \in Seq(BOOLEAN)
          BY DEF Plane
        <4> QED BY <4>1, ConcatProperties, LenProperties
      <3> HIDE DEF d
      <3>3. /\ p \in Plane /\ SameVideo(p, plane) /\ p.index = plane.index /\ p.pending = d
            /\ p.next_rtp_ts = plane.next_rtp_ts /\ p.streak = plane.streak
            /\ p.warned = plane.warned /\ p.warnings = plane.warnings /\ p.audio = plane.audio
        BY <3>1, <3>2, ZenonT(60) DEF Plane, SameVideo
      <3> HIDE DEF p
      <3>4. p.audio = "native" => p.index + Len(p.pending) + 0 <= host - boot
        <4>1. plane.index + Len(plane.pending) + Len(device) <= host - boot
          BY <2>2 DEF AudioInv
        <4>2. p.index + Len(p.pending) + 0 = plane.index + Len(plane.pending) + Len(device)
          <5>1. p.index = plane.index /\ Len(p.pending) = Len(d)
            BY <3>3
          <5>2. Len(d) = Len(plane.pending) + Len(device) /\ Len(plane.pending) \in Nat
                /\ Len(device) \in Nat
            BY <3>2
          <5> HIDE DEF d
          <5>3. plane.index + (Len(plane.pending) + Len(device)) + 0
                  = plane.index + Len(plane.pending) + Len(device)
            BY <1>0, <5>2
          <5> QED BY <5>1, <5>2, <5>3
        <4> QED BY <4>1, <4>2
      <3>5. AudioInv(p, 0)
        BY <3>3, <3>4 DEF AudioInv
      <3>6. p.index <= plane.index + 0
        BY <1>0, <3>3
      <3> QED BY <2>1, <3>3, <3>5, <3>6 DEF TurnInv
    <2>3. CASE plane.audio # "native"
      <3>1. p = plane
        BY <2>3
      <3>2. AudioInv(plane, 0)
        BY <2>3 DEF AudioInv
      <3>3. SameVideo(plane, plane) /\ plane.index <= plane.index + 0
        BY <1>0 DEF SameVideo
      <3> QED BY <2>1, <3>1, <3>2, <3>3 DEF TurnInv
    <2> QED BY <2>2, <2>3
  <1>4. u[0] = TurnStart /\ \A i \in 1 .. n : u[i] = AudioTurn(u[i - 1])
    <2> DEFINE F(i) == IF i = 0 THEN TurnStart ELSE AudioTurn(u[i - 1])
    <2>1. u = [i \in 0 .. n |-> F(i)]
      BY <1>1 DEF Turns
    <2> HIDE DEF F
    <2>2. \A i \in 0 .. n : u[i] = F(i)
      BY <2>1
    <2>3. u[0] = TurnStart
      BY <1>0, <2>2 DEF F
    <2>4. ASSUME NEW i \in 1 .. n PROVE u[i] = AudioTurn(u[i - 1])
      <3>1. i \in 0 .. n /\ i # 0
        BY <1>0
      <3> QED BY <2>2, <3>1 DEF F
    <2> QED BY <2>3, <2>4
  <1> DEFINE P == {i \in 0 .. n : TurnInv(u[i], i)}
  <1>5. 0 \in P
    BY <1>0, <1>3, <1>4
  <1>6. ASSUME NEW i \in 1 .. n, i - 1 \in P PROVE i \in P
    <2>1. i - 1 \in Nat /\ (i - 1) + 1 = i /\ TurnInv(u[i - 1], i - 1)
      BY <1>0, <1>6
    <2>2. TurnInv(AudioTurn(u[i - 1]), (i - 1) + 1)
      BY <1>0, <2>1, TurnKeeps
    <2> QED BY <1>4, <2>1, <2>2
  <1> HIDE DEF P
  <1>7. \A i \in 0 .. n : i \in P
    BY <1>0, <1>5, <1>6, Climb
  <1>8. n \in P
    BY <1>0, <1>7
  <1> QED BY <1>2, <1>8 DEF P

-----------------------------------------------------------------------------
(***************************************************************************)
(* The picture.                                                            *)
(***************************************************************************)

\* Scaling rounds to the nearest whole number, and up to one.
LEMMA ScaledNear ==
    ASSUME NEW n \in Nat, NEW num \in Nat, NEW den \in Nat \ {0}
    PROVE  LET r == Scaled(n, num, den)
               x == n * num
           IN /\ r \in Nat \ {0}
              /\ \/ 2 * (den * r) <= 2 * x + den /\ 2 * x < 2 * (den * r) + den
                 \/ r = 1 /\ 2 * x < den
  <1> DEFINE x == n * num
             y == 2 * n * num + den
             e == 2 * den
             r == y \div e
  <1>0. x \in Nat /\ y = 2 * x + den /\ y \in Nat /\ e \in Nat \ {0}
    OBVIOUS
  <1>1. Scaled(n, num, den) = IF r = 0 THEN 1 ELSE r
    BY DEF Scaled
  <1> HIDE DEF x, y
  <1>2. r \in Int /\ 0 <= r
    <2>1. y \in Int /\ e * 0 <= y
      BY <1>0
    <2> HIDE DEF e
    <2>2. 0 <= y \div e
      BY <1>0, <2>1, DivAtLeast
    <2> QED BY <1>0, <2>1, <2>2, DivLaw
  <1>3. e * r <= y /\ y < e * r + e
    <2> HIDE DEF e
    <2>1. y \in Int
      BY <1>0
    <2>2. y % e \in 0 .. (e - 1) /\ y = e * r + (y % e) /\ r \in Int
      BY <1>0, <2>1, DivLaw
    <2>3. e * r \in Int
      BY <1>0, <2>2
    <2> QED BY <1>0, <2>2, <2>3
  <1> HIDE DEF r
  <1>4. e * r = 2 * (den * r) /\ den * r \in Int
    BY <1>2
  <1>5. 2 * (den * r) <= 2 * x + den /\ 2 * x < 2 * (den * r) + den
    BY <1>0, <1>3, <1>4
  <1>6. CASE r = 0
    <2>1. 2 * x < den
      BY <1>0, <1>3, <1>6
    <2> QED BY <1>1, <1>6, <2>1 DEF x
  <1>7. CASE r # 0
    BY <1>1, <1>2, <1>5, <1>7 DEF x
  <1> QED BY <1>6, <1>7

\* Scaling a length to a size it is scaled by gives that size.
LEMMA ScaledSame ==
    ASSUME NEW n \in Nat \ {0}, NEW m \in Nat \ {0}
    PROVE  Scaled(n, m, n) = m
  <1>1. 2 * n \in Nat \ {0} /\ 2 * n * m + n \in Int
    OBVIOUS
  <1>2. (2 * n) * m <= 2 * n * m + n /\ 2 * n * m + n < (2 * n) * m + 2 * n
    OBVIOUS
  <1>3. (2 * n * m + n) \div (2 * n) = m
    BY <1>1, <1>2, DivUnique
  <1> QED BY <1>3 DEF Scaled

\* What is scaled to at most c pixels is not larger.
LEMMA ScaledAtMost ==
    ASSUME NEW n \in Nat, NEW num \in Nat, NEW den \in Nat \ {0}, NEW c \in Nat \ {0},
           n * num <= c * den
    PROVE  Scaled(n, num, den) <= c
  <1> DEFINE r == Scaled(n, num, den)
             x == n * num
  <1>1. /\ r \in Nat \ {0}
        /\ \/ 2 * (den * r) <= 2 * x + den /\ 2 * x < 2 * (den * r) + den
           \/ r = 1 /\ 2 * x < den
    BY ScaledNear
  <1>2. x \in Nat /\ x <= c * den /\ c * den \in Nat
    OBVIOUS
  <1> HIDE DEF r, x
  <1>3. CASE r = 1
    <2>1. 1 <= c
      OBVIOUS
    <2> QED BY <1>3, <2>1 DEF r
  <1>4. CASE 2 * (den * r) <= 2 * x + den
    <2> SUFFICES ASSUME r >= c + 1 PROVE FALSE
      BY <1>1 DEF r
    <2>1. (c + 1) * den <= r * den
      BY <1>1, MulMono
    <2>2. den * r = r * den /\ (c + 1) * den = c * den + den /\ r * den \in Int
      BY <1>1
    <2> QED BY <1>2, <1>4, <2>1, <2>2
  <1> QED BY <1>1, <1>3, <1>4 DEF r

\* The preview of a frame: within the limit, no larger than the frame and of
\* its shape to within a pixel.
LEMMA PreviewSized ==
    ASSUME NEW w \in Nat \ {0}, NEW h \in Nat \ {0}
    PROVE  LET a == PreviewSize(w, h)[1]
               b == PreviewSize(w, h)[2]
           IN /\ PreviewSize(w, h) = <<a, b>>
              /\ a \in 1..MaxPreviewW /\ b \in 1..MaxPreviewH
              /\ a <= w /\ b <= h
              /\ a * h - b * w \in -Max({w, h})..Max({w, h})
  <1> DEFINE M == MaxPreviewW
             N == MaxPreviewH
             s == PreviewSize(w, h)
             m == Max({w, h})
  <1>0. M \in Nat \ {0} /\ N \in Nat \ {0}
    BY MediaFacts
  <1>m. m \in Nat /\ w <= m /\ h <= m
    <2>1. m = IF w >= h THEN w ELSE h
      BY MaxOfTwo
    <2> QED BY <2>1
  <1> HIDE DEF m
  <1>1. CASE w <= M /\ h <= N
    <2>1. s = <<w, h>>
      BY <1>1 DEF PreviewSize
    <2>2. w * h - h * w = 0
      OBVIOUS
    <2> HIDE DEF s
    <2>3. s[1] = w /\ s[2] = h
      BY <2>1
    <2>4. w * h - h * w \in -m .. m
      BY <1>m, <2>2
    <2> QED BY <1>0, <1>1, <2>1, <2>3, <2>4 DEF s, m
  <1>2. CASE ~(w <= M /\ h <= N) /\ M * h <= N * w
    <2> DEFINE b == Scaled(h, M, w)
    <2>1. s = <<Scaled(w, M, w), b>>
      BY <1>2 DEF PreviewSize
    <2>2. Scaled(w, M, w) = M
      BY <1>0, ScaledSame
    <2>3. M <= w
      <3> SUFFICES ASSUME w < M PROVE FALSE
        BY <1>0
      <3>1. N + 1 <= h /\ w <= M
        BY <1>0, <1>2
      <3>2. (N + 1) * M <= h * M
        BY <1>0, <3>1, MulMono
      <3>3. w * N <= M * N
        BY <1>0, <3>1, MulMono
      <3>4. (N + 1) * M = N * M + M /\ h * M = M * h /\ w * N = N * w /\ M * N = N * M
        BY <1>0
      <3>5. N * M \in Int /\ M * h \in Int /\ N * w \in Int
        BY <1>0
      <3> QED BY <1>0, <1>2, <3>2, <3>3, <3>4, <3>5
    <2>4. b <= h
      <3>1. M * h <= w * h
        BY <1>0, <2>3, MulMono
      <3>2. h * M <= h * w
        BY <1>0, <3>1
      <3> QED BY <1>0, <3>2, ScaledAtMost
    <2>5. b <= N
      <3>1. h * M <= N * w
        BY <1>0, <1>2
      <3> QED BY <1>0, <3>1, ScaledAtMost
    <2> DEFINE x == h * M
    <2>6. /\ b \in Nat \ {0}
          /\ \/ 2 * (w * b) <= 2 * x + w /\ 2 * x < 2 * (w * b) + w
             \/ b = 1 /\ 2 * x < w
      BY <1>0, ScaledNear
    <2>7. x \in Nat /\ M * h = x
      BY <1>0
    <2> HIDE DEF b, x
    <2>8. M * h - b * w \in -m .. m
      <3>1. b * w = w * b /\ w * b \in Int
        BY <2>6
      <3>2. CASE 2 * (w * b) <= 2 * x + w /\ 2 * x < 2 * (w * b) + w
        BY <1>m, <2>7, <3>1, <3>2
      <3>3. CASE b = 1 /\ 2 * x < w
        <4>1. b * w = w
          BY <3>3
        <4> QED BY <1>m, <2>7, <3>3, <4>1
      <3> QED BY <2>6, <3>2, <3>3
    <2> HIDE DEF s
    <2>9. s = <<M, b>> /\ s[1] = M /\ s[2] = b
      BY <2>1, <2>2
    <2>10. b <= h /\ b <= N
      BY <2>4, <2>5
    <2>11. M \in 1 .. M /\ b \in 1 .. N
      BY <1>0, <2>6, <2>10
    <2> QED BY <2>3, <2>8, <2>9, <2>10, <2>11 DEF s, m
  <1>3. CASE ~(w <= M /\ h <= N) /\ ~(M * h <= N * w)
    <2> DEFINE a == Scaled(w, N, h)
    <2>1. s = <<a, Scaled(h, N, h)>>
      BY <1>3 DEF PreviewSize
    <2>2. Scaled(h, N, h) = N
      BY <1>0, ScaledSame
    <2>0. N * w < M * h /\ N * w \in Int /\ M * h \in Int
      BY <1>0, <1>3
    <2>3. N <= h
      <3> SUFFICES ASSUME h < N PROVE FALSE
        BY <1>0
      <3>1. M + 1 <= w /\ h <= N
        BY <1>0, <1>3
      <3>2. (M + 1) * h <= w * h
        BY <1>0, <3>1, MulMono
      <3>3. h * w <= N * w
        BY <1>0, <3>1, MulMono
      <3>4. (M + 1) * h = M * h + h /\ w * h = h * w /\ h * w \in Int
        BY <1>0
      <3> QED BY <1>0, <2>0, <3>2, <3>3, <3>4
    <2>4. a <= w
      <3>1. N * w <= h * w
        BY <1>0, <2>3, MulMono
      <3>2. w * N <= w * h
        BY <1>0, <3>1
      <3> QED BY <1>0, <3>2, ScaledAtMost
    <2>5. a <= M
      <3>1. w * N <= M * h
        BY <1>0, <2>0
      <3> QED BY <1>0, <3>1, ScaledAtMost
    <2> DEFINE x == w * N
    <2>6. /\ a \in Nat \ {0}
          /\ \/ 2 * (h * a) <= 2 * x + h /\ 2 * x < 2 * (h * a) + h
             \/ a = 1 /\ 2 * x < h
      BY <1>0, ScaledNear
    <2>7. x \in Nat /\ N * w = x
      BY <1>0
    <2> HIDE DEF a, x
    <2>8. a * h - N * w \in -m .. m
      <3>1. a * h = h * a /\ h * a \in Int
        BY <2>6
      <3>2. CASE 2 * (h * a) <= 2 * x + h /\ 2 * x < 2 * (h * a) + h
        BY <1>m, <2>7, <3>1, <3>2
      <3>3. CASE a = 1 /\ 2 * x < h
        <4>1. a * h = h
          BY <3>3
        <4> QED BY <1>m, <2>7, <3>3, <4>1
      <3> QED BY <2>6, <3>2, <3>3
    <2> HIDE DEF s
    <2>9. s = <<a, N>> /\ s[1] = a /\ s[2] = N
      BY <2>1, <2>2
    <2>10. a <= w /\ a <= M
      BY <2>4, <2>5
    <2>11. N \in 1 .. N /\ a \in 1 .. M
      BY <1>0, <2>6, <2>10
    <2> QED BY <2>3, <2>8, <2>9, <2>10, <2>11 DEF s, m
  <1> QED BY <1>1, <1>2, <1>3

-----------------------------------------------------------------------------
\* Row i of d is averaged from the source rows between two multiples of s / d.
Edge(i, s, d) == (i * s) \div d

\* Of a picture that is not enlarged, every row starts later than those before.
LEMMA EdgeGrows ==
    ASSUME NEW s \in Nat \ {0}, NEW d \in 1 .. s, NEW i \in Nat, NEW j \in Nat, i < j
    PROVE  Edge(i, s, d) \in Nat /\ Edge(j, s, d) \in Nat /\ Edge(i, s, d) + 1 <= Edge(j, s, d)
  <1>0. d \in Nat \ {0} /\ i * s \in Nat /\ j * s \in Nat
    OBVIOUS
  <1>1. (i + 1) * s <= j * s
    BY MulMono
  <1>2. j * s >= i * s + d
    <2>1. (i + 1) * s = i * s + s
      OBVIOUS
    <2> QED BY <1>0, <1>1, <2>1
  <1>3. (j * s) \div d >= (i * s) \div d + 1
    BY <1>0, <1>2, IntervalCounts
  <1>4. d * 0 <= i * s /\ d * 0 <= j * s
    BY <1>0
  <1>5. 0 <= (i * s) \div d /\ 0 <= (j * s) \div d
    BY <1>0, <1>4, DivAtLeast
  <1>6. (i * s) \div d \in Int /\ (j * s) \div d \in Int
    BY <1>0, DivLaw
  <1> QED BY <1>3, <1>5, <1>6 DEF Edge

\* A box ends where the next one starts.
LEMMA BoxIs ==
    ASSUME NEW s \in Nat \ {0}, NEW d \in 1 .. s, NEW i \in 0 .. (d - 1)
    PROVE  /\ Box(i, s, d) = Edge(i, s, d) .. (Edge(i + 1, s, d) - 1)
           /\ Edge(i, s, d) \in Nat /\ Edge(i + 1, s, d) \in Nat /\ Edge(i + 1, s, d) <= s
  <1>0. i \in Nat /\ i + 1 \in Nat /\ i < i + 1 /\ d \in Nat \ {0}
    OBVIOUS
  <1>1. /\ Edge(i, s, d) \in Nat /\ Edge(i + 1, s, d) \in Nat
        /\ Edge(i, s, d) + 1 <= Edge(i + 1, s, d)
    BY <1>0, EdgeGrows
  <1>2. Edge(i + 1, s, d) <= s
    <2>1. (i + 1) * s <= d * s
      BY MulMono
    <2>2. (i + 1) * s < d * (s + 1) /\ (i + 1) * s \in Int
      BY <2>1
    <2>3. ((i + 1) * s) \div d < s + 1
      BY <1>0, <2>2, DivBelow
    <2> QED BY <1>1, <2>3 DEF Edge
  <1> DEFINE lo == (i * s) \div d
             e == ((i + 1) * s) \div d
  <1>3. lo = Edge(i, s, d) /\ e = Edge(i + 1, s, d)
    BY DEF Edge
  <1>4. Box(i, s, d) = lo .. (Min({Max({e, lo + 1}), s}) - 1)
    BY DEF Box
  <1> HIDE DEF lo, e
  <1>5. Max({e, lo + 1}) = e
    <2>1. Max({e, lo + 1}) = IF e >= lo + 1 THEN e ELSE lo + 1
      BY <1>1, <1>3, MaxOfTwo
    <2> QED BY <1>1, <1>3, <2>1
  <1>6. Min({e, s}) = e
    <2>1. Min({e, s}) = IF e <= s THEN e ELSE s
      BY <1>1, <1>3, MinOfTwo
    <2> QED BY <1>2, <1>3, <2>1
  <1> QED BY <1>1, <1>2, <1>3, <1>4, <1>5, <1>6

\* Every source row goes into exactly one.
LEMMA BoxesCover ==
    ASSUME NEW s \in Nat \ {0}, NEW d \in 1 .. s
    PROVE  /\ UNION {Box(i, s, d) : i \in 0..(d - 1)} = 0..(s - 1)
           /\ \A i, j \in 0..(d - 1) : i # j => Box(i, s, d) \cap Box(j, s, d) = {}
  <1>0. d \in Nat \ {0}
    OBVIOUS
  <1>1. ASSUME NEW i \in 0 .. (d - 1), NEW x \in Box(i, s, d) PROVE x \in 0 .. (s - 1)
    <2> DEFINE lo == Edge(i, s, d)
               hi == Edge(i + 1, s, d)
    <2>1. Box(i, s, d) = lo .. (hi - 1) /\ lo \in Nat /\ hi \in Nat /\ hi <= s
      BY BoxIs
    <2> HIDE DEF lo, hi
    <2>2. x \in lo .. (hi - 1)
      BY <1>1, <2>1
    <2> QED BY <2>1, <2>2
  <1>2. ASSUME NEW x \in 0 .. (s - 1) PROVE \E i \in 0 .. (d - 1) : x \in Box(i, s, d)
    <2> DEFINE y == (x + 1) * d - 1
               i == y \div s
    <2>1. y \in Nat
      <3>1. 1 * d <= (x + 1) * d
        BY <1>0, MulMono
      <3> QED BY <1>0, <3>1
    <2>2. y + 1 = (x + 1) * d
      OBVIOUS
    <2>3. (x + 1) * d <= s * d
      BY <1>0, MulMono
    <2> HIDE DEF y
    <2>4. i \in Int /\ s * i <= y /\ y < s * i + s
      <3>1. y \in Int
        BY <2>1
      <3>2. y % s \in 0 .. (s - 1) /\ y = s * i + (y % s) /\ i \in Int
        BY <3>1, DivLaw
      <3> DEFINE e == y % s
      <3> HIDE DEF i, e
      <3>3. s * i \in Int /\ e \in 0 .. (s - 1) /\ y = s * i + e
        BY <3>2 DEF e
      <3> QED BY <3>2, <3>3
    <2>5. 0 <= i /\ i < d
      <3>1. y \in Int /\ s * 0 <= y
        BY <2>1
      <3>2. y < s * d
        <4>1. s * d = d * s /\ s * d \in Int
          BY <1>0
        <4> QED BY <1>0, <2>1, <2>2, <2>3, <4>1
      <3> QED BY <1>0, <3>1, <3>2, DivAtLeast, DivBelow
    <2> HIDE DEF i
    <2>6. i \in 0 .. (d - 1)
      BY <1>0, <2>4, <2>5
    <2>7. i * s < (x + 1) * d /\ (x + 1) * d <= (i + 1) * s
      <3>1. i * s = s * i /\ (i + 1) * s = s * i + s /\ s * i \in Int
        BY <2>4
      <3> QED BY <2>1, <2>2, <2>4, <3>1
    <2>8. Edge(i, s, d) < x + 1
      <3>1. i * s \in Int /\ x + 1 \in Int /\ i * s < d * (x + 1)
        BY <1>0, <2>4, <2>7
      <3> QED BY <1>0, <3>1, DivBelow DEF Edge
    <2>9. x + 1 <= Edge(i + 1, s, d)
      <3>1. (i + 1) * s \in Int /\ x + 1 \in Int /\ d * (x + 1) <= (i + 1) * s
        BY <1>0, <2>4, <2>7
      <3> QED BY <1>0, <3>1, DivAtLeast DEF Edge
    <2>10. /\ Box(i, s, d) = Edge(i, s, d) .. (Edge(i + 1, s, d) - 1)
           /\ Edge(i, s, d) \in Nat /\ Edge(i + 1, s, d) \in Nat
      BY <2>6, BoxIs
    <2>11. x \in Box(i, s, d)
      BY <2>8, <2>9, <2>10
    <2> QED BY <2>6, <2>11
  <1>3. ASSUME NEW i \in 0 .. (d - 1), NEW j \in 0 .. (d - 1), i < j,
               NEW x \in Box(i, s, d), x \in Box(j, s, d)
        PROVE  FALSE
    <2>1. /\ Box(i, s, d) = Edge(i, s, d) .. (Edge(i + 1, s, d) - 1)
          /\ Edge(i, s, d) \in Nat /\ Edge(i + 1, s, d) \in Nat
      BY BoxIs
    <2>2. /\ Box(j, s, d) = Edge(j, s, d) .. (Edge(j + 1, s, d) - 1)
          /\ Edge(j, s, d) \in Nat /\ Edge(j + 1, s, d) \in Nat
      BY BoxIs
    <2>3. Edge(i + 1, s, d) <= Edge(j, s, d)
      <3>1. CASE i + 1 = j
        BY <2>2, <3>1
      <3>2. CASE i + 1 < j
        <4>1. i + 1 \in Nat /\ j \in Nat
          OBVIOUS
        <4>2. Edge(i + 1, s, d) + 1 <= Edge(j, s, d)
          BY <3>2, <4>1, EdgeGrows
        <4> QED BY <2>1, <2>2, <4>2
      <3> QED BY <1>3, <3>1, <3>2
    <2> QED BY <1>3, <2>1, <2>2, <2>3
  <1>4. ASSUME NEW i \in 0 .. (d - 1), NEW j \in 0 .. (d - 1), i # j
        PROVE  Box(i, s, d) \cap Box(j, s, d) = {}
    <2>1. CASE i < j
      BY <1>3, <2>1
    <2>2. CASE j < i
      BY <1>3, <2>2
    <2> QED BY <1>4, <2>1, <2>2
  <1> QED BY <1>1, <1>2, <1>4

-----------------------------------------------------------------------------
(***************************************************************************)
(* The frame and its access unit.                                          *)
(***************************************************************************)

\* A frame without padding.
IsFrame(f) ==
    /\ f.pts \in Nat /\ f.w \in Nat \ {0} /\ f.h \in Nat \ {0}
    /\ f.fmt \in {"bgra8", "rgb24"} /\ f.colour \in Colours
    /\ f.len = f.w * f.h * BytesPerPixel(f.fmt)

\* What PictureSurvives and PreviewFits say of an access unit.
Survives(u) ==
    /\ Decode(u).intact
    /\ Decode(u).colour = u.frame.colour
    /\ <<Decode(u).w, Decode(u).h>> = PreviewSize(u.frame.w, u.frame.h)
    /\ u.key <=> ParseMockSlice(u.nals).type = 5

Covered(s, d) ==
    /\ UNION {Box(i, s, d) : i \in 0..(d - 1)} = 0..(s - 1)
    /\ \A i, j \in 0..(d - 1) : i # j => Box(i, s, d) \cap Box(j, s, d) = {}

Fits(f, v) ==
    /\ v.w \in 1..MaxPreviewW /\ v.h \in 1..MaxPreviewH
    /\ v.w <= f.w /\ v.h <= f.h
    /\ v.w * f.h - v.h * f.w \in -Max({f.w, f.h})..Max({f.w, f.h})
    /\ Covered(f.w, v.w) /\ Covered(f.h, v.h)

SoundUnit(u) == u.mock => Survives(u) /\ Fits(u.frame, u.preview)

\* Every source delivers frames without padding.
LEMMA SourceIsFrame ==
    ASSUME NEW p \in Plane, host \in Nat, desktop.size \in Sizes, desktop.colour \in Colours
    PROVE  IsFrame(SourceFrame(p))
  <1>0. p.next_pts \in Nat /\ desktop.size[1] \in Nat \ {0} /\ desktop.size[2] \in Nat \ {0}
        /\ SynthSize[1] \in Nat \ {0} /\ SynthSize[2] \in Nat \ {0} /\ "red" \in Colours
    BY MediaFacts DEF Plane, Colours
  <1>1. CASE p.video = "windows_dxgi"
    <2>1. SourceFrame(p) = [DxgiFrame EXCEPT !.len = DxgiFrame.w * DxgiFrame.h
                                                       * BytesPerPixel(DxgiFrame.fmt)]
      BY <1>1 DEF SourceFrame, Pack
    <2> DEFINE g == SourceFrame(p)
    <2>2. /\ g.pts = host /\ g.w = desktop.size[1] /\ g.h = desktop.size[2] /\ g.fmt = "bgra8"
          /\ g.colour = desktop.colour
          /\ g.len = desktop.size[1] * desktop.size[2] * BytesPerPixel("bgra8")
      BY <2>1 DEF DxgiFrame
    <2> HIDE DEF g
    <2> QED BY <1>0, <2>2 DEF IsFrame, g
  <1>2. CASE p.video = "windows_mock"
    <2>1. SourceFrame(p) = [MockFrame(p) EXCEPT !.len = MockFrame(p).w * MockFrame(p).h
                                                       * BytesPerPixel(MockFrame(p).fmt)]
      BY <1>2 DEF SourceFrame, Pack
    <2> DEFINE g == SourceFrame(p)
    <2>2. /\ g.pts = p.next_pts /\ g.w = SynthSize[1] /\ g.h = SynthSize[2] /\ g.fmt = "bgra8"
          /\ g.colour = "red"
          /\ g.len = SynthSize[1] * SynthSize[2] * BytesPerPixel("bgra8")
      BY <2>1 DEF MockFrame
    <2> HIDE DEF g
    <2> QED BY <1>0, <2>2 DEF IsFrame, g
  <1>3. CASE p.video \notin {"windows_dxgi", "windows_mock"}
    <2> DEFINE g == SourceFrame(p)
    <2>1. g = BarsFrame(p) \/ g = LinuxMockFrame(p)
      BY <1>3 DEF SourceFrame
    <2>2. /\ g.pts = p.next_pts /\ g.w = SynthSize[1] /\ g.h = SynthSize[2] /\ g.fmt = "rgb24"
          /\ g.colour = "red" /\ g.len = SynthSize[1] * SynthSize[2] * 3
      BY <2>1 DEF BarsFrame, LinuxMockFrame
    <2> HIDE DEF g
    <2>3. BytesPerPixel("rgb24") = 3
      BY DEF BytesPerPixel
    <2> QED BY <1>0, <2>2, <2>3 DEF IsFrame, g
  <1> QED BY <1>1, <1>2, <1>3

\* The preview is what the decoder makes a picture of.
LEMMA PreviewDecodes ==
    ASSUME NEW f, IsFrame(f)
    PROVE  LET v == Preview(f)
               r == ReconstructFrame(v)
           IN /\ <<v.w, v.h>> = PreviewSize(f.w, f.h) /\ Fits(f, v)
              /\ r.w = v.w /\ r.h = v.h /\ r.intact /\ r.colour = f.colour
  <1> DEFINE s == PreviewSize(f.w, f.h)
             v == Preview(f)
             r == ReconstructFrame(v)
  <1>0. f.w \in Nat \ {0} /\ f.h \in Nat \ {0} /\ f.fmt \in {"bgra8", "rgb24"}
        /\ f.len = f.w * f.h * BytesPerPixel(f.fmt)
    BY DEF IsFrame
  <1>1. /\ s = <<s[1], s[2]>>
        /\ s[1] \in 1..MaxPreviewW /\ s[2] \in 1..MaxPreviewH
        /\ s[1] <= f.w /\ s[2] <= f.h
        /\ s[1] * f.h - s[2] * f.w \in -Max({f.w, f.h})..Max({f.w, f.h})
    BY <1>0, PreviewSized
  <1>2. BytesPerPixel("bgra8") = 4 /\ BytesPerPixel("rgb24") = 3
    BY DEF BytesPerPixel
  <1>3. /\ v.w = s[1] /\ v.h = s[2]
        /\ v.order = (IF v.bpp = 4 THEN "bgra8" ELSE "rgb24") /\ v.colour = f.colour
        /\ v.len = v.w * v.h * BytesPerPixel(v.order)
    <2> HIDE DEF s
    <2>1. CASE s = <<f.w, f.h>>
      <3>1. v = [w |-> f.w, h |-> f.h, bpp |-> BytesPerPixel(f.fmt), len |-> f.len,
                 order |-> f.fmt, colour |-> f.colour]
        BY <2>1 DEF Preview, s
      <3>2. s[1] = f.w /\ s[2] = f.h
        BY <2>1
      <3>3. f.fmt = (IF BytesPerPixel(f.fmt) = 4 THEN "bgra8" ELSE "rgb24")
        BY <1>0, <1>2
      <3> QED BY <1>0, <3>1, <3>2, <3>3
    <2>2. CASE s # <<f.w, f.h>>
      <3>1. v = [w |-> s[1], h |-> s[2], bpp |-> 3, len |-> s[1] * s[2] * 3,
                 order |-> "rgb24", colour |-> f.colour]
        BY <2>2 DEF Preview, PixelRgb, s
      <3> HIDE DEF v
      <3> QED BY <1>2, <3>1
    <2> QED BY <2>1, <2>2
  <1> HIDE DEF s, v
  <1>4. r.w = v.w /\ r.h = v.h /\ r.intact /\ r.colour = f.colour
    BY <1>3 DEF ReconstructFrame
  <1>5. Covered(f.w, v.w) /\ Covered(f.h, v.h)
    <2>1. v.w \in 1 .. f.w /\ v.h \in 1 .. f.h
      BY <1>0, <1>1, <1>3, MediaFacts
    <2> QED BY <1>0, <2>1, BoxesCover DEF Covered
  <1>6. Fits(f, v)
    BY <1>1, <1>3, <1>5 DEF Fits
  <1>7. <<v.w, v.h>> = s
    BY <1>1, <1>3
  <1> QED BY <1>4, <1>6, <1>7 DEF v, s

\* The slice of a keyframe is its third unit.
LEMMA ThreeNals ==
    ASSUME NEW a, NEW b, NEW c
    PROVE  <<a, b>> \o <<c>> = <<a, b, c>>
  <1> DEFINE S == {a, b, c}
             s == <<a, b>>
             t == <<c>>
             u == <<a, b, c>>
  <1>1. s \in Seq(S) /\ t \in Seq(S) /\ u \in Seq(S)
    OBVIOUS
  <1>2. Len(s) = 2 /\ Len(t) = 1 /\ Len(u) = 3
    OBVIOUS
  <1>3. s[1] = a /\ s[2] = b /\ t[1] = c /\ u[1] = a /\ u[2] = b /\ u[3] = c
    OBVIOUS
  <1> HIDE DEF s, t, u, S
  <1>4. /\ s \o t \in Seq(S) /\ Len(s \o t) = 3
        /\ \A i \in 1 .. 3 : (s \o t)[i] = IF i <= 2 THEN s[i] ELSE t[i - 2]
    <2>1. /\ s \o t \in Seq(S) /\ Len(s \o t) = Len(s) + Len(t)
          /\ \A i \in 1 .. Len(s) + Len(t) : (s \o t)[i] = IF i <= Len(s) THEN s[i]
                                                           ELSE t[i - Len(s)]
      BY <1>1, ConcatProperties
    <2>2. Len(s) + Len(t) = 3
      BY <1>2
    <2> DEFINE m == Len(s) + Len(t)
    <2>3. \A i \in 1 .. m : (s \o t)[i] = IF i <= 2 THEN s[i] ELSE t[i - 2]
      BY <1>2, <2>1
    <2> HIDE DEF m
    <2>4. m = 3
      BY <2>2 DEF m
    <2> QED BY <2>1, <2>2, <2>3, <2>4
  <1>5. \A i \in 1 .. 3 : (s \o t)[i] = u[i]
    <2>1. (s \o t)[1] = a /\ (s \o t)[2] = b /\ (s \o t)[3] = c
      BY <1>3, <1>4
    <2>2. \A i \in 1 .. 3 : i = 1 \/ i = 2 \/ i = 3
      OBVIOUS
    <2> QED BY <1>3, <2>1, <2>2
  <1>6. s \o t = u
    BY <1>1, <1>2, <1>4, <1>5, SeqEqual, SMTT(30)
  <1> QED BY <1>6 DEF s, t, u

\* The only unit with the magic of a slice is found.
LEMMA SliceFound ==
    ASSUME NEW v, NEW key \in BOOLEAN
    PROVE  ParseMockSlice((IF key THEN <<BuildSps(v), BuildPps>> ELSE <<>>)
                             \o <<BuildSlice(v, key)>>) = BuildSlice(v, key)
  <1> DEFINE sl == BuildSlice(v, key)
             head == IF key THEN <<BuildSps(v), BuildPps>> ELSE <<>>
             nals == head \o <<sl>>
             found == {i \in DOMAIN nals : nals[i].type \in {1, 5} /\ nals[i].magic}
  <1>1. sl.magic = TRUE /\ sl.type \in {1, 5}
    BY DEF BuildSlice
  <1>2. ParseMockSlice(nals) = nals[Min(found)]
    BY DEF ParseMockSlice, FirstNal
  <1>3. CASE key
    <2>1. nals = <<BuildSps(v), BuildPps, sl>>
      <3>1. head = <<BuildSps(v), BuildPps>>
        BY <1>3
      <3> HIDE DEF sl, head
      <3> QED BY <3>1, ThreeNals
    <2>2. BuildSps(v).type = 7 /\ BuildPps.type = 8
      BY DEF BuildSps, BuildPps
    <2> HIDE DEF sl, nals
    <2>3. DOMAIN nals = {1, 2, 3} /\ nals[1].type = 7 /\ nals[2].type = 8 /\ nals[3] = sl
      BY <2>1, <2>2
    <2>4. found = {3}
      BY <1>1, <2>3
    <2>5. Min({3, 3}) = 3
      BY MinOfTwo
    <2>6. {3, 3} = {3}
      OBVIOUS
    <2>7. Min(found) = 3
      BY <2>4, <2>5, <2>6, SMTT(30)
    <2> QED BY <1>2, <2>3, <2>7 DEF nals, sl
  <1>4. CASE ~key
    <2>1. nals = <<sl>>
      <3>1. head = <<>>
        BY <1>4
      <3> HIDE DEF sl, head
      <3> QED BY <3>1
    <2> HIDE DEF sl, nals
    <2>3. DOMAIN nals = {1} /\ nals[1] = sl
      BY <2>1
    <2>4. found = {1}
      BY <1>1, <2>3
    <2>5. Min({1, 1}) = 1
      BY MinOfTwo
    <2>6. {1, 1} = {1}
      OBVIOUS
    <2>7. Min(found) = 1
      BY <2>4, <2>5, <2>6
    <2> QED BY <1>2, <2>3, <2>7 DEF nals, sl
  <1> QED BY <1>3, <1>4

\* Two planes that differ in their video only.
SameAudio(p, q) ==
    /\ p.audio = q.audio /\ p.index = q.index /\ p.pending = q.pending
    /\ p.streak = q.streak /\ p.warned = q.warned /\ p.warnings = q.warnings
    /\ p.next_rtp_ts = q.next_rtp_ts

\* The audio invariant is about the audio alone.
LEMMA AudioKept ==
    ASSUME NEW p, NEW q, NEW held, SameAudio(p, q), AudioInv(q, held)
    PROVE  AudioInv(p, held)
  BY DEF SameAudio, AudioInv

\* A plane with another encoder state is a plane.
LEMMA EncoderSet ==
    ASSUME NEW p \in Plane, NEW n \in Nat, NEW k \in BOOLEAN,
           NEW r, r = [p EXCEPT !.frames_encoded = n, !.keyframe_pending = k]
    PROVE  /\ r \in Plane /\ SameAudio(r, p)
           /\ r.frames_encoded = n /\ r.keyframe_pending = k
           /\ r.video_frames_sent = p.video_frames_sent /\ r.video = p.video
  <1>1. r \in Plane
    BY DEF Plane
  <1>2. SameAudio(r, p)
    BY DEF Plane, SameAudio
  <1>3. /\ r.frames_encoded = n /\ r.keyframe_pending = k
        /\ r.video_frames_sent = p.video_frames_sent /\ r.video = p.video
    BY DEF Plane
  <1> QED BY <1>1, <1>2, <1>3

\* A plane with a keyframe pending, or none, is a plane.
LEMMA PendingSet ==
    ASSUME NEW p \in Plane, NEW k \in BOOLEAN, NEW r, r = [p EXCEPT !.keyframe_pending = k]
    PROVE  /\ r \in Plane /\ SameAudio(r, p)
           /\ r.frames_encoded = p.frames_encoded /\ r.keyframe_pending = k
           /\ r.video_frames_sent = p.video_frames_sent /\ r.video = p.video
           /\ r.open = TRUE /\ r.encoder = p.encoder
  <1>1. r \in Plane
    BY DEF Plane
  <1>2. SameAudio(r, p)
    BY DEF Plane, SameAudio
  <1>3. /\ r.frames_encoded = p.frames_encoded /\ r.keyframe_pending = k
        /\ r.video_frames_sent = p.video_frames_sent /\ r.video = p.video
        /\ r.open = TRUE /\ r.encoder = p.encoder
    BY DEF Plane
  <1> QED BY <1>1, <1>2, <1>3

\* What an encoder makes of a frame: nothing, and a keyframe that was owed is
\* owed still, or a unit, a keyframe when one was owed or forced.
Encoded(e, p, force) ==
    /\ e.plane \in Plane /\ SameAudio(e.plane, p)
    /\ e.plane.frames_encoded <= p.frames_encoded + 1
    /\ e.plane.video_frames_sent = p.video_frames_sent /\ e.plane.encoder = p.encoder
    /\ \/ e.unit = Nothing /\ (p.keyframe_pending => e.plane.keyframe_pending)
       \/ /\ e.unit # Nothing
          /\ (force \/ p.keyframe_pending) => e.unit.key
          /\ SoundUnit(e.unit) /\ (p.encoder = "software" => e.unit.mock)

\* MediaFoundationEncoder::encode keeps a keyframe that it could not send.
LEMMA EncodedByMf ==
    ASSUME NEW p \in Plane, p.encoder = "mf", NEW f, NEW force \in BOOLEAN, NEW ok \in BOOLEAN
    PROVE  Encoded(EncodeMf(p, f, force, ok), p, force)
  <1> DEFINE pend == force \/ p.keyframe_pending
             e == EncodeMf(p, f, force, ok)
  <1>0. p.keyframe_pending \in BOOLEAN /\ p.frames_encoded \in Nat
    BY DEF Plane
  <1>1. CASE BuildSample(f) = Nothing \/ ~ok
    <2>1. e.plane = [p EXCEPT !.keyframe_pending = pend] /\ e.unit = Nothing
      BY <1>1 DEF EncodeMf
    <2>2. pend \in BOOLEAN /\ (p.keyframe_pending => pend)
      BY <1>0
    <2> DEFINE q == e.plane
    <2> HIDE DEF e, pend, q
    <2>3. /\ q \in Plane /\ SameAudio(q, p)
          /\ q.frames_encoded = p.frames_encoded /\ q.keyframe_pending = pend
          /\ q.video_frames_sent = p.video_frames_sent
      <3>1. q = [p EXCEPT !.keyframe_pending = pend]
        BY <2>1 DEF q
      <3> QED BY <2>2, <3>1, PendingSet, ZenonT(60)
    <2>4. p.keyframe_pending => q.keyframe_pending
      BY <2>2, <2>3
    <2>5. q.frames_encoded <= p.frames_encoded + 1
      BY <1>0, <2>3
    <2> QED BY <2>1, <2>3, <2>4, <2>5 DEF Encoded, e, q
  <1>2. CASE ~(BuildSample(f) = Nothing \/ ~ok)
    <2> DEFINE key == pend \/ p.frames_encoded = 0
    <2>1. /\ e.plane = [p EXCEPT !.frames_encoded = @ + 1, !.keyframe_pending = FALSE]
          /\ e.unit = MfUnit(f, key)
      BY <1>2 DEF EncodeMf
    <2>2. (force \/ p.keyframe_pending) => key
      OBVIOUS
    <2> HIDE DEF e, key
    <2>3. e.unit # Nothing /\ e.unit.key = key /\ e.unit.mock = FALSE
      BY <2>1 DEF MfUnit, Nothing
    <2>4. p.frames_encoded + 1 \in Nat /\ FALSE \in BOOLEAN
      BY <1>0
    <2>5. /\ e.plane \in Plane /\ SameAudio(e.plane, p)
          /\ e.plane.frames_encoded = p.frames_encoded + 1
          /\ e.plane.video_frames_sent = p.video_frames_sent
      <3> DEFINE n == p.frames_encoded + 1
                 q == e.plane
      <3>1. q = [p EXCEPT !.frames_encoded = n, !.keyframe_pending = FALSE]
        BY <2>1
      <3>2. n \in Nat
        BY <1>0
      <3> HIDE DEF n, q
      <3>3. q \in Plane
        BY <2>4, <3>1, <3>2, EncoderSet, Zenon
      <3>4. SameAudio(q, p)
        BY <3>1 DEF Plane, SameAudio
      <3>5. q.frames_encoded = n /\ q.video_frames_sent = p.video_frames_sent
        BY <3>1 DEF Plane
      <3> QED BY <3>3, <3>4, <3>5 DEF n, q
    <2>6. SoundUnit(e.unit)
      BY <2>3 DEF SoundUnit
    <2>7. e.plane.frames_encoded <= p.frames_encoded + 1
      BY <1>0, <2>5
    <2>8. (force \/ p.keyframe_pending) => e.unit.key
      BY <2>2, <2>3
    <2>9. e.plane.encoder = p.encoder /\ p.encoder # "software"
      <3>1. p.encoder # "software"
        OBVIOUS
      <3>2. e.plane.encoder = p.encoder
        BY <2>1 DEF Plane
      <3> QED BY <3>1, <3>2
    <2> QED BY <2>3, <2>5, <2>6, <2>7, <2>8, <2>9 DEF Encoded, e
  <1> QED BY <1>1, <1>2

\* MockSoftwareEncoder::encode makes a unit the decoder can rebuild the frame of.
LEMMA EncodedBySoftware ==
    ASSUME NEW p \in Plane, NEW f, IsFrame(f), NEW force \in BOOLEAN
    PROVE  Encoded(EncodeSoftware(p, f, force), p, force)
  <1> DEFINE key == ShouldKeyframe(p, force)
             v == Preview(f)
             e == EncodeSoftware(p, f, force)
             k == IF key THEN FALSE ELSE p.keyframe_pending
             nals == (IF key THEN <<BuildSps(v), BuildPps>> ELSE <<>>) \o <<BuildSlice(v, key)>>
  <1>0. p.keyframe_pending \in BOOLEAN /\ p.frames_encoded \in Nat
    BY DEF Plane
  <1>1. key \in BOOLEAN /\ ((force \/ p.keyframe_pending) => key)
    BY DEF ShouldKeyframe
  <1>2. /\ e.plane = [p EXCEPT !.frames_encoded = @ + 1, !.keyframe_pending = k]
        /\ e.unit = [pts |-> f.pts, key |-> key, mock |-> TRUE, nals |-> nals,
                     preview |-> v, frame |-> f]
    BY DEF EncodeSoftware
  <1>3. ParseMockSlice(nals) = BuildSlice(v, key)
    BY <1>1, SliceFound
  <1>4. k \in BOOLEAN
    BY <1>0
  <1>5. LET r == ReconstructFrame(v)
        IN /\ <<v.w, v.h>> = PreviewSize(f.w, f.h) /\ Fits(f, v)
           /\ r.w = v.w /\ r.h = v.h /\ r.intact /\ r.colour = f.colour
    BY PreviewDecodes
  <1> HIDE DEF e, key, nals, v, k
  <1>6. /\ e.unit # Nothing /\ e.unit.key = key /\ e.unit.mock = TRUE /\ e.unit.nals = nals
        /\ e.unit.preview = v /\ e.unit.frame = f
    <2>1. e.unit # Nothing
      BY <1>2 DEF Nothing
    <2> QED BY <1>2, <2>1
  <1>7. Survives(e.unit)
    <2>1. Decode(e.unit) = ReconstructFrame(v)
      BY <1>3, <1>6 DEF Decode, BuildSlice
    <2>2. ParseMockSlice(e.unit.nals).type = IF key THEN 5 ELSE 1
      BY <1>3, <1>6 DEF BuildSlice
    <2>3. e.unit.key <=> ParseMockSlice(e.unit.nals).type = 5
      BY <1>6, <2>2
    <2>4. /\ Decode(e.unit).intact /\ Decode(e.unit).colour = f.colour
          /\ <<Decode(e.unit).w, Decode(e.unit).h>> = PreviewSize(f.w, f.h)
      BY <1>5, <2>1
    <2> QED BY <1>6, <2>3, <2>4 DEF Survives
  <1>8. SoundUnit(e.unit)
    BY <1>5, <1>6, <1>7 DEF SoundUnit
  <1>9. /\ e.plane \in Plane /\ SameAudio(e.plane, p)
        /\ e.plane.frames_encoded = p.frames_encoded + 1
        /\ e.plane.video_frames_sent = p.video_frames_sent
    <2> DEFINE n == p.frames_encoded + 1
               q == e.plane
    <2>1. q = [p EXCEPT !.frames_encoded = n, !.keyframe_pending = k]
      BY <1>2
    <2>2. n \in Nat
      BY <1>0
    <2> HIDE DEF n, q
    <2>3. q \in Plane
      BY <1>4, <2>1, <2>2, EncoderSet, Zenon
    <2>4. SameAudio(q, p)
      BY <2>1 DEF Plane, SameAudio
    <2>5. q.frames_encoded = n /\ q.video_frames_sent = p.video_frames_sent
      BY <2>1 DEF Plane
    <2> QED BY <2>3, <2>4, <2>5 DEF n, q
  <1>10. e.plane.frames_encoded <= p.frames_encoded + 1
    BY <1>0, <1>9
  <1>11. (force \/ p.keyframe_pending) => e.unit.key
    BY <1>1, <1>6
  <1>12. e.plane.encoder = p.encoder
    BY <1>2 DEF Plane
  <1> QED BY <1>6, <1>8, <1>9, <1>10, <1>11, <1>12 DEF Encoded, e

\* So does whichever encoder is open.
LEMMA FrameEncoded ==
    ASSUME NEW p \in Plane, NEW f, IsFrame(f), NEW force \in BOOLEAN, NEW ok \in BOOLEAN
    PROVE  Encoded(Encode(p, f, force, ok), p, force)
  BY EncodedByMf, EncodedBySoftware DEF Encode

\* The unit is sent as it was encoded.
LEMMA SentSound ==
    ASSUME NEW u, NEW rtp, SoundUnit(u)
    PROVE  LET s == VideoNalu(u, rtp)
           IN s # Nothing /\ SoundUnit(s) /\ s.key = u.key
  <1> DEFINE s == VideoNalu(u, rtp)
  <1>1. /\ s.key = u.key /\ s.mock = u.mock /\ s.nals = u.nals /\ s.preview = u.preview
        /\ s.frame = u.frame
    BY DEF VideoNalu
  <1>2. s # Nothing
    BY DEF VideoNalu, Nothing
  <1> HIDE DEF s
  <1>3. Decode(s) = Decode(u)
    BY <1>1 DEF Decode
  <1>4. SoundUnit(s)
    BY <1>1, <1>3 DEF SoundUnit, Survives
  <1> QED BY <1>1, <1>2, <1>4 DEF s

-----------------------------------------------------------------------------
(***************************************************************************)
(* The invariant of the media plane.                                       *)
(***************************************************************************)
AroundInv ==
    /\ boot \in Nat /\ host \in boot..(boot + MaxHost) /\ connected \in BOOLEAN
    /\ vkind \in VideoKinds \cup {"windows_mock"} /\ akind \in AudioKinds
    /\ desktop \in [size : Sizes, colour : Colours, pad : Pads, dirty : BOOLEAN, locked : BOOLEAN]
    /\ device \in Seq(BOOLEAN) /\ Len(device) <= Backlog

PlaneInv ==
    \/ plane = NoPlane
    \/ /\ plane \in Plane /\ AudioInv(plane, Len(device))
       /\ plane.frames_encoded <= MaxAudio /\ plane.index < MaxAudio + AudioPerFrame

\* With the software encoder no more units were sent since the last keyframe
\* than since the last forced one and between the lost ones before it.
CountInv ==
    /\ since_key \in Nat /\ lost_keys \in Nat
    /\ plane.open /\ plane.encoder = "software" =>
        IF plane.video_frames_sent = 0 THEN since_key = 0
        ELSE since_key <= (KeyInterval - 1) * lost_keys
                            + ((plane.video_frames_sent - 1) % KeyInterval)

\* A keyframe that was asked for is owed.
AskedInv == asked \in BOOLEAN /\ (asked /\ plane.open => plane.keyframe_pending)

SentInv == OnTime(audio) /\ (au # Nothing => SoundUnit(au))

MediaInv == AroundInv /\ PlaneInv /\ CountInv /\ AskedInv /\ SentInv

\* What KeyframeHonoured says of a step.
Honoured == asked /\ au' # au /\ au' # Nothing => au'.key /\ (au'.mock => Idr(au'))

\* A plane that is open is a plane.
LEMMA OpenPlane ==
    ASSUME PlaneInv, plane.open
    PROVE  /\ plane \in Plane /\ AudioInv(plane, Len(device))
           /\ plane.frames_encoded <= MaxAudio /\ plane.index < MaxAudio + AudioPerFrame
  BY DEF PlaneInv, NoPlane

\* Products of naturals, and one factor more.
LEMMA MultNat == \A a, b \in Nat : a * b \in Nat
  OBVIOUS

LEMMA Distributes == \A a, b \in Nat : a * (1 + b) = a * b + a
  OBVIOUS

\* The invariant's count is within the bound.
LEMMA BoundKept ==
    ASSUME CountInv, plane.open, plane \in Plane, plane.encoder = "software"
    PROVE  since_key <= (KeyInterval - 1) * (1 + lost_keys)
  <1> DEFINE k == KeyInterval - 1
             m == (plane.video_frames_sent - 1) % KeyInterval
             l == k * lost_keys
  <1>1. since_key \in Nat /\ lost_keys \in Nat /\ k \in Nat /\ plane.video_frames_sent \in Nat
    BY MediaFacts DEF CountInv, Plane
  <1>2. l \in Nat /\ k * (1 + lost_keys) = l + k
    BY <1>1, MultNat, Distributes
  <1>3. plane.video_frames_sent # 0 => m \in 0 .. k
    <2>1. plane.video_frames_sent - 1 \in Int
      BY <1>1
    <2> QED BY <2>1, MediaFacts, DivLaw
  <1>4. since_key = 0 \/ (plane.video_frames_sent # 0 /\ since_key <= l + m)
    BY DEF CountInv
  <1> HIDE DEF k, m, l
  <1>5. since_key <= l + k
    BY <1>1, <1>2, <1>3, <1>4
  <1> QED BY <1>2, <1>5 DEF k

\* The invariant implies what is to be shown.
LEMMA MediaInvSound ==
    ASSUME MediaInv
    PROVE  PlaneSound
  <1>1. MediaTypeOK
    <2>1. ASSUME plane.open
          PROVE  /\ plane.audio \in {"tone", "stub", "native", "monitor"}
                 /\ plane.encoder \in {"mf", "software"}
                 /\ plane.frames_encoded \in 0..MaxAudio /\ plane.index < MaxAudio + AudioPerFrame
                 /\ plane.next_rtp_ts \in 0..(RtpWrap - 1)
      <3>1. /\ plane \in Plane
            /\ plane.frames_encoded <= MaxAudio /\ plane.index < MaxAudio + AudioPerFrame
        BY <2>1, OpenPlane DEF MediaInv
      <3>2. plane.frames_encoded \in Nat
        BY <3>1 DEF Plane
      <3>3. plane.frames_encoded \in 0..MaxAudio
        BY <3>1, <3>2, MediaFacts
      <3> QED BY <3>1, <3>3 DEF Plane
    <2>2. desktop.size \in Sizes /\ desktop.colour \in Colours
      BY DEF MediaInv, AroundInv
    <2> QED BY <2>1, <2>2 DEF MediaInv, AroundInv, MediaTypeOK
  <1>2. GopBounded
    BY OpenPlane, BoundKept DEF MediaInv, CountInv, GopBounded
  <1>3. PictureSurvives
    BY DEF MediaInv, SentInv, SoundUnit, Survives, PictureSurvives
  <1>4. PreviewFits
    BY DEF MediaInv, SentInv, SoundUnit, Fits, Covered, PreviewFits
  <1>5. AudioContiguous
    BY DEF MediaInv, SentInv, OnTime, AudioContiguous
  <1>6. SilenceReportedOnce
    BY OpenPlane DEF MediaInv, AudioInv, SilenceReportedOnce
  <1>7. AudioNotFromTheFuture
    <2> SUFFICES ASSUME plane.open, plane.audio = "native"
                 PROVE  plane.index <= host - boot
      BY DEF AudioNotFromTheFuture
    <2>1. plane \in Plane /\ AudioInv(plane, Len(device))
      BY OpenPlane DEF MediaInv
    <2>2. plane.index + Len(plane.pending) + Len(device) <= host - boot
      BY <2>1 DEF AudioInv
    <2>3. plane.index \in Nat /\ Len(plane.pending) \in Nat /\ Len(device) \in Nat
          /\ host - boot \in Int
      <3>1. plane.pending \in Seq(BOOLEAN) /\ device \in Seq(BOOLEAN) /\ plane.index \in Nat
        BY <2>1 DEF Plane, MediaInv, AroundInv
      <3>2. Len(plane.pending) \in Nat /\ Len(device) \in Nat
        BY <3>1, LenProperties
      <3>3. host - boot \in Int
        BY MediaFacts DEF MediaInv, AroundInv
      <3> QED BY <3>1, <3>2, <3>3
    <2>4. \A a, b, c \in Nat, d \in Int : a + b + c <= d => a <= d
      OBVIOUS
    <2> QED BY <2>2, <2>3, <2>4
  <1> QED BY <1>1, <1>2, <1>3, <1>4, <1>5, <1>6, <1>7 DEF PlaneSound

\* It holds at first.
LEMMA MediaInvInit ==
    ASSUME MediaInit
    PROVE  MediaInv
  <1>1. AroundInv
    <2>1. boot \in Nat /\ host \in boot..(boot + MaxHost)
      BY MediaFacts DEF MediaInit
    <2>2. vkind \in VideoKinds \cup {"windows_mock"} /\ akind \in AudioKinds
      BY DEF MediaInit
    <2>3. desktop \in [size : Sizes, colour : Colours, pad : Pads, dirty : BOOLEAN, locked : BOOLEAN]
      BY DEF MediaInit, Colours
    <2>4. device \in Seq(BOOLEAN) /\ Len(device) <= Backlog /\ connected \in BOOLEAN
      <3>1. device = <<>> /\ connected = FALSE
        BY DEF MediaInit
      <3>2. device \in Seq(BOOLEAN) /\ Len(device) = 0
        BY <3>1
      <3>3. 0 <= Backlog
        BY MediaFacts
      <3>4. connected \in BOOLEAN
        BY <3>1
      <3> QED BY <3>2, <3>3, <3>4
    <2> QED BY <2>1, <2>2, <2>3, <2>4 DEF AroundInv
  <1>2. PlaneInv
    BY DEF PlaneInv, MediaInit
  <1>3. CountInv /\ AskedInv
    <2>1. ~plane.open
      BY DEF MediaInit, NoPlane
    <2>2. since_key = 0 /\ lost_keys = 0 /\ asked = FALSE
      BY DEF MediaInit
    <2>3. CountInv
      BY <2>1, <2>2, MediaFacts DEF CountInv
    <2>4. AskedInv
      BY <2>1, <2>2 DEF AskedInv
    <2> QED BY <2>3, <2>4
  <1>4. SentInv
    BY DEF SentInv, OnTime, MediaInit
  <1> QED BY <1>1, <1>2, <1>3, <1>4 DEF MediaInv

Fresh(p) ==
    /\ p \in Plane /\ p.open /\ p.index = 0 /\ p.pending = <<>> /\ p.streak = 0
    /\ p.warned = FALSE /\ p.warnings = 0 /\ p.frames_encoded = 0
    /\ p.video_frames_sent = 0

\* A plane that was just opened.
LEMMA NewPlaneIs ==
    ASSUME NEW kind \in VideoCaptureKind, NEW a_works \in BOOLEAN, NEW e_works \in BOOLEAN,
           akind \in AudioCaptureKind, OpenAudioSource(akind, a_works) # None
    PROVE  Fresh(NewPlane(kind, a_works, e_works))
  <1> DEFINE src == OpenAudioSource(akind, a_works)
             enc == OpenEncoder(e_works)
             p == NewPlane(kind, a_works, e_works)
  <1>1. src \in {"tone", "stub", "native", "monitor"}
    BY DEF OpenAudioSource, OpenLoopback, OpenNativeLoopback, OpenMonitor, OpenNativeMonitor,
           AudioCaptureKind, None
  <1>2. enc \in {"mf", "software"}
    BY DEF OpenEncoder, PreferSoftware, OpenMf, OpenHardware
  <1> HIDE DEF src, enc
  <1>3. p = [open |-> TRUE, video |-> kind, next_pts |-> 0, next_rtp_ts |-> 0,
             video_frames_sent |-> 0, audio |-> src, start_pts |-> 0, index |-> 0,
             pending |-> <<>>, streak |-> 0, warned |-> FALSE, warnings |-> 0,
             encoder |-> enc, frames_encoded |-> 0, keyframe_pending |-> TRUE]
    BY DEF NewPlane, NewAudio, NewEncoder, T0, src, enc
  <1>4. 0 \in 0 .. (RtpWrap - 1) /\ <<>> \in Seq(BOOLEAN)
    BY MediaFacts
  <1> HIDE DEF p
  <1>5. p \in Plane
    BY <1>1, <1>2, <1>3, <1>4 DEF Plane
  <1>6. /\ p.open /\ p.index = 0 /\ p.pending = <<>> /\ p.streak = 0
        /\ p.warned = FALSE /\ p.warnings = 0 /\ p.frames_encoded = 0
        /\ p.video_frames_sent = 0
    BY <1>3
  <1> QED BY <1>5, <1>6 DEF Fresh, p

\* start_media keeps the invariant: everything is new.
LEMMA StartKeeps ==
    ASSUME MediaInv, StartMedia
    PROVE  MediaInv' /\ Honoured
  <1> PICK a_works \in BOOLEAN, e_works \in BOOLEAN :
        IF CanOpen(vkind, a_works)
        THEN plane' = NewPlane(vkind, a_works, e_works) /\ UNCHANGED vkind
        ELSE /\ vkind' = "windows_mock"
             /\ plane' = IF CanOpen("windows_mock", a_works)
                         THEN NewPlane("windows_mock", a_works, e_works) ELSE NoPlane
    BY DEF StartMedia
  <1>0. /\ device' = <<>> /\ au' = Nothing /\ audio' = Nothing /\ asked' = FALSE
        /\ since_key' = 0 /\ lost_keys' = 0
        /\ UNCHANGED <<host, boot, windows, akind, force_software, connected, desktop>>
    BY DEF StartMedia
  <1>1. vkind \in VideoCaptureKind /\ akind \in AudioCaptureKind /\ "windows_mock" \in VideoCaptureKind
    BY MediaFacts DEF MediaInv, AroundInv, VideoCaptureKind
  <1>2. /\ vkind' = vkind \/ vkind' = "windows_mock"
        /\ \/ plane' = NoPlane
           \/ \E kind \in VideoCaptureKind : CanOpen(kind, a_works)
                                             /\ plane' = NewPlane(kind, a_works, e_works)
    BY <1>1
  <1>3. AroundInv'
    <2>1. device' \in Seq(BOOLEAN) /\ Len(device') = 0
      BY <1>0
    <2>2. vkind' \in VideoKinds \cup {"windows_mock"}
      BY <1>2 DEF MediaInv, AroundInv
    <2>3. host' = host /\ boot' = boot /\ akind' = akind /\ connected' = connected /\ desktop' = desktop
      BY <1>0
    <2> QED BY <2>1, <2>2, <2>3, MediaFacts DEF MediaInv, AroundInv
  <1>4. PlaneInv' /\ (plane'.open => plane'.video_frames_sent = 0)
    <2>1. CASE plane' = NoPlane
      BY <2>1 DEF PlaneInv, NoPlane
    <2>2. CASE \E kind \in VideoCaptureKind : CanOpen(kind, a_works)
                                              /\ plane' = NewPlane(kind, a_works, e_works)
      <3>1. PICK kind \in VideoCaptureKind : CanOpen(kind, a_works)
                                             /\ plane' = NewPlane(kind, a_works, e_works)
        BY <2>2
      <3>2. OpenAudioSource(akind, a_works) # None
        BY <3>1 DEF CanOpen
      <3>3. /\ plane' \in Plane /\ plane'.open /\ plane'.index = 0 /\ plane'.pending = <<>>
            /\ plane'.streak = 0 /\ plane'.warned = FALSE /\ plane'.warnings = 0
            /\ plane'.frames_encoded = 0 /\ plane'.video_frames_sent = 0
        <4>1. Fresh(NewPlane(kind, a_works, e_works))
          BY <1>1, <3>2, NewPlaneIs
        <4> QED BY <3>1, <4>1 DEF Fresh
      <3>4. /\ ~(0 >= ExclusivePackets) /\ 0 + 0 + 0 <= host - boot
            /\ 0 <= MaxAudio /\ 0 < MaxAudio + AudioPerFrame
        BY MediaFacts DEF MediaInv, AroundInv
      <3>5. AudioInv(plane, Len(device))'
        <4>1. Len(plane'.pending) = 0 /\ Len(device') = 0
          BY <1>0, <3>3
        <4>2. host' = host /\ boot' = boot
          BY <1>0
        <4> QED BY <3>3, <3>4, <4>1, <4>2 DEF AudioInv
      <3> QED BY <3>3, <3>4, <3>5 DEF PlaneInv
    <2> QED BY <1>2, <2>1, <2>2
  <1>5. CountInv'
    BY <1>0, <1>4, MediaFacts DEF CountInv
  <1>6. AskedInv' /\ SentInv' /\ Honoured
    BY <1>0 DEF AskedInv, SentInv, OnTime, Honoured
  <1> QED BY <1>3, <1>4, <1>5, <1>6 DEF MediaInv

-----------------------------------------------------------------------------
\* A step that leaves the plane, its device and the outcome alone.
LEMMA SurroundingsKeep ==
    ASSUME MediaInv, AroundInv', UNCHANGED <<host, boot, plane, device, outcome>>
    PROVE  MediaInv' /\ Honoured
  <1>1. PlaneInv'
    BY DEF MediaInv, PlaneInv, AudioInv
  <1>2. CountInv' /\ AskedInv'
    BY DEF MediaInv, CountInv, AskedInv, outcome, units
  <1>3. SentInv' /\ Honoured
    BY DEF MediaInv, SentInv, OnTime, Honoured, outcome, units
  <1> QED BY <1>1, <1>2, <1>3 DEF MediaInv

\* The peer comes and goes.
LEMMA ConnectionKeeps ==
    ASSUME MediaInv, Connection
    PROVE  MediaInv' /\ Honoured
  <1>1. /\ UNCHANGED <<host, boot, vkind, akind, desktop, device, plane, outcome>>
        /\ connected' \in BOOLEAN
    BY DEF Connection, config
  <1>2. AroundInv'
    BY <1>1 DEF MediaInv, AroundInv
  <1> QED BY <1>1, <1>2, SurroundingsKeep

\* The desktop changes.
LEMMA DesktopKeeps ==
    ASSUME MediaInv, DesktopChange
    PROVE  MediaInv' /\ Honoured
  <1> DEFINE D == [size : Sizes, colour : Colours, pad : Pads, dirty : BOOLEAN, locked : BOOLEAN]
  <1>0. desktop \in D
    BY DEF MediaInv, AroundInv
  <1>1. UNCHANGED <<host, boot, vkind, akind, connected, device, plane, outcome>>
    BY DEF DesktopChange, config
  <1>2. desktop' \in D
    <2>1. (CHOOSE c \in Colours : c # desktop.colour) \in Colours
      <3>1. \E c \in Colours : c # desktop.colour
        BY DEF Colours
      <3> QED BY <3>1
    <2> DEFINE other == CHOOSE c \in Colours : c # desktop.colour
    <2> HIDE DEF other
    <2>2. CASE desktop' = [desktop EXCEPT !.dirty = TRUE, !.colour = other]
      BY <1>0, <2>1, <2>2 DEF other
    <2>3. CASE \E s \in Sizes : s # desktop.size /\ desktop' = [desktop EXCEPT !.size = s, !.dirty = TRUE]
      BY <1>0, <2>3
    <2>4. CASE desktop' = [desktop EXCEPT !.locked = ~@, !.dirty = TRUE]
      <3> DEFINE l == ~desktop.locked
      <3>1. l \in BOOLEAN /\ desktop' = [desktop EXCEPT !.locked = l, !.dirty = TRUE]
        BY <2>4
      <3> HIDE DEF l
      <3> QED BY <1>0, <3>1
    <2> QED BY <2>2, <2>3, <2>4 DEF DesktopChange, other
  <1>3. AroundInv'
    BY <1>1, <1>2 DEF MediaInv, AroundInv
  <1> QED BY <1>1, <1>3, SurroundingsKeep

\* stop_media keeps the invariant: nothing is open.
LEMMA StopKeeps ==
    ASSUME MediaInv, StopMedia
    PROVE  MediaInv' /\ Honoured
  <1>1. /\ UNCHANGED <<host, boot, vkind, akind, connected, desktop, device, outcome>>
        /\ plane' = NoPlane
    BY DEF StopMedia, config
  <1>2. AroundInv'
    BY <1>1 DEF MediaInv, AroundInv
  <1>3. PlaneInv' /\ ~plane'.open
    BY <1>1 DEF PlaneInv, NoPlane
  <1>4. CountInv' /\ AskedInv'
    BY <1>1, <1>3 DEF MediaInv, CountInv, AskedInv, outcome, units
  <1>5. SentInv' /\ Honoured
    BY <1>1 DEF MediaInv, SentInv, OnTime, Honoured, outcome, units
  <1> QED BY <1>2, <1>3, <1>4, <1>5 DEF MediaInv

\* Nothing happens.
LEMMA StutterKeeps ==
    ASSUME MediaInv, UNCHANGED mvars
    PROVE  MediaInv' /\ Honoured
  <1>1. UNCHANGED <<host, boot, vkind, akind, connected, desktop, plane, device, outcome>>
    BY DEF mvars, outcome, units
  <1>2. AroundInv'
    BY <1>1 DEF MediaInv, AroundInv
  <1> QED BY <1>1, <1>2, SurroundingsKeep

\* More time passes than packets arrive.
LEMMA TickKeeps ==
    ASSUME MediaInv, HostTick
    PROVE  MediaInv' /\ Honoured
  <1>0. /\ host < boot + MaxHost /\ host' = host + 1
        /\ UNCHANGED <<boot, vkind, akind, connected, desktop, plane, outcome>>
    BY DEF HostTick, config
  <1>1. /\ device \in Seq(BOOLEAN) /\ Len(device) <= Backlog
        /\ boot \in Nat /\ host \in boot .. (boot + MaxHost)
    BY DEF MediaInv, AroundInv
  <1>2. device' \in Seq(BOOLEAN) /\ Len(device') <= Backlog /\ Len(device') <= Len(device) + 1
        /\ Len(device) \in Nat /\ Len(device') \in Nat
    <2>1. CASE UNCHANGED device
      BY <1>1, <2>1
    <2>2. CASE Len(device) < Backlog /\ \E silent \in BOOLEAN : device' = Append(device, silent)
      <3>1. PICK silent \in BOOLEAN : device' = Append(device, silent)
        BY <2>2
      <3>2. device' \in Seq(BOOLEAN) /\ Len(device') = Len(device) + 1 /\ Len(device) \in Nat
        BY <1>1, <3>1
      <3> QED BY <2>2, <3>2, MediaFacts
    <2> QED BY <2>1, <2>2 DEF HostTick
  <1>3. host' \in boot' .. (boot' + MaxHost)
    BY <1>0, <1>1, MediaFacts
  <1>4. AroundInv'
    BY <1>0, <1>2, <1>3 DEF MediaInv, AroundInv
  <1>5. PlaneInv'
    <2>1. CASE plane = NoPlane
      BY <1>0, <2>1 DEF PlaneInv
    <2>2. CASE /\ plane \in Plane /\ AudioInv(plane, Len(device))
               /\ plane.frames_encoded <= MaxAudio /\ plane.index < MaxAudio + AudioPerFrame
      <3>1. plane.audio = "native" => plane.index + Len(plane.pending) + Len(device') <= host' - boot'
        <4> SUFFICES ASSUME plane.audio = "native"
                     PROVE  plane.index + Len(plane.pending) + Len(device') <= host' - boot'
          OBVIOUS
        <4>1. plane.index + Len(plane.pending) + Len(device) <= host - boot
          BY <2>2 DEF AudioInv
        <4>2. plane.index \in Nat /\ Len(plane.pending) \in Nat
          <5>1. plane.index \in Nat /\ plane.pending \in Seq(BOOLEAN)
            BY <2>2 DEF Plane
          <5> QED BY <5>1, LenProperties
        <4>3. host' = host + 1 /\ boot' = boot /\ host \in Int /\ boot \in Int
          BY <1>0, <1>1, MediaFacts
        <4>4. \A a, b, c, d \in Nat, h, k \in Int :
                a + b + c <= h - k /\ d <= c + 1 => a + b + d <= (h + 1) - k
          OBVIOUS
        <4>5. plane.index + Len(plane.pending) + Len(device') <= (host + 1) - boot
          BY <1>2, <4>1, <4>2, <4>3, <4>4
        <4> QED BY <4>3, <4>5
      <3>2. AudioInv(plane, Len(device))'
        BY <1>0, <2>2, <3>1 DEF AudioInv
      <3> QED BY <1>0, <2>2, <3>2 DEF PlaneInv
    <2> QED BY <2>1, <2>2 DEF MediaInv, PlaneInv
  <1>6. CountInv' /\ AskedInv'
    BY <1>0 DEF MediaInv, CountInv, AskedInv, outcome, units
  <1>7. SentInv' /\ Honoured
    BY <1>0 DEF MediaInv, SentInv, OnTime, Honoured, outcome, units
  <1> QED BY <1>4, <1>5, <1>6, <1>7 DEF MediaInv

\* A keyframe that is asked for is owed.
LEMMA RequestKeeps ==
    ASSUME MediaInv, RequestKeyframe
    PROVE  MediaInv' /\ Honoured
  <1>0. /\ plane.open /\ plane' = [plane EXCEPT !.keyframe_pending = TRUE] /\ asked' = TRUE
        /\ UNCHANGED <<host, boot, vkind, akind, connected, desktop, device, au, audio, since_key, lost_keys>>
    BY DEF RequestKeyframe, config
  <1>1. /\ plane \in Plane /\ AudioInv(plane, Len(device))
        /\ plane.frames_encoded <= MaxAudio /\ plane.index < MaxAudio + AudioPerFrame
    BY <1>0, OpenPlane DEF MediaInv
  <1> DEFINE q == [plane EXCEPT !.keyframe_pending = TRUE]
  <1>2. /\ q \in Plane /\ SameAudio(q, plane) /\ q.keyframe_pending
        /\ q.frames_encoded = plane.frames_encoded
        /\ q.video_frames_sent = plane.video_frames_sent /\ q.encoder = plane.encoder
    <2>1. q \in Plane
      BY <1>1 DEF Plane
    <2>2. SameAudio(q, plane)
      BY <1>1 DEF Plane, SameAudio
    <2>3. /\ q.keyframe_pending /\ q.frames_encoded = plane.frames_encoded
          /\ q.video_frames_sent = plane.video_frames_sent /\ q.encoder = plane.encoder
      BY <1>1 DEF Plane
    <2> QED BY <2>1, <2>2, <2>3
  <1>3. plane' = q
    BY <1>0
  <1> HIDE DEF q
  <1>4. AroundInv'
    BY <1>0 DEF MediaInv, AroundInv
  <1>5. PlaneInv'
    <2>1. AudioInv(q, Len(device))
      BY <1>1, <1>2, AudioKept
    <2>2. AudioInv(plane, Len(device))'
      BY <1>0, <1>3, <2>1 DEF AudioInv
    <2>3. q.index = plane.index
      BY <1>2 DEF SameAudio
    <2> QED BY <1>1, <1>2, <1>3, <2>2, <2>3 DEF PlaneInv
  <1>6. CountInv'
    BY <1>0, <1>2, <1>3 DEF MediaInv, CountInv
  <1>7. AskedInv'
    BY <1>0, <1>2, <1>3 DEF AskedInv
  <1>8. SentInv' /\ Honoured
    BY <1>0 DEF MediaInv, SentInv, OnTime, Honoured
  <1> QED BY <1>4, <1>5, <1>6, <1>7, <1>8 DEF MediaInv

-----------------------------------------------------------------------------
(***************************************************************************)
(* pump_media.                                                             *)
(***************************************************************************)

\* What the audio turns leave behind, whatever the video does.
LEMMA TurnsLeave ==
    ASSUME MediaInv, plane.open, Room, NEW n \in 0 .. AudioPerFrame
    PROVE  LET t == AudioTurnsUpTo(n)
           IN /\ t.plane \in Plane /\ SameVideo(t.plane, plane) /\ AudioInv(t.plane, 0)
              /\ t.plane.index < MaxAudio + AudioPerFrame
              /\ t.plane.frames_encoded < MaxAudio
              /\ OnTime(t.last)
  <1> DEFINE t == AudioTurnsUpTo(n)
  <1>0. plane \in Plane /\ AudioInv(plane, Len(device))
    BY OpenPlane DEF MediaInv
  <1>1. device \in Seq(BOOLEAN) /\ OnTime(audio)
    BY DEF MediaInv, AroundInv, SentInv
  <1>2. TurnInv(t, n) /\ n \in Nat /\ n <= AudioPerFrame
    BY <1>0, <1>1, TurnsKeep, MediaFacts
  <1> HIDE DEF t
  <1>3. plane.index < MaxAudio /\ plane.index \in Nat /\ plane.frames_encoded < MaxAudio
    BY <1>0 DEF Room, Plane
  <1>4. t.plane \in Plane /\ t.plane.index <= plane.index + n
        /\ t.plane.frames_encoded = plane.frames_encoded
    BY <1>2 DEF TurnInv, SameVideo
  <1>5. t.plane.index \in Nat
    BY <1>4 DEF Plane
  <1>6. t.plane.index < MaxAudio + AudioPerFrame
    BY <1>2, <1>3, <1>4, <1>5, MediaFacts
  <1>7. t.plane.frames_encoded < MaxAudio
    BY <1>3, <1>4
  <1> QED BY <1>2, <1>6, <1>7 DEF TurnInv, t

\* The device is drained by the client that reads it.
LEMMA DeviceDrained ==
    ASSUME MediaInv, NEW q, AudioInv(q, 0), NEW t, AudioSent(t), q.audio = plane.audio, plane' = q,
           UNCHANGED <<host, boot>>
    PROVE  /\ AudioInv(plane, Len(device))'
           /\ device' \in Seq(BOOLEAN) /\ Len(device') <= Backlog
  <1>1. device' = IF q.audio = "native" THEN <<>> ELSE device
    BY DEF AudioSent
  <1>2. <<>> \in Seq(BOOLEAN) /\ Len(<<>>) = 0 /\ 0 <= Backlog
    BY MediaFacts
  <1>3. device \in Seq(BOOLEAN) /\ Len(device) <= Backlog
    BY DEF MediaInv, AroundInv
  <1>4. q.audio = "native" => Len(device') = 0
    BY <1>1, <1>2
  <1>5. AudioInv(plane, Len(device))'
    BY <1>4 DEF AudioInv
  <1> QED BY <1>1, <1>2, <1>3, <1>5

\* pump_media without a frame: access was lost, nothing was new, or a packet
\* was not sent.
LEMMA PumpWithoutFrame ==
    ASSUME MediaInv, plane.open, Room, NEW n \in 0 .. AudioPerFrame,
           AudioSent(AudioTurnsUpTo(n)), plane' = AudioTurnsUpTo(n).plane,
           UNCHANGED <<host, config, connected, desktop, units>>
    PROVE  MediaInv' /\ Honoured
  <1> DEFINE t == AudioTurnsUpTo(n)
             q == t.plane
  <1>1. /\ q \in Plane /\ SameVideo(q, plane) /\ AudioInv(q, 0)
        /\ q.index < MaxAudio + AudioPerFrame /\ q.frames_encoded < MaxAudio
        /\ OnTime(t.last)
    BY TurnsLeave
  <1>2. AudioSent(t) /\ plane' = q /\ audio' = t.last
        /\ UNCHANGED <<host, boot, vkind, akind, connected, desktop, au, asked, since_key,
                       lost_keys>>
    BY DEF AudioSent, config, units
  <1> HIDE DEF t, q
  <1>3. q.audio = plane.audio /\ q.encoder = plane.encoder /\ q.video_frames_sent = plane.video_frames_sent
        /\ q.keyframe_pending = plane.keyframe_pending
    BY <1>1 DEF SameVideo
  <1>4. /\ AudioInv(plane, Len(device))' /\ device' \in Seq(BOOLEAN) /\ Len(device') <= Backlog
    BY <1>1, <1>2, <1>3, DeviceDrained
  <1>5. AroundInv'
    BY <1>2, <1>4 DEF MediaInv, AroundInv
  <1>6. PlaneInv'
    <2>1. q.frames_encoded <= MaxAudio
      <3>1. q.frames_encoded \in Nat
        BY <1>1 DEF Plane
      <3> QED BY <1>1, <3>1, MediaFacts
    <2> QED BY <1>1, <1>2, <1>4, <2>1 DEF PlaneInv
  <1>7. CountInv' /\ AskedInv'
    BY <1>2, <1>3 DEF MediaInv, CountInv, AskedInv
  <1>8. SentInv' /\ Honoured
    BY <1>1, <1>2 DEF MediaInv, SentInv, Honoured
  <1> QED BY <1>5, <1>6, <1>7, <1>8 DEF MediaInv

\* The source counts on; DXGI stamps by the clock.
LEMMA PulledSet ==
    ASSUME NEW p \in Plane
    PROVE  LET q == [p EXCEPT !.next_pts = IF p.video = "windows_dxgi" THEN @ ELSE @ + FrameTicks]
           IN /\ q \in Plane /\ SameAudio(q, p)
              /\ q.frames_encoded = p.frames_encoded /\ q.keyframe_pending = p.keyframe_pending
              /\ q.video_frames_sent = p.video_frames_sent /\ q.encoder = p.encoder
  <1> DEFINE n == IF p.video = "windows_dxgi" THEN p.next_pts ELSE p.next_pts + FrameTicks
             q == [p EXCEPT !.next_pts = n]
  <1>1. n \in Nat
    <2>1. p.next_pts \in Nat
      BY DEF Plane
    <2> QED BY <2>1, MediaFacts
  <1> HIDE DEF n
  <1>2. q \in Plane
    BY <1>1 DEF Plane
  <1>3. SameAudio(q, p)
    BY DEF Plane, SameAudio
  <1>4. /\ q.frames_encoded = p.frames_encoded /\ q.keyframe_pending = p.keyframe_pending
        /\ q.video_frames_sent = p.video_frames_sent /\ q.encoder = p.encoder
    BY DEF Plane
  <1> QED BY <1>2, <1>3, <1>4 DEF n

\* A unit that is encoded is counted.
LEMMA SentCounted ==
    ASSUME NEW p \in Plane
    PROVE  LET q == [p EXCEPT !.video_frames_sent = @ + 1]
           IN /\ q \in Plane /\ SameAudio(q, p)
              /\ q.frames_encoded = p.frames_encoded /\ q.keyframe_pending = p.keyframe_pending
              /\ q.video_frames_sent = p.video_frames_sent + 1 /\ q.encoder = p.encoder
  <1> DEFINE n == p.video_frames_sent + 1
             q == [p EXCEPT !.video_frames_sent = n]
  <1>1. n \in Nat
    BY DEF Plane
  <1> HIDE DEF n
  <1>2. q \in Plane
    BY <1>1 DEF Plane
  <1>3. SameAudio(q, p)
    BY DEF Plane, SameAudio
  <1>4. /\ q.frames_encoded = p.frames_encoded /\ q.keyframe_pending = p.keyframe_pending
        /\ q.video_frames_sent = n /\ q.encoder = p.encoder
    BY DEF Plane
  <1> QED BY <1>2, <1>3, <1>4 DEF n

\* Between two multiples of k the remainder grows by one.
LEMMA RestGrows ==
    ASSUME NEW n \in Nat \ {0}, NEW k \in Nat \ {0}, n % k # 0
    PROVE  ((n - 1) % k) + 1 = n % k
  <1> DEFINE q == n \div k
             r == n % k
  <1>1. q \in Int /\ r \in 0 .. (k - 1) /\ n = k * q + r
    BY DivLaw
  <1>2. n - 1 \in Int
    OBVIOUS
  <1>3. r # 0
    OBVIOUS
  <1> HIDE DEF q, r
  <1>4. k * q \in Int
    BY <1>1
  <1>5. k * q <= n - 1 /\ n - 1 < k * q + k
    BY <1>1, <1>3, <1>4
  <1>6. (n - 1) \div k = q
    BY <1>1, <1>2, <1>5, DivUnique
  <1>7. n - 1 = k * q + ((n - 1) % k) /\ (n - 1) % k \in 0 .. (k - 1)
    BY <1>2, <1>6, DivLaw
  <1> DEFINE e == (n - 1) % k
  <1> HIDE DEF e
  <1>8. n - 1 = k * q + e /\ e \in 0 .. (k - 1)
    BY <1>7 DEF e
  <1>9. e + 1 = r
    BY <1>1, <1>4, <1>8
  <1> QED BY <1>9 DEF e, r

\* A unit more was encoded, a keyframe when one is forced, and sent or not.
LEMMA CountKeeps ==
    ASSUME CountInv, plane.open, plane.video_frames_sent \in Nat, NEW idr \in BOOLEAN,
           NEW sent \in BOOLEAN,
           plane.encoder = "software" /\ plane.video_frames_sent % KeyInterval = 0 => idr,
           since_key' = (CASE ~sent -> since_key [] sent /\ idr -> 0 [] OTHER -> since_key + 1),
           lost_keys' = (CASE ~idr -> lost_keys [] idr /\ sent -> 0 [] OTHER -> lost_keys + 1),
           plane'.video_frames_sent = plane.video_frames_sent + 1,
           plane'.encoder = plane.encoder
    PROVE  CountInv'
  <1> DEFINE n == plane.video_frames_sent
             m == n % KeyInterval
             k == KeyInterval - 1
             e == (n - 1) % KeyInterval
  <1>0. n \in Nat /\ KeyInterval \in Nat \ {0} /\ m \in 0 .. k /\ k \in Nat
        /\ since_key \in Nat /\ lost_keys \in Nat
    <2>1. n \in Int
      OBVIOUS
    <2>2. since_key \in Nat /\ lost_keys \in Nat
      BY DEF CountInv
    <2>3. KeyInterval \in Nat \ {0} /\ k \in Nat
      BY MediaFacts
    <2> HIDE DEF n
    <2>4. m \in 0 .. k
      BY <2>1, <2>3, DivLaw
    <2> QED BY <2>1, <2>2, <2>3, <2>4 DEF n
  <1>1. since_key' \in Nat /\ lost_keys' \in Nat
    BY <1>0
  <1>2. ASSUME plane.encoder = "software"
        PROVE  since_key' <= k * lost_keys' + m
    <2> DEFINE l == k * lost_keys
               l2 == k * lost_keys'
    <2>1. l \in Nat /\ l2 \in Nat /\ k * (1 + lost_keys) = l + k
      BY <1>0, <1>1, MultNat, Distributes
    <2>2. n = 0 => m = 0 /\ since_key = 0
      <3> SUFFICES ASSUME n = 0 PROVE m = 0 /\ since_key = 0
        OBVIOUS
      <3>1. since_key = 0
        BY <1>2 DEF CountInv
      <3>2. 0 % KeyInterval = 0
        BY <1>0
      <3> QED BY <3>1, <3>2
    <2>3. n # 0 => since_key <= l + e /\ e \in 0 .. k
      <3> SUFFICES ASSUME n # 0 PROVE since_key <= l + e /\ e \in 0 .. k
        OBVIOUS
      <3>1. since_key <= l + e
        BY <1>2 DEF CountInv
      <3>2. n - 1 \in Int
        BY <1>0
      <3> HIDE DEF n
      <3>3. e \in 0 .. k
        BY <1>0, <3>2, DivLaw
      <3> QED BY <3>1, <3>3
    <2>4. ~idr => m # 0 /\ n # 0 /\ e + 1 = m
      <3> SUFFICES ASSUME ~idr PROVE m # 0 /\ n # 0 /\ e + 1 = m
        OBVIOUS
      <3>1. m # 0
        BY <1>2
      <3>2. n # 0
        BY <2>2, <3>1
      <3>3. n \in Nat \ {0}
        BY <1>0, <3>2
      <3> HIDE DEF n
      <3>4. e + 1 = m
        BY <1>0, <3>1, <3>3, RestGrows
      <3> QED BY <3>1, <3>2, <3>4
    <2>5. CASE idr /\ sent
      <3>1. since_key' = 0
        BY <2>5
      <3> HIDE DEF l2, m
      <3> QED BY <1>0, <2>1, <3>1 DEF l2
    <2>6. CASE idr /\ ~sent
      <3>1. since_key' = since_key /\ lost_keys' = lost_keys + 1
        BY <2>6
      <3>2. l2 = l + k
        <4>1. lost_keys' = 1 + lost_keys
          BY <1>0, <3>1
        <4> QED BY <2>1, <4>1
      <3>3. since_key <= l + k
        <4> HIDE DEF l, e, n, k
        <4> QED BY <1>0, <2>1, <2>2, <2>3
      <3> HIDE DEF l, l2, m, n, k
      <3>4. since_key' <= l2 + m
        BY <1>0, <2>1, <3>1, <3>2, <3>3
      <3> QED BY <3>4 DEF l2
    <2>7. CASE ~idr
      <3>1. lost_keys' = lost_keys /\ (since_key' = since_key \/ since_key' = since_key + 1)
        BY <2>7
      <3>2. l2 = l
        BY <3>1
      <3> HIDE DEF l, l2, m, n, k, e
      <3>3. since_key' <= l2 + m
        BY <1>0, <2>1, <2>3, <2>4, <2>7, <3>1, <3>2
      <3> QED BY <3>3 DEF l2
    <2> QED BY <2>5, <2>6, <2>7
  <1>3. /\ plane'.video_frames_sent # 0
        /\ (plane'.video_frames_sent - 1) % KeyInterval = m
    <2>1. n + 1 # 0 /\ (n + 1) - 1 = n
      BY <1>0
    <2> QED BY <2>1
  <1> QED BY <1>1, <1>2, <1>3 DEF CountInv

\* A frame was encoded: nothing came of it, or a unit was sent.
LEMMA FrameKeeps ==
    ASSUME MediaInv, NEW ok \in BOOLEAN, NEW sent \in BOOLEAN, PumpFrame(ok, sent)
    PROVE  MediaInv' /\ Honoured
  <1> DEFINE t == AudioTurns
             p == t.plane
             f == SourceFrame(p)
             pulled == [p EXCEPT !.next_pts = IF p.video = "windows_dxgi" THEN @ ELSE @ + FrameTicks]
             force == ForceKey(p)
             enc == Encode(pulled, f, force, ok)
             u == enc.unit
             wire == VideoNalu(u, RtpTs(f.pts, T0, VideoRate))
  <1>1. /\ plane.open /\ Room /\ AudioSent(t)
        /\ desktop' = (IF p.video = "windows_dxgi" THEN [desktop EXCEPT !.dirty = FALSE] ELSE desktop)
        /\ \/ /\ u = Nothing /\ plane' = enc.plane
              /\ UNCHANGED units
           \/ /\ u # Nothing /\ plane' = [enc.plane EXCEPT !.video_frames_sent = @ + 1]
              /\ au' = wire
              /\ since_key' = (CASE ~sent -> since_key [] sent /\ Idr(u) -> 0
                                 [] OTHER -> since_key + 1)
              /\ lost_keys' = (CASE ~Idr(u) -> lost_keys [] Idr(u) /\ sent -> 0
                                 [] OTHER -> lost_keys + 1)
              /\ asked' = (asked /\ ~u.key)
        /\ UNCHANGED <<host, config, connected>>
    BY DEF PumpFrame
  <1>2. /\ plane \in Plane /\ p \in Plane /\ SameVideo(p, plane) /\ AudioInv(p, 0)
        /\ p.index < MaxAudio + AudioPerFrame /\ p.frames_encoded < MaxAudio
        /\ OnTime(t.last)
    <2>1. plane \in Plane /\ AudioPerFrame \in 0 .. AudioPerFrame
      BY <1>1, OpenPlane, MediaFacts DEF MediaInv
    <2> QED BY <1>1, <2>1, TurnsLeave DEF AudioTurns
  <1>3. audio' = t.last /\ UNCHANGED <<host, boot, vkind, akind, connected>>
    BY <1>1 DEF AudioSent, config
  <1>4. IsFrame(f)
    <2>1. host \in Nat /\ desktop.size \in Sizes /\ desktop.colour \in Colours
      BY MediaFacts DEF MediaInv, AroundInv
    <2> HIDE DEF t, p
    <2> QED BY <1>2, <2>1, SourceIsFrame
  <1> HIDE DEF t, p, f
  <1>5. /\ pulled \in Plane /\ SameAudio(pulled, p)
        /\ pulled.frames_encoded = p.frames_encoded
        /\ pulled.keyframe_pending = p.keyframe_pending
        /\ pulled.video_frames_sent = p.video_frames_sent /\ pulled.encoder = p.encoder
    BY <1>2, PulledSet
  <1> HIDE DEF pulled
  <1>6. force \in BOOLEAN
    BY DEF ForceKey
  <1>7. Encoded(enc, pulled, force)
    <2> HIDE DEF force
    <2> QED BY <1>4, <1>5, <1>6, FrameEncoded
  <1>8. /\ plane.video_frames_sent % KeyInterval = 0 => force
        /\ plane.keyframe_pending = pulled.keyframe_pending
        /\ p.video_frames_sent = plane.video_frames_sent /\ p.audio = plane.audio
        /\ p.encoder = plane.encoder
    BY <1>2, <1>5 DEF ForceKey, SameVideo
  <1> HIDE DEF force, enc, wire, u
  <1> DEFINE e == enc.plane
  <1>9. /\ e \in Plane /\ SameAudio(e, p)
        /\ e.frames_encoded <= MaxAudio
        /\ e.video_frames_sent = plane.video_frames_sent /\ e.encoder = plane.encoder
    <2>1. /\ e \in Plane /\ SameAudio(e, pulled)
          /\ e.frames_encoded <= p.frames_encoded + 1
          /\ e.video_frames_sent = plane.video_frames_sent /\ e.encoder = plane.encoder
      BY <1>5, <1>7, <1>8 DEF Encoded
    <2> HIDE DEF e
    <2>2. SameAudio(e, p)
      BY <1>5, <2>1 DEF SameAudio
    <2>3. e.frames_encoded \in Nat /\ p.frames_encoded \in Nat
      BY <1>2, <2>1 DEF Plane
    <2>4. e.frames_encoded <= MaxAudio
      BY <1>2, <2>1, <2>3, MediaFacts
    <2> QED BY <2>1, <2>2, <2>4
  <1>10. \/ u = Nothing /\ (pulled.keyframe_pending => e.keyframe_pending)
         \/ /\ u # Nothing /\ ((force \/ pulled.keyframe_pending) => u.key) /\ SoundUnit(u)
            /\ plane.encoder = "software" => u.mock
    BY <1>5, <1>7, <1>8 DEF Encoded, u
  <1> HIDE DEF e
  <1>11. desktop' \in [size : Sizes, colour : Colours, pad : Pads, dirty : BOOLEAN, locked : BOOLEAN]
    <2>1. desktop \in [size : Sizes, colour : Colours, pad : Pads, dirty : BOOLEAN, locked : BOOLEAN]
      BY DEF MediaInv, AroundInv
    <2>2. desktop' = [desktop EXCEPT !.dirty = FALSE] \/ desktop' = desktop
      BY <1>1
    <2> QED BY <2>1, <2>2
  <1>12. ASSUME NEW q \in Plane, plane' = q, SameAudio(q, e), q.frames_encoded = e.frames_encoded
         PROVE  AroundInv' /\ PlaneInv'
    <2>1. SameAudio(q, p)
      BY <1>9, <1>12 DEF SameAudio
    <2>2. AudioInv(q, 0)
      BY <1>2, <2>1, AudioKept
    <2>3. q.audio = plane.audio /\ q.index = p.index
      BY <1>8, <2>1 DEF SameAudio
    <2>4. AudioInv(plane, Len(device))' /\ device' \in Seq(BOOLEAN) /\ Len(device') <= Backlog
      BY <1>1, <1>3, <1>12, <2>2, <2>3, DeviceDrained
    <2>5. AroundInv'
      BY <1>3, <1>11, <2>4 DEF MediaInv, AroundInv
    <2>6. PlaneInv'
      BY <1>2, <1>9, <1>12, <2>3, <2>4 DEF PlaneInv
    <2> QED BY <2>5, <2>6
  <1>13. CASE u = Nothing
    <2>1. plane' = e /\ UNCHANGED units
      BY <1>1, <1>13 DEF e
    <2>2. AroundInv' /\ PlaneInv'
      <3>1. SameAudio(e, e)
        BY DEF SameAudio
      <3> QED BY <1>9, <1>12, <2>1, <3>1
    <2>3. CountInv'
      BY <1>1, <1>9, <2>1 DEF MediaInv, CountInv, units
    <2>4. AskedInv'
      BY <1>1, <1>8, <1>10, <1>13, <2>1 DEF MediaInv, AskedInv, units
    <2>5. SentInv' /\ Honoured
      BY <1>2, <1>3, <2>1 DEF MediaInv, SentInv, Honoured, units
    <2> QED BY <2>2, <2>3, <2>4, <2>5 DEF MediaInv
  <1>14. CASE u # Nothing
    <2>1. /\ plane' = [e EXCEPT !.video_frames_sent = @ + 1] /\ au' = wire
          /\ since_key' = (CASE ~sent -> since_key [] sent /\ Idr(u) -> 0
                             [] OTHER -> since_key + 1)
          /\ lost_keys' = (CASE ~Idr(u) -> lost_keys [] Idr(u) /\ sent -> 0
                             [] OTHER -> lost_keys + 1)
          /\ asked' = (asked /\ ~u.key)
      BY <1>1, <1>14 DEF e
    <2>2. /\ (force \/ pulled.keyframe_pending => u.key) /\ SoundUnit(u)
          /\ plane.encoder = "software" => u.mock
      BY <1>10, <1>14
    <2> DEFINE q == [e EXCEPT !.video_frames_sent = @ + 1]
    <2>3. /\ q \in Plane /\ SameAudio(q, e) /\ q.frames_encoded = e.frames_encoded
          /\ q.video_frames_sent = e.video_frames_sent + 1 /\ q.encoder = e.encoder
      BY <1>9, SentCounted
    <2>4. plane' = q
      BY <2>1
    <2> HIDE DEF q
    <2>5. AroundInv' /\ PlaneInv'
      BY <1>12, <2>3, <2>4
    <2>6. CountInv'
      <3>1. plane.video_frames_sent \in Nat
        BY <1>2 DEF Plane
      <3>2. plane.encoder = "software" /\ plane.video_frames_sent % KeyInterval = 0 => Idr(u)
        BY <1>8, <2>2 DEF SoundUnit, Survives, Idr
      <3>3. plane'.video_frames_sent = plane.video_frames_sent + 1 /\ plane'.encoder = plane.encoder
        BY <1>9, <2>3, <2>4
      <3>5. PICK b \in BOOLEAN : b <=> Idr(u)
        OBVIOUS
      <3>6. /\ since_key' = (CASE ~sent -> since_key [] sent /\ b -> 0 [] OTHER -> since_key + 1)
            /\ lost_keys' = (CASE ~b -> lost_keys [] b /\ sent -> 0 [] OTHER -> lost_keys + 1)
        BY <2>1, <3>5
      <3>7. CountInv
        BY DEF MediaInv
      <3>8. plane.encoder = "software" /\ plane.video_frames_sent % KeyInterval = 0 => b
        BY <3>2, <3>5
      <3>9. plane'.video_frames_sent = plane.video_frames_sent + 1
        BY <3>3
      <3>10. plane'.encoder = plane.encoder
        BY <3>3
      <3> QED BY <1>1, <3>1, <3>6, <3>7, <3>8, <3>9, <3>10, CountKeeps
    <2>7. asked => u.key
      BY <1>1, <1>8, <2>2 DEF MediaInv, AskedInv
    <2>8. AskedInv'
      <3>1. asked' = FALSE
        BY <2>1, <2>7 DEF MediaInv, AskedInv
      <3> QED BY <3>1 DEF AskedInv
    <2>9. au' # Nothing /\ SoundUnit(au') /\ au'.key = u.key
      BY <2>1, <2>2, SentSound DEF wire
    <2>10. SentInv'
      BY <1>2, <1>3, <2>9 DEF SentInv, OnTime, SoundUnit, Survives, Fits, Covered
    <2>11. Honoured
      BY <2>7, <2>9 DEF Honoured, SoundUnit, Survives, Idr
    <2> QED BY <2>5, <2>6, <2>8, <2>10, <2>11 DEF MediaInv
  <1> QED BY <1>13, <1>14

\* Every step keeps the invariant, and sends a keyframe when one is owed.
LEMMA MediaStep ==
    ASSUME MediaInv, [MediaNext]_mvars
    PROVE  MediaInv' /\ Honoured
  <1>0. AudioPerFrame \in 0 .. AudioPerFrame /\ 1 .. AudioPerFrame \subseteq 0 .. AudioPerFrame
    BY MediaFacts
  <1>1. CASE StartMedia
    BY <1>1, StartKeeps
  <1>2. CASE StopMedia
    BY <1>2, StopKeeps
  <1>3. CASE PumpAccessLost
    BY <1>0, <1>3, PumpWithoutFrame DEF PumpAccessLost, AudioTurns
  <1>4. CASE PumpIdle
    BY <1>0, <1>4, PumpWithoutFrame DEF PumpIdle, AudioTurns
  <1>11. CASE PumpAudioFails
    BY <1>0, <1>11, PumpWithoutFrame DEF PumpAudioFails
  <1>5. CASE \E ok, sent \in BOOLEAN : PumpFrame(ok, sent)
    BY <1>5, FrameKeeps
  <1>6. CASE RequestKeyframe
    BY <1>6, RequestKeeps
  <1>7. CASE Connection
    BY <1>7, ConnectionKeeps
  <1>8. CASE HostTick
    BY <1>8, TickKeeps
  <1>9. CASE DesktopChange
    BY <1>9, DesktopKeeps
  <1>10. CASE UNCHANGED mvars
    BY <1>10, StutterKeeps
  <1> QED BY <1>1, <1>2, <1>3, <1>4, <1>5, <1>6, <1>7, <1>8, <1>9, <1>10, <1>11 DEF MediaNext

\* The invariant of the media plane.
LEMMA MediaInvariant == MediaSpec => []MediaInv
  <1>1. MediaInit => MediaInv
    BY MediaInvInit
  <1>2. MediaInv /\ [MediaNext]_mvars => MediaInv'
    BY MediaStep
  <1> QED BY <1>1, <1>2, PTL DEF MediaSpec

\* What pump_media sends is sound, for frames, previews and limits of every size:
\* the viewer's decoder rebuilds the frame captured, the preview covers it once,
\* the software encoder makes a keyframe within KeyInterval units, and at most
\* that many more pass for each that could not be sent, every audio packet has
\* the stamp predicted for it, a long silence is reported once and no sound is stamped
\* later than it was captured.
THEOREM PlaneCorrect == MediaSpec => []PlaneSound
  <1>1. MediaInv => PlaneSound
    BY MediaInvSound
  <1> QED BY <1>1, MediaInvariant, PTL

\* The unit encoded after request_video_keyframe is marked a keyframe, and is one
\* where the software made it, whatever failed in between.
THEOREM KeyframesHonoured == MediaSpec => KeyframeHonoured
  <1>1. MediaInv /\ [MediaNext]_mvars => [Honoured]_mvars
    BY MediaStep
  <1> QED BY <1>1, MediaInvariant, PTL DEF MediaSpec, KeyframeHonoured, Honoured

\* What a step of the media may do, on both sides.
THEOREM MediaOrderCorrect == PlayoutSpec /\ MediaSpec => MediaInOrder
  BY PlayoutInOrderCorrect, GainFallsCorrect, KeyframesHonoured, PTL DEF MediaInOrder

\* The two sides of the media, one of which moves at a time, behave as each
\* does alone; so what is shown of each holds of both together.
THEOREM MediaRunCovered == MCSpec => PlayoutSpec /\ MediaSpec
  <1>1. MCInit => PlayoutInit /\ MediaInit
    BY DEF MCInit
  <1>2. [MCNext]_<<pvars, mvars>> => [PlayoutNext]_pvars /\ [MediaNext]_mvars
    BY DEF MCNext
  <1> QED BY <1>1, <1>2, PTL DEF MCSpec, PlayoutSpec, MediaSpec
=============================================================================
