--------------------------- MODULE HostAgentProofs ---------------------------
(***************************************************************************)
(* Proofs about the parts of the host's agent that MCAgentControl composes *)
(* (each has variables of its own, so what is proved of one part holds of  *)
(* its steps in the composition):                                          *)
(*                                                                         *)
(*   IdentityProof and HostPolicy, for any session ids, nonces,            *)
(*   certificates, codes and number of answers.  The bytes a MAC is put to *)
(*   determine the fields they were made of, because every field is        *)
(*   preceded by its length (EncodeInjective); so what the host verifies   *)
(*   is what the viewer answered.                                          *)
(*                                                                         *)
(*   AgentControl, for any session ids, with or without a boot secret, and *)
(*   for any bounds on attachments, challenges, transports and queued      *)
(*   data: the bounds only cut behaviours short.                           *)
(***************************************************************************)
EXTENDS AgentControl, HostPolicy, SequenceTheorems, FiniteSetTheorems, TLAPS

\* The bytes and lengths of a message, and what it starts with.
Text == Seq(Nat)
Domains == {ModeBDomain, DcBindDomain}

-----------------------------------------------------------------------------
\* The encoding.

\* Two sequences put together are told apart once the first one's length is
\* known.
LEMMA ConcatSplit ==
    ASSUME NEW s \in Text, NEW t \in Text, NEW u \in Text, NEW v \in Text,
           Len(s) = Len(t), s \o u = t \o v
    PROVE  s = t /\ u = v
  <1>1. Len(s) \in Nat /\ Len(u) \in Nat /\ Len(v) \in Nat
    BY DEF Text
  <1>2. /\ Len(s \o u) = Len(s) + Len(u)
        /\ \A i \in 1 .. Len(s) + Len(u) :
              (s \o u)[i] = IF i <= Len(s) THEN s[i] ELSE u[i - Len(s)]
    BY ConcatProperties DEF Text
  <1>3. /\ Len(t \o v) = Len(s) + Len(v)
        /\ \A i \in 1 .. Len(s) + Len(v) :
              (t \o v)[i] = IF i <= Len(s) THEN t[i] ELSE v[i - Len(s)]
    BY ConcatProperties DEF Text
  <1>4. Len(u) = Len(v)
    BY <1>1, <1>2, <1>3
  <1>5. \A i \in 1 .. Len(s) : s[i] = t[i]
    <2> TAKE i \in 1 .. Len(s)
    <2>1. i \in 1 .. Len(s) + Len(u) /\ i <= Len(s)
      BY <1>1
    <2> QED
      BY <1>2, <1>3, <1>4, <2>1
  <1>6. \A j \in 1 .. Len(u) : u[j] = v[j]
    <2> TAKE j \in 1 .. Len(u)
    <2>1. /\ Len(s) + j \in 1 .. Len(s) + Len(u) /\ ~(Len(s) + j <= Len(s))
          /\ Len(s) + j - Len(s) = j
      BY <1>1
    <2> QED
      BY <1>2, <1>3, <1>4, <2>1
  <1> QED
    BY <1>4, <1>5, <1>6, SeqEqual DEF Text

\* Concatenation and a text of one number, as names the provers leave alone.
Cat(x, y) == x \o y
One(n) == <<n>>

\* Concatenation makes a text of texts.
LEMMA CatText == \A x, y \in Text : Cat(x, y) \in Text
  BY ConcatProperties DEF Text, Cat

\* Concatenation is associative.
LEMMA CatAssoc == \A x, y, z \in Text : Cat(Cat(x, y), z) = Cat(x, Cat(y, z))
  BY ConcatAssociative DEF Text, Cat

\* What starts with a part of known length is told apart.
LEMMA CatSplit ==
    \A x, y, u, v \in Text : Len(x) = Len(y) /\ Cat(x, u) = Cat(y, v) => x = y /\ u = v
  <1> SUFFICES ASSUME NEW x \in Text, NEW y \in Text, NEW u \in Text, NEW v \in Text,
                      Len(x) = Len(y), Cat(x, u) = Cat(y, v)
               PROVE  x = y /\ u = v
    OBVIOUS
  <1>1. x \o u = y \o v
    BY DEF Cat
  <1> QED
    BY <1>1, ConcatSplit

\* A number makes a text of length one.
LEMMA OneText == \A n \in Nat : One(n) \in Text /\ Len(One(n)) = 1
  BY DEF Text, One

\* Such texts are told apart by their number.
LEMMA OneInjective == \A n, k \in Nat : One(n) = One(k) => n = k
  <1> TAKE n, k \in Nat
  <1>1. One(n)[1] = n /\ One(k)[1] = k
    BY DEF One
  <1> QED
    BY <1>1

\* A field with its length in front is a text, and can be taken off one.
LEMMA LpFacts ==
    /\ \A s \in Text : Lp(s) \in Text
    /\ \A s, t, u, v \in Text : Cat(Lp(s), u) = Cat(Lp(t), v) => s = t /\ u = v
  <1>1. \A s \in Text : Len(s) \in Nat /\ Lp(s) = Cat(One(Len(s)), s)
    BY DEF Text, Lp, Cat, One
  <1>2. \A s \in Text : Lp(s) \in Text
    <2> TAKE s \in Text
    <2>1. One(Len(s)) \in Text
      BY <1>1, OneText
    <2> QED
      BY <1>1, <2>1, CatText
  <1>3. \A s, t, u, v \in Text : Cat(Lp(s), u) = Cat(Lp(t), v) => s = t /\ u = v
    <2> SUFFICES ASSUME NEW s \in Text, NEW t \in Text, NEW u \in Text, NEW v \in Text,
                        Cat(Lp(s), u) = Cat(Lp(t), v)
                 PROVE  s = t /\ u = v
      OBVIOUS
    <2>1. /\ One(Len(s)) \in Text /\ One(Len(t)) \in Text
          /\ Len(One(Len(s))) = Len(One(Len(t)))
          /\ Cat(s, u) \in Text /\ Cat(t, v) \in Text
      BY <1>1, OneText, CatText
    <2>2. /\ Cat(Lp(s), u) = Cat(One(Len(s)), Cat(s, u))
          /\ Cat(Lp(t), v) = Cat(One(Len(t)), Cat(t, v))
      BY <1>1, <2>1, CatAssoc
    <2>3. One(Len(s)) = One(Len(t)) /\ Cat(s, u) = Cat(t, v)
      <3>1. Cat(One(Len(s)), Cat(s, u)) = Cat(One(Len(t)), Cat(t, v))
        BY <2>2
      <3> QED
        BY <2>1, <3>1, CatSplit
    <2>4. Len(s) = Len(t)
      BY <1>1, <2>3, OneInjective
    <2> QED
      BY <2>3, <2>4, CatSplit
  <1> QED
    BY <1>2, <1>3

\* What comes first is the domain, then field by field, each with its length.
LEMMA EncodeNested ==
    ASSUME NEW d \in Nat, NEW a \in Text, NEW b \in Text, NEW c \in Text, NEW e \in Text
    PROVE  /\ Encode(d, a, b, c, e)
                = Cat(One(d), Cat(Lp(a), Cat(Lp(b), Cat(Lp(c), Cat(Lp(e), <<>>)))))
           /\ <<>> \in Text /\ Cat(Lp(e), <<>>) \in Text
           /\ Cat(Lp(c), Cat(Lp(e), <<>>)) \in Text
           /\ Cat(Lp(b), Cat(Lp(c), Cat(Lp(e), <<>>))) \in Text
           /\ Cat(Lp(a), Cat(Lp(b), Cat(Lp(c), Cat(Lp(e), <<>>)))) \in Text
  <1>1. Encode(d, a, b, c, e) = Cat(Cat(Cat(Cat(One(d), Lp(a)), Lp(b)), Lp(c)), Lp(e))
    BY DEF Encode, Cat, One
  <1>2. Lp(a) \in Text /\ Lp(b) \in Text /\ Lp(c) \in Text /\ Lp(e) \in Text /\ One(d) \in Text
    BY LpFacts, OneText
  <1>3. <<>> \in Text /\ Cat(Lp(e), <<>>) = Lp(e)
    BY <1>2, EmptySeq, ConcatEmptySeq DEF Text, Cat
  <1>4. /\ Cat(Lp(c), Lp(e)) \in Text /\ Cat(Lp(b), Cat(Lp(c), Lp(e))) \in Text
        /\ Cat(Lp(a), Cat(Lp(b), Cat(Lp(c), Lp(e)))) \in Text
        /\ Cat(One(d), Lp(a)) \in Text /\ Cat(Cat(One(d), Lp(a)), Lp(b)) \in Text
    BY <1>2, CatText
  <1>5. Encode(d, a, b, c, e) = Cat(Cat(Cat(One(d), Lp(a)), Lp(b)), Cat(Lp(c), Lp(e)))
    BY <1>1, <1>2, <1>4, CatAssoc
  <1>6. Encode(d, a, b, c, e) = Cat(Cat(One(d), Lp(a)), Cat(Lp(b), Cat(Lp(c), Lp(e))))
    BY <1>2, <1>4, <1>5, CatAssoc
  <1>7. Encode(d, a, b, c, e) = Cat(One(d), Cat(Lp(a), Cat(Lp(b), Cat(Lp(c), Lp(e)))))
    BY <1>2, <1>4, <1>6, CatAssoc
  <1> QED
    BY <1>2, <1>3, <1>4, <1>7

\* A domain is a number.
LEMMA DomainsAreNat == \A d \in Domains : d \in Nat
  BY DEF Domains, ModeBDomain, DcBindDomain

\* The fields of a message.
Fields == [d : Domains, sid : Text, nonce : Text, host : Text, viewer : Text]
EncodeFields(f) == Encode(f.d, f.sid, f.nonce, f.host, f.viewer)

\* The bytes determine the fields (identity.rs encode_dc_bind_message,
\* challenge.rs ChallengeTranscript::encode).
LEMMA EncodeInjective == \A f, g \in Fields : EncodeFields(f) = EncodeFields(g) => f = g
  <1> SUFFICES ASSUME NEW f \in Fields, NEW g \in Fields, EncodeFields(f) = EncodeFields(g)
               PROVE  f = g
    OBVIOUS
  <1> DEFINE d == f.d       d2 == g.d
             a == f.sid     a2 == g.sid
             b == f.nonce   b2 == g.nonce
             c == f.host    c2 == g.host
             e == f.viewer  e2 == g.viewer
  <1>0. /\ d \in Domains /\ a \in Text /\ b \in Text /\ c \in Text /\ e \in Text
        /\ d2 \in Domains /\ a2 \in Text /\ b2 \in Text /\ c2 \in Text /\ e2 \in Text
        /\ f = [d |-> d, sid |-> a, nonce |-> b, host |-> c, viewer |-> e]
        /\ g = [d |-> d2, sid |-> a2, nonce |-> b2, host |-> c2, viewer |-> e2]
        /\ Encode(d, a, b, c, e) = Encode(d2, a2, b2, c2, e2)
    BY DEF Fields, EncodeFields
  <1> HIDE DEF d, a, b, c, e, d2, a2, b2, c2, e2
  <1> DEFINE x4 == Cat(Lp(e), <<>>)   y4 == Cat(Lp(e2), <<>>)
             x3 == Cat(Lp(c), x4)     y3 == Cat(Lp(c2), y4)
             x2 == Cat(Lp(b), x3)     y2 == Cat(Lp(b2), y3)
             x1 == Cat(Lp(a), x2)     y1 == Cat(Lp(a2), y2)
  <1> USE DomainsAreNat
  <1>1. /\ Encode(d, a, b, c, e) = Cat(One(d), x1)
        /\ <<>> \in Text /\ x1 \in Text /\ x2 \in Text /\ x3 \in Text /\ x4 \in Text
    BY <1>0, EncodeNested
  <1>2. /\ Encode(d2, a2, b2, c2, e2) = Cat(One(d2), y1)
        /\ y1 \in Text /\ y2 \in Text /\ y3 \in Text /\ y4 \in Text
    BY <1>0, EncodeNested
  <1> HIDE DEF x1, y1, x2, y2, x3, y3, x4, y4
  <1>3. d = d2 /\ x1 = y1
    <2>1. One(d) \in Text /\ One(d2) \in Text /\ Len(One(d)) = Len(One(d2))
      BY <1>0, OneText
    <2>2. One(d) = One(d2) /\ x1 = y1
      BY <1>0, <1>1, <1>2, <2>1, CatSplit
    <2> QED
      BY <1>0, <2>2, OneInjective
  <1>4. a = a2 /\ x2 = y2
    BY <1>0, <1>1, <1>2, <1>3, LpFacts DEF x1, y1
  <1>5. b = b2 /\ x3 = y3
    BY <1>0, <1>1, <1>2, <1>4, LpFacts DEF x2, y2
  <1>6. c = c2 /\ x4 = y4
    BY <1>0, <1>1, <1>2, <1>5, LpFacts DEF x3, y3
  <1>7. e = e2
    BY <1>0, <1>1, <1>2, <1>6, LpFacts DEF x4, y4
  <1> QED
    BY <1>0, <1>3, <1>4, <1>5, <1>6, <1>7

-----------------------------------------------------------------------------
\* Hexadecimal text.

\* A sequence given by its elements.
LEMMA SeqOfFunction ==
    ASSUME NEW S, NEW n \in Nat, NEW f \in [1 .. n -> S]
    PROVE  f \in Seq(S) /\ Len(f) = n
  <1>1. f \in Seq(S)
    BY SeqDef
  <1>2. DOMAIN f = 1 .. Len(f) /\ Len(f) \in Nat
    BY <1>1, LenProperties
  <1>3. 1 .. Len(f) = 1 .. n
    BY <1>2
  <1>4. ~(Len(f) < n)
    <2>1. Len(f) < n => n \in 1 .. n /\ n \notin 1 .. Len(f)
      BY <1>2
    <2> QED
      BY <1>3, <2>1
  <1>5. ~(n < Len(f))
    <2>1. n < Len(f) => Len(f) \in 1 .. Len(f) /\ Len(f) \notin 1 .. n
      BY <1>2
    <2> QED
      BY <1>3, <2>1
  <1> QED
    BY <1>1, <1>2, <1>4, <1>5

\* A byte is its two hexadecimal digits.
LEMMA Nibbles ==
    \A x \in 0 .. 255 : /\ x \div 16 \in 0 .. 15 /\ x % 16 \in 0 .. 15
                        /\ x = 16 * (x \div 16) + (x % 16)
  OBVIOUS

\* What is written in hexadecimal is read back (auth hex helpers).
LEMMA HexRoundTrip ==
    ASSUME NEW b \in Seq(0 .. 255), b # <<>>
    PROVE  ParsesAsChallenge(BytesToHex(b)) /\ HexToBytes(BytesToHex(b)) = b
  <1> DEFINE n == Len(b)
             hex == BytesToHex(b)
             digit(i) == IF i % 2 = 1 THEN b[(i + 1) \div 2] \div 16 ELSE b[i \div 2] % 16
             back == HexToBytes(hex)
  <1>1. n \in Nat /\ n > 0 /\ \A k \in 1 .. n : b[k] \in 0 .. 255
    <2>1. n \in Nat /\ n # 0
      BY EmptySeq
    <2> QED
      BY <2>1, ElementOfSeq
  <1>2. \A k \in 1 .. n : /\ 2 * k - 1 \in 1 .. 2 * n /\ 2 * k \in 1 .. 2 * n
                          /\ (2 * k - 1) % 2 = 1 /\ (2 * k) % 2 # 1
                          /\ (2 * k - 1 + 1) \div 2 = k /\ (2 * k) \div 2 = k
    BY <1>1
  <1>3. \A i \in 1 .. 2 * n : /\ i % 2 = 1 => (i + 1) \div 2 \in 1 .. n
                              /\ i % 2 # 1 => i \div 2 \in 1 .. n
    BY <1>1
  <1>5. \A i \in 1 .. 2 * n : digit(i) \in 0 .. 15
    BY <1>1, <1>3, Nibbles
  <1>6. hex = [i \in 1 .. 2 * n |-> digit(i)]
    BY DEF BytesToHex
  <1> HIDE DEF n, hex, digit
  <1>7. hex \in [1 .. 2 * n -> 0 .. 15] /\ 2 * n \in Nat
    BY <1>1, <1>5, <1>6
  <1>8. hex \in Seq(0 .. 15) /\ Len(hex) = 2 * n
    BY <1>7, SeqOfFunction
  <1>9. ParsesAsChallenge(hex)
    <2>1. (2 * n) % 2 = 0 /\ 2 * n > 0
      BY <1>1
    <2>2. \A i \in DOMAIN hex : hex[i] < 16
      BY <1>7
    <2> QED
      BY <1>8, <2>1, <2>2 DEF ParsesAsChallenge, HexOk
  <1>10. back = b
    <2>1. Len(hex) \div 2 = n
      BY <1>1, <1>8
    <2>2. back = [k \in 1 .. n |-> 16 * hex[2 * k - 1] + hex[2 * k]]
      BY <2>1 DEF HexToBytes
    <2>3. \A k \in 1 .. n : 16 * hex[2 * k - 1] + hex[2 * k] = b[k]
      <3> TAKE k \in 1 .. n
      <3>1. hex[2 * k - 1] = b[k] \div 16
        BY <1>2, <1>6 DEF digit
      <3>2. hex[2 * k] = b[k] % 16
        BY <1>2, <1>6 DEF digit
      <3> QED
        BY <1>1, Nibbles, <3>1, <3>2
    <2>4. b = [k \in 1 .. n |-> b[k]]
      <3>1. b \in [1 .. n -> 0 .. 255]
        BY LenProperties DEF n
      <3> QED
        BY <3>1
    <2> HIDE DEF back
    <2>5. back = [k \in 1 .. n |-> b[k]]
      BY <2>2, <2>3
    <2> QED
      BY <2>4, <2>5
  <1> QED
    BY <1>9, <1>10 DEF hex

-----------------------------------------------------------------------------
\* The proof over the data channel.

\* Keys a session may be proved under.
Key == {NoKey, HostSecret} \cup {BindKeyOfCode(c) : c \in Codes \cup {Minted}}
Bytes == Seq(0 .. 255)

HostSession == [sid : SessionIds \cup {<<>>}, fp_viewer : Certs \cup {<<>>},
                session_authorized : BOOLEAN, identity_bound : BOOLEAN, key : Key,
                auth : Nonces \cup {<<>>}, dc : Nonces \cup {<<>>}]

ProofTypes ==
    /\ unix \in Nat
    /\ host \in HostSession
    /\ viewer \in [sid : SessionIds, key : {HostSecret, BindKeyOfCode(Minted)}, fp_host : Certs]

\* Every MAC that was ever sent is one the viewer made.
MacsAnswered ==
    \A mac \in macs : \E d \in Domains, key \in Key, sid \in Text, n \in Text, fh \in Text,
                         fv \in Text :
        /\ mac = ComputeMac(key, d, sid, n, fh, fv)
        /\ <<d, key, sid, n, fh, fv>> \in answered

BindingInv == ProofTypes /\ MacsAnswered /\ BindingsAgree

\* What is made of bytes is a text, and so are the domains.
LEMMA TextTypes ==
    /\ Bytes \subseteq Text /\ SessionIds \subseteq Text /\ Nonces \subseteq Text
    /\ Nonces \subseteq Bytes
    /\ Certs \subseteq Text /\ <<>> \in Text /\ HostCert \in Text /\ ViewerCert \in Text
    /\ \A hex \in HexStrings : HexToBytes(hex) \in Text
  <1>1. Bytes \subseteq Text
    <2>1. 0 .. 255 \subseteq Nat
      OBVIOUS
    <2> QED
      BY <2>1, SeqMonotonic DEF Bytes, Text
  <1>2. <<>> \in Text
    BY EmptySeq DEF Text
  <1>4. ASSUME NEW hex \in HexStrings PROVE HexToBytes(hex) \in Text
    <2>1. hex \in Seq(0 .. 16)
      BY ProofAssumption
    <2>2. Len(hex) \in Nat /\ \A i \in 1 .. Len(hex) : hex[i] \in Nat
      BY <2>1, ElementOfSeq
    <2> DEFINE n == Len(hex) \div 2
    <2>3. n \in Nat /\ \A i \in 1 .. n : 2 * i - 1 \in 1 .. Len(hex) /\ 2 * i \in 1 .. Len(hex)
      BY <2>2
    <2>4. HexToBytes(hex) = [i \in 1 .. n |-> 16 * hex[2 * i - 1] + hex[2 * i]]
      BY DEF HexToBytes
    <2> HIDE DEF n
    <2>5. \A i \in 1 .. n : 16 * hex[2 * i - 1] + hex[2 * i] \in Nat
      BY <2>2, <2>3
    <2>6. HexToBytes(hex) \in [1 .. n -> Nat]
      BY <2>4, <2>5
    <2> QED
      BY <2>3, <2>6, SeqOfFunction DEF Text
  <1> QED
    BY <1>1, <1>2, <1>4, ProofAssumption DEF Bytes

\* A MAC that verifies was made by the viewer, of the very same fields.
LEMMA VerifiedIsAnswered ==
    ASSUME MacsAnswered, NEW mac \in macs, NEW key, NEW d \in Domains, NEW sid \in Text,
           NEW n \in Text, NEW fh \in Text, NEW fv \in Text,
           mac = ComputeMac(key, d, sid, n, fh, fv)
    PROVE  <<d, key, sid, n, fh, fv>> \in answered
  <1>1. PICK d2 \in Domains, key2 \in Key, sid2 \in Text, n2 \in Text, fh2 \in Text, fv2 \in Text :
            /\ mac = ComputeMac(key2, d2, sid2, n2, fh2, fv2)
            /\ <<d2, key2, sid2, n2, fh2, fv2>> \in answered
    BY DEF MacsAnswered
  <1>2. key = key2 /\ Encode(d, sid, n, fh, fv) = Encode(d2, sid2, n2, fh2, fv2)
    BY <1>1 DEF ComputeMac
  <1>4. d = d2 /\ sid = sid2 /\ n = n2 /\ fh = fh2 /\ fv = fv2
    <2> DEFINE f == [d |-> d, sid |-> sid, nonce |-> n, host |-> fh, viewer |-> fv]
               g == [d |-> d2, sid |-> sid2, nonce |-> n2, host |-> fh2, viewer |-> fv2]
    <2>1. f \in Fields /\ g \in Fields
      BY <1>1 DEF Fields
    <2>2. EncodeFields(f) = EncodeFields(g)
      BY <1>2 DEF EncodeFields
    <2> HIDE DEF f, g
    <2>3. f = g
      BY <2>1, <2>2, EncodeInjective
    <2> QED
      BY <2>3 DEF f, g
  <1> QED
    BY <1>1, <1>2, <1>4

\* The host's fields that go into a MAC.
LEMMA HostTexts ==
    ASSUME ProofTypes
    PROVE  host.sid \in Text /\ host.auth \in Text /\ host.dc \in Text /\ host.fp_viewer \in Text
  BY TextTypes DEF ProofTypes, HostSession

\* A new session starts with nothing proved.
LEMMA AttachKeeps ==
    ASSUME BindingInv, NEW sid \in SessionIds, NEW cert \in Certs, HostAttach(sid, cert)
    PROVE  BindingInv'
  <1>1. [NoSession EXCEPT !.sid = sid, !.fp_viewer = cert] \in HostSession
    BY DEF NoSession, HostSession, Key
  <1> QED
    BY <1>1 DEF HostAttach, BindingInv, ProofTypes, MacsAnswered, BindingsAgree

\* A session that is let in is proved under the key of the code typed.
LEMMA CodeKeyKeeps ==
    ASSUME BindingInv, NEW code \in Codes,
           host' = [host EXCEPT !.session_authorized = TRUE, !.key = BindKeyOfCode(code)],
           UNCHANGED <<unix, viewer, macs, answered, agreed>>
    PROVE  BindingInv'
  <1>1. [host EXCEPT !.session_authorized = TRUE, !.key = BindKeyOfCode(code)] \in HostSession
    <2>1. BindKeyOfCode(code) \in Key
      BY DEF Key
    <2> QED
      BY <2>1 DEF BindingInv, ProofTypes, HostSession
  <1> QED
    BY <1>1 DEF BindingInv, ProofTypes, MacsAnswered, BindingsAgree

\* What the viewer puts its MAC to is on record.
LEMMA AnswerKeeps ==
    ASSUME BindingInv, NEW d \in Domains, NEW hex, HexToBytes(hex) \in Text,
           NEW fh \in Text, NEW fv \in Text, Answer(d, hex, fh, fv)
    PROVE  BindingInv'
  <1> DEFINE n == HexToBytes(hex)
             mac == ComputeMac(viewer.key, d, viewer.sid, n, fh, fv)
  <1>1. n \in Text /\ viewer.sid \in Text /\ viewer.key \in Key
    BY TextTypes DEF BindingInv, ProofTypes, Key
  <1>2. /\ macs' = macs \cup {mac}
        /\ answered' = answered \cup {<<d, viewer.key, viewer.sid, n, fh, fv>>}
        /\ UNCHANGED <<unix, host, viewer, agreed>>
    BY DEF Answer
  <1> HIDE DEF n
  <1>3. MacsAnswered'
    <2> SUFFICES ASSUME NEW mac2 \in macs'
                 PROVE  \E d2 \in Domains, key \in Key, sid \in Text, n2 \in Text,
                           fh2 \in Text, fv2 \in Text :
                            /\ mac2 = ComputeMac(key, d2, sid, n2, fh2, fv2)
                            /\ <<d2, key, sid, n2, fh2, fv2>> \in answered'
      BY DEF MacsAnswered
    <2>1. CASE mac2 \in macs
      BY <1>2, <2>1 DEF BindingInv, MacsAnswered
    <2>2. CASE mac2 = mac
      BY <1>1, <1>2, <2>2
    <2> QED
      BY <1>2, <2>1, <2>2
  <1> QED
    BY <1>2, <1>3 DEF BindingInv, ProofTypes, BindingsAgree

\* Every step of the proof keeps its invariant.
LEMMA BindingStep ==
    ASSUME BindingInv, ProofNext PROVE BindingInv'
  <1> USE DEF BindingInv
  <1>1. host \in HostSession /\ unix \in Nat
    BY DEF ProofTypes
  <1>2. ASSUME NEW sid \in SessionIds, NEW cert \in Certs, HostAttach(sid, cert)
        PROVE  BindingInv'
    BY <1>2, AttachKeeps
  <1>3. ASSUME NEW code \in Codes, NEW p, AuthorizeModeA(code, p) PROVE BindingInv'
    BY <1>3, CodeKeyKeeps DEF AuthorizeModeA
  <1>4. ASSUME NEW n \in Nonces, IssueAuth(n) \/ IssueDc(n) PROVE BindingInv'
    <2>1. /\ [host EXCEPT !.auth = n] \in HostSession
          /\ [host EXCEPT !.dc = n] \in HostSession
      BY <1>1 DEF HostSession
    <2> QED
      BY <1>4, <2>1 DEF IssueAuth, IssueDc, ProofTypes, MacsAnswered, BindingsAgree
  <1>5. ASSUME NEW mac \in macs, CompleteDcBind(mac) PROVE BindingInv'
    <2>1. [host EXCEPT !.identity_bound = TRUE, !.dc = <<>>] \in HostSession
      BY <1>1 DEF HostSession
    <2>2. <<DcBindDomain, host.key, host.sid, host.dc, HostCert, host.fp_viewer>> \in answered
      <3>1. mac = ComputeMac(host.key, DcBindDomain, host.sid, host.dc, HostCert, host.fp_viewer)
        BY <1>5 DEF CompleteDcBind, VerifiesDc
      <3>2. DcBindDomain \in Domains
        BY DEF Domains
      <3> QED
        BY <3>1, <3>2, HostTexts, TextTypes, VerifiedIsAnswered
    <2> QED
      BY <1>5, <2>1, <2>2 DEF CompleteDcBind, ProofTypes, MacsAnswered, BindingsAgree
  <1>6. ASSUME NEW mac \in macs, RefuseDcBind(mac) PROVE BindingInv'
    <2>1. [host EXCEPT !.dc = <<>>] \in HostSession
      BY <1>1 DEF HostSession
    <2> QED
      BY <1>6, <2>1 DEF RefuseDcBind, ProofTypes, MacsAnswered, BindingsAgree
  <1>7. ASSUME NEW mac \in macs, NEW fps \in FpsOf(HostCert, host.fp_viewer),
               AuthorizeModeB(mac, fps[1], fps[2])
        PROVE  BindingInv'
    <2>1. [host EXCEPT !.session_authorized = TRUE, !.key = HostSecret] \in HostSession
      BY <1>1 DEF HostSession, Key
    <2>2. fps[1] \in Text /\ fps[2] \in Text
      BY HostTexts, TextTypes DEF FpsOf
    <2>3. <<ModeBDomain, HostSecret, host.sid, host.auth, fps[1], fps[2]>> \in answered
      <3>1. mac = ComputeMac(HostSecret, ModeBDomain, host.sid, host.auth, fps[1], fps[2])
        BY <1>7 DEF AuthorizeModeB
      <3>2. ModeBDomain \in Domains
        BY DEF Domains
      <3> QED
        BY <2>2, <3>1, <3>2, HostTexts, VerifiedIsAnswered
    <2> QED
      BY <1>7, <2>1, <2>3 DEF AuthorizeModeB, ProofTypes, MacsAnswered, BindingsAgree
  <1>8. CASE AuthorizeUnattendedSecret
    <2>1. [host EXCEPT !.session_authorized = TRUE, !.key = HostSecret] \in HostSession
      BY <1>1 DEF HostSession, Key
    <2> QED
      BY <1>8, <2>1 DEF AuthorizeUnattendedSecret, ProofTypes, MacsAnswered, BindingsAgree
  <1>9. CASE ProofTick
    <2>1. unix + 1 \in Nat
      BY <1>1
    <2> QED
      BY <1>9, <2>1 DEF ProofTick, ProofTypes, MacsAnswered, BindingsAgree
  <1>10. ASSUME NEW hex \in HexStrings,
                \/ Answer(DcBindDomain, hex, viewer.fp_host, ViewerCert)
                \/ \E fps \in FpsOf(viewer.fp_host, ViewerCert) :
                       Answer(ModeBDomain, hex, fps[1], fps[2])
         PROVE  BindingInv'
    <2>1. viewer.fp_host \in Text /\ ViewerCert \in Text
      BY TextTypes DEF ProofTypes
    <2>2. \A fps \in FpsOf(viewer.fp_host, ViewerCert) : fps[1] \in Text /\ fps[2] \in Text
      BY <2>1, TextTypes DEF FpsOf
    <2>3. DcBindDomain \in Domains /\ ModeBDomain \in Domains
      BY DEF Domains
    <2> QED
      BY AnswerKeeps, TextTypes, <1>10, <2>1, <2>2, <2>3
  <1> QED
    BY <1>2, <1>3, <1>4, <1>5, <1>6, <1>7, <1>8, <1>9, <1>10 DEF ProofNext

-----------------------------------------------------------------------------
\* The policy.

\* A step of the policy is one of its own, one of the proof, or the host's or
\* the viewer's part of a session between them.
PolicyOwn ==
    \/ \E f \in {"unattended_enabled", "confirm_sessions"}, b \in BOOLEAN : SetConfig(f, b)
    \/ \E n \in {MinDigits, MaxDigits} : SetConfig("otp_digits", n)
    \/ SetHostSecret \/ EnableUnattendedWithGeneratedSecret
    \/ \E code \in Codes, ttl \in Ttls : MintOtp(code, ttl)
    \/ \E mode \in {"otp", "password", "unattended"}, code \in Codes \cup {NoCode},
          accepted \in {"yes", "no", "none"} : DecideSessionAccept(mode, code, accepted)

\* The policy's own steps leave the proof alone.
LEMMA PolicyOwnKeeps == ASSUME PolicyOwn PROVE UNCHANGED pvars
  BY DEF PolicyOwn, SetConfig, SetHostSecret, EnableUnattendedWithGeneratedSecret, MintOtp,
         DecideSessionAccept

\* A challenge that was never issued is no challenge.
LEMMA EmptyIsNoChallenge == ~ParsesAsChallenge(BytesToHex(<<>>))
  <1> DEFINE hex == BytesToHex(<<>>)
  <1>1. Len(<<>>) = 0
    OBVIOUS
  <1>2. hex \in [1 .. 0 -> Nat]
    BY <1>1 DEF BytesToHex
  <1> HIDE DEF hex
  <1>3. Len(hex) = 0
    BY <1>2, SeqOfFunction
  <1> QED
    BY <1>3 DEF ParsesAsChallenge, hex

\* Every step of the policy keeps the proof's invariant.
LEMMA PolicyBindingStep ==
    ASSUME BindingInv, PolicyNext PROVE BindingInv'
  <1>1. CASE PolicyOwn
    BY <1>1, PolicyOwnKeeps DEF pvars, BindingInv, ProofTypes, MacsAnswered, BindingsAgree
  <1>2. ASSUME NEW code \in Codes, AuthorizeSessionModeA(code) PROVE BindingInv'
    BY <1>2, CodeKeyKeeps DEF AuthorizeSessionModeA
  <1>3. ASSUME NEW mac \in macs, AuthorizeSessionModeB(mac, <<>>, <<>>) PROVE BindingInv'
    <2>1. \E fps \in FpsOf(HostCert, host.fp_viewer) : AuthorizeModeB(mac, fps[1], fps[2])
      BY <1>3 DEF AuthorizeSessionModeB, FpsOf
    <2> QED
      BY <2>1, BindingStep DEF ProofNext
  <1>4. CASE HostAttach(viewer.sid, ViewerCert)
    BY <1>4, AttachKeeps, ProofAssumption DEF BindingInv, ProofTypes
  <1>5. CASE \E n \in Nonces : IssueAuth(n)
    BY <1>5, BindingStep DEF ProofNext
  <1>6. CASE Answer(ModeBDomain, BytesToHex(host.auth), <<>>, <<>>)
    <2> DEFINE hex == BytesToHex(host.auth)
    <2>1. host.auth \in Nonces \cup {<<>>}
      BY DEF BindingInv, ProofTypes, HostSession
    <2>2. host.auth # <<>>
      BY <1>6, EmptyIsNoChallenge DEF Answer
    <2>3. host.auth \in Text /\ HexToBytes(hex) = host.auth
      BY <2>1, <2>2, TextTypes, HexRoundTrip DEF Bytes
    <2> HIDE DEF hex
    <2>4. Answer(ModeBDomain, hex, <<>>, <<>>)
      BY <1>6 DEF hex
    <2>5. ModeBDomain \in Domains /\ <<>> \in Text
      BY TextTypes DEF Domains
    <2> QED
      BY <2>3, <2>4, <2>5, AnswerKeeps
  <1>7. CASE ProofTick
    BY <1>7, BindingStep DEF ProofNext
  <1> QED
    BY <1>1, <1>2, <1>3, <1>4, <1>5, <1>6, <1>7 DEF PolicyNext, PolicyOwn, PolicyWorld

\* At the start nothing was answered and nothing proved.
LEMMA BindingInit ==
    ASSUME ProofInit PROVE BindingInv
  <1>1. NoSession \in HostSession
    BY DEF NoSession, HostSession, Key
  <1> QED
    BY <1>1 DEF ProofInit, BindingInv, ProofTypes, MacsAnswered, BindingsAgree

\* A viewer that sees what the host sees gives the MAC the host asks for.
LEMMA HonestVerifies ==
    ASSUME ProofTypes PROVE HonestIsBound
  <1> SUFFICES ASSUME host.dc # <<>>, viewer.sid = host.sid, viewer.key = host.key,
                      viewer.fp_host = HostCert, host.fp_viewer = ViewerCert
               PROVE  LET hex == BytesToHex(host.dc) IN
                      /\ ParsesAsChallenge(hex)
                      /\ VerifiesDc(ComputeMac(viewer.key, DcBindDomain, viewer.sid,
                                               HexToBytes(hex), viewer.fp_host, ViewerCert))
    BY DEF HonestIsBound
  <1>1. host.dc \in Seq(0 .. 255)
    BY TextTypes DEF ProofTypes, HostSession, Bytes
  <1>2. /\ ParsesAsChallenge(BytesToHex(host.dc))
        /\ HexToBytes(BytesToHex(host.dc)) = host.dc
    BY <1>1, HexRoundTrip
  <1> QED
    BY <1>2 DEF VerifiesDc

\* The proof over the data channel convinces the host of the right viewer and
\* of no other (identity.rs complete_dc_bind), whatever the policy does
\* meanwhile.
THEOREM BindingCorrect == PolicySpec => []BindingSound
  <1>1. ProofInit /\ PolicyInit => BindingInv
    BY BindingInit
  <1>2. BindingInv /\ [(ProofNext /\ UNCHANGED hvars) \/ PolicyNext]_<<pvars, hvars>>
            => BindingInv'
    <2> SUFFICES ASSUME BindingInv,
                        [(ProofNext /\ UNCHANGED hvars) \/ PolicyNext]_<<pvars, hvars>>
                 PROVE  BindingInv'
      OBVIOUS
    <2>1. CASE ProofNext
      BY <2>1, BindingStep
    <2>2. CASE PolicyNext
      BY <2>2, PolicyBindingStep
    <2>3. CASE UNCHANGED <<pvars, hvars>>
      BY <2>3 DEF pvars, BindingInv, ProofTypes, MacsAnswered, BindingsAgree
    <2> QED
      BY <2>1, <2>2, <2>3
  <1>3. BindingInv => BindingSound
    BY HonestVerifies DEF BindingInv, BindingSound
  <1> QED
    BY <1>1, <1>2, <1>3, PTL DEF PolicySpec

-----------------------------------------------------------------------------
\* The one-time code of the record.

\* A text of another code does not verify under the hash of this one.
LEMMA VerifyReads ==
    ASSUME NEW c, NEW code, NEW pepper, NEW own, NEW salt, NEW expires, NEW now,
           Verify(MintOtpRecord(code, own, salt, expires), c, pepper, now)
    PROVE  c.id = code.id /\ ~(now >= expires)
  BY DEF Verify, MintOtpRecord, NewOtpRecord, IsExpired, VerifyOtp, HashOtp

FreshRecord == MintOtpRecord(Minted, Pepper, 7, CodeTtl)

\* The record is as it was minted, until one session has used it.
RecordInv ==
    /\ unix \in Nat
    /\ \/ record = FreshRecord /\ spent = {}
       \/ /\ record.consumed
          /\ \E x \in spent : spent = {x} /\ x.code.id = Minted.id /\ x.at < CodeTtl

\* Every step of the proof keeps it.
LEMMA RecordStep ==
    ASSUME RecordInv, ProofNext PROVE RecordInv'
  <1>1. ASSUME NEW code, NEW p, AuthorizeModeA(code, p) PROVE RecordInv'
    <2>1. ~record.consumed /\ Verify(record, code, p, unix)
      BY <1>1 DEF AuthorizeModeA, Verify
    <2>2. record = FreshRecord /\ spent = {}
      BY <2>1 DEF RecordInv
    <2>3. code.id = Minted.id /\ ~(unix >= CodeTtl)
      BY <2>1, <2>2, VerifyReads DEF FreshRecord
    <2>4. unix < CodeTtl
      BY <2>3, ProofAssumption DEF RecordInv
    <2> DEFINE x == [sid |-> host.sid, code |-> code, at |-> unix]
    <2>5. spent' = {x} /\ x.code = code /\ x.at = unix
      BY <1>1, <2>2 DEF AuthorizeModeA
    <2>6. record'.consumed
      BY <1>1, <2>2 DEF AuthorizeModeA, FreshRecord, MintOtpRecord, NewOtpRecord
    <2>7. unix' = unix
      BY <1>1 DEF AuthorizeModeA
    <2> HIDE DEF x
    <2> QED
      BY <2>3, <2>4, <2>5, <2>6, <2>7 DEF RecordInv
  <1>2. CASE UNCHANGED <<unix, record, spent>>
    BY <1>2 DEF RecordInv
  <1>3. CASE ProofTick
    <2>1. unix + 1 \in Nat
      BY DEF RecordInv
    <2> QED
      BY <1>3, <2>1 DEF ProofTick, RecordInv
  <1> QED
    BY <1>1, <1>2, <1>3 DEF ProofNext, HostAttach, IssueAuth, IssueDc, CompleteDcBind,
         RefuseDcBind, AuthorizeModeB, AuthorizeUnattendedSecret, Answer

\* The policy never touches the record of the proof.
LEMMA PolicyRecordStep ==
    ASSUME RecordInv, PolicyNext PROVE RecordInv'
  <1>1. CASE UNCHANGED <<unix, record, spent>>
    BY <1>1 DEF RecordInv
  <1>2. CASE ProofTick
    BY <1>2, RecordStep DEF ProofNext
  <1> QED
    BY <1>1, <1>2, PolicyOwnKeeps DEF PolicyNext, PolicyOwn, PolicyWorld, pvars, HostAttach,
         IssueAuth, Answer, AuthorizeSessionModeA, AuthorizeSessionModeB, AuthorizeModeB

\* One session at most, then.
LEMMA RecordOnce ==
    ASSUME RecordInv PROVE RecordAdmitsOnce
  <1>1. CASE spent = {}
    BY <1>1, FS_EmptySet DEF RecordAdmitsOnce
  <1>2. ASSUME NEW x, spent = {x}, x.code.id = Minted.id, x.at < CodeTtl
        PROVE  RecordAdmitsOnce
    <2>1. Cardinality(spent) = 1
      BY <1>2, FS_Singleton
    <2> QED
      BY <1>2, <2>1 DEF RecordAdmitsOnce
  <1> QED
    BY <1>1, <1>2 DEF RecordInv

-----------------------------------------------------------------------------
\* The one-time code on the host's screen.

PolicyType == [unattended_enabled : BOOLEAN, confirm_sessions : BOOLEAN,
               host_secret : BOOLEAN, otp_digits : Nat]
MintRecord == [code : Codes, expires : Nat]
Grant == [mint : Nat, code : Codes \cup {NoCode}, at : Nat]

\* A session was let in by a code that was minted, before it expired.
GrantSound(g) ==
    /\ g.mint \in 1 .. Len(mints)
    /\ g.code.id = mints[g.mint].code.id /\ g.at < mints[g.mint].expires

\* The window is that of the last code minted, which no session has used.
WindowOfLast ==
    window # NoWindow =>
        /\ Len(mints) > 0
        /\ window = MintOtpRecord(mints[Len(mints)].code, Pepper, Len(mints) - 1,
                                  mints[Len(mints)].expires)
        /\ ValidateOtpFormat(mints[Len(mints)].code)
        /\ \A i \in 1 .. Len(granted) : granted[i].mint # Len(mints)

WindowsInv ==
    /\ unix \in Nat /\ policy \in PolicyType
    /\ mints \in Seq(MintRecord) /\ granted \in Seq(Grant)
    /\ \A i \in 1 .. Len(granted) : GrantSound(granted[i])
    /\ \A i, j \in 1 .. Len(granted) : granted[i].mint = granted[j].mint => i = j
    /\ WindowOfLast

\* Time passes, and nothing else of the window changes, or nothing at all.
LEMMA WindowsFrame ==
    ASSUME WindowsInv, UNCHANGED <<window, mints, granted>>, unix' \in Nat,
           policy' \in PolicyType
    PROVE  WindowsInv'
  BY DEF WindowsInv, GrantSound, WindowOfLast

\* A code that opens the window is the last one minted, before it expires.
LEMMA OpensLast ==
    ASSUME WindowsInv, NEW code, Opens(code)
    PROVE  /\ Len(mints) > 0 /\ code.id = mints[Len(mints)].code.id
           /\ unix < mints[Len(mints)].expires
           /\ \A i \in 1 .. Len(granted) : granted[i].mint # Len(mints)
  <1>1. /\ Len(mints) > 0 /\ Len(mints) \in Nat
        /\ Verify(MintOtpRecord(mints[Len(mints)].code, Pepper, Len(mints) - 1,
                                mints[Len(mints)].expires), code, Pepper, unix)
        /\ \A i \in 1 .. Len(granted) : granted[i].mint # Len(mints)
    BY DEF Opens, WindowsInv, WindowOfLast
  <1>2. mints[Len(mints)] \in MintRecord /\ unix \in Nat
    BY <1>1, ElementOfSeq DEF WindowsInv
  <1>3. /\ code.id = mints[Len(mints)].code.id
        /\ ~(unix >= mints[Len(mints)].expires)
    BY <1>1, VerifyReads
  <1> QED
    BY <1>1, <1>2, <1>3 DEF MintRecord

\* Using the code closes the window.
LEMMA ConsumeKeeps ==
    ASSUME WindowsInv, NEW code \in Codes \cup {NoCode}, Opens(code), ConsumeOtp(code),
           UNCHANGED <<unix, mints, policy>>
    PROVE  WindowsInv'
  <1> DEFINE g == [mint |-> Len(mints), code |-> code, at |-> unix]
             n == Len(granted)
  <1>1. g \in Grant /\ n \in Nat /\ Len(mints) \in Nat
    BY DEF Grant, WindowsInv
  <1>2. GrantSound(g)
    BY <1>1, OpensLast DEF GrantSound
  <1>3. granted' = Append(granted, g) /\ window' = NoWindow
    BY DEF ConsumeOtp
  <1>4. g.mint = Len(mints)
    OBVIOUS
  <1> HIDE DEF g
  <1>5. /\ granted' \in Seq(Grant) /\ Len(granted') = n + 1
        /\ \A i \in 1 .. n : granted'[i] = granted[i]
        /\ granted'[n + 1] = g
    BY <1>1, <1>3, AppendProperties DEF WindowsInv
  <1> HIDE DEF n
  <1>6. \A i \in 1 .. n : GrantSound(granted[i]) /\ granted[i].mint # Len(mints)
    BY OpensLast DEF WindowsInv, n
  <1>7. \A i \in 1 .. n + 1 : i \in 1 .. n \/ i = n + 1
    BY <1>1
  <1>8. \A i \in 1 .. n + 1 : GrantSound(granted'[i])
    BY <1>2, <1>5, <1>6, <1>7
  <1>9. \A i, j \in 1 .. n + 1 : granted'[i].mint = granted'[j].mint => i = j
    <2> TAKE i, j \in 1 .. n + 1
    <2>1. CASE i \in 1 .. n /\ j \in 1 .. n
      BY <1>5, <2>1 DEF WindowsInv, n
    <2>2. CASE i \in 1 .. n /\ j = n + 1
      BY <1>4, <1>5, <1>6, <2>2
    <2>3. CASE i = n + 1 /\ j \in 1 .. n
      BY <1>4, <1>5, <1>6, <2>3
    <2> QED
      BY <1>7, <2>1, <2>2, <2>3
  <1>10. \A i \in 1 .. n + 1 : GrantSound(granted[i])'
    BY <1>8 DEF GrantSound
  <1> QED
    BY <1>3, <1>5, <1>9, <1>10 DEF WindowsInv, WindowOfLast

\* A new code takes the place of the last one, and no session has used it.
LEMMA MintKeeps ==
    ASSUME WindowsInv, NEW code \in Codes, NEW ttl \in Ttls, MintOtp(code, ttl)
    PROVE  WindowsInv'
  <1> DEFINE expires == unix + (IF ttl < 1 THEN 1 ELSE ttl)
             r == [code |-> code, expires |-> expires]
             n == Len(mints)
  <1>1. expires \in Nat /\ n \in Nat
    BY PolicyAssumption DEF WindowsInv
  <1>2. /\ mints' = Append(mints, r) /\ UNCHANGED <<unix, policy, granted>>
        /\ window' = MintOtpRecord(code, Pepper, n, expires) /\ ValidateOtpFormat(code)
    BY DEF MintOtp, ActiveOtpWindow, pvars
  <1> HIDE DEF expires
  <1>3. r \in MintRecord /\ r.code = code /\ r.expires = expires
    BY <1>1 DEF MintRecord
  <1> HIDE DEF r
  <1>4. /\ mints' \in Seq(MintRecord) /\ Len(mints') = n + 1
        /\ \A i \in 1 .. n : mints'[i] = mints[i]
        /\ mints'[n + 1] = r
    BY <1>2, <1>3, AppendProperties DEF WindowsInv
  <1> HIDE DEF n
  <1>5. \A i \in 1 .. Len(granted) : granted[i].mint \in 1 .. n
    BY DEF WindowsInv, GrantSound, n
  <1>6. \A i \in 1 .. Len(granted) : GrantSound(granted[i])'
    <2> TAKE i \in 1 .. Len(granted)
    <2>1. mints'[granted[i].mint] = mints[granted[i].mint] /\ granted[i].mint \in 1 .. n + 1
      BY <1>1, <1>4, <1>5
    <2> QED
      BY <1>2, <1>4, <2>1 DEF WindowsInv, GrantSound
  <1>7. WindowOfLast'
    <2>1. n + 1 > 0 /\ n + 1 - 1 = n
      BY <1>1
    <2>2. \A i \in 1 .. Len(granted) : granted[i].mint # n + 1
      BY <1>1, <1>5
    <2>3. Len(mints') - 1 = n /\ Len(mints') > 0 /\ mints'[Len(mints')] = r
      BY <1>1, <1>4, <2>1
    <2> QED
      BY <1>2, <1>3, <1>4, <2>2, <2>3 DEF WindowOfLast
  <1> QED
    BY <1>2, <1>4, <1>6, <1>7 DEF WindowsInv

\* Only a code that opens the window is let in.
LEMMA AllowedOpens ==
    ASSUME NEW mode, NEW code, NEW accepted, mode = "otp",
           Decision(mode, code, accepted) = "allow"
    PROVE  Opens(code)
  BY DEF Decision

\* Every step keeps the invariant of the window.
LEMMA WindowsStep ==
    ASSUME WindowsInv,
           [(ProofNext /\ UNCHANGED hvars) \/ PolicyNext]_<<pvars, hvars>>
    PROVE  WindowsInv'
  <1>0. unix \in Nat /\ unix + 1 \in Nat /\ policy \in PolicyType
    BY DEF WindowsInv
  <1>1. ASSUME UNCHANGED hvars, unix' \in {unix, unix + 1} PROVE WindowsInv'
    BY <1>0, <1>1, WindowsFrame DEF hvars
  <1>2. ProofNext => unix' \in {unix, unix + 1}
    BY DEF ProofNext, ProofTick, HostAttach, AuthorizeModeA, IssueAuth, IssueDc, CompleteDcBind,
           RefuseDcBind, AuthorizeModeB, AuthorizeUnattendedSecret, Answer
  <1>3. ASSUME NEW f \in {"unattended_enabled", "confirm_sessions"}, NEW b \in BOOLEAN,
               SetConfig(f, b)
        PROVE  WindowsInv'
    <2>1. policy' \in PolicyType
      BY <1>0, <1>3 DEF SetConfig, PolicyType
    <2> QED
      BY <1>0, <1>3, <2>1, WindowsFrame DEF SetConfig, pvars
  <1>4. ASSUME NEW n \in Nat, SetConfig("otp_digits", n) PROVE WindowsInv'
    <2>1. policy' \in PolicyType
      BY <1>0, <1>4 DEF SetConfig, PolicyType
    <2> QED
      BY <1>0, <1>4, <2>1, WindowsFrame DEF SetConfig, pvars
  <1>5. CASE SetHostSecret \/ EnableUnattendedWithGeneratedSecret
    <2>1. policy' \in PolicyType
      BY <1>0, <1>5 DEF SetHostSecret, EnableUnattendedWithGeneratedSecret, PolicyType
    <2> QED
      BY <1>0, <1>5, <2>1, WindowsFrame
      DEF SetHostSecret, EnableUnattendedWithGeneratedSecret, pvars
  <1>6. ASSUME NEW code \in Codes, NEW ttl \in Ttls, MintOtp(code, ttl) PROVE WindowsInv'
    BY <1>6, MintKeeps
  <1>7. ASSUME NEW mode, NEW code \in Codes \cup {NoCode}, NEW accepted,
               DecideSessionAccept(mode, code, accepted)
        PROVE  WindowsInv'
    <2>1. Opens(code)
      BY <1>7, AllowedOpens DEF DecideSessionAccept
    <2> QED
      BY <1>7, <2>1, ConsumeKeeps DEF DecideSessionAccept, pvars
  <1>8. ASSUME NEW code \in Codes, AuthorizeSessionModeA(code) PROVE WindowsInv'
    BY <1>8, ConsumeKeeps DEF AuthorizeSessionModeA
  <1>9. ASSUME NEW mac, AuthorizeSessionModeB(mac, <<>>, <<>>) PROVE WindowsInv'
    BY <1>1, <1>9 DEF AuthorizeSessionModeB, AuthorizeModeB
  <1>10. CASE PolicyWorld /\ UNCHANGED hvars
    BY <1>1, <1>10 DEF PolicyWorld, HostAttach, IssueAuth, Answer, ProofTick
  <1>11. CASE PolicyNext
    <2>1. MinDigits \in Nat /\ MaxDigits \in Nat
      BY DEF MinDigits, MaxDigits
    <2> QED
      BY <1>3, <1>4, <1>5, <1>6, <1>7, <1>8, <1>9, <1>10, <1>11, <2>1 DEF PolicyNext
  <1>12. CASE UNCHANGED <<pvars, hvars>>
    BY <1>1, <1>12 DEF pvars
  <1> QED
    BY <1>1, <1>2, <1>11, <1>12

\* Each code lets in one session at most, and a code that is asked for is
\* there to type.
LEMMA WindowsOnce ==
    ASSUME WindowsInv PROVE WindowsAdmitOnce
  <1>1. DOMAIN granted = 1 .. Len(granted)
    BY DEF WindowsInv
  <1>2. ASSUME Decision("otp", NoCode, "yes") = "need_otp_code"
        PROVE  Opens(mints[Len(mints)].code)
    <2>1. window # NoWindow /\ ~IsExpired(window, unix)
      BY <1>2 DEF Decision, DecideConfirm, WindowsInv, PolicyType
    <2>2. /\ window = MintOtpRecord(mints[Len(mints)].code, Pepper, Len(mints) - 1,
                                    mints[Len(mints)].expires)
          /\ ValidateOtpFormat(mints[Len(mints)].code)
      BY <2>1 DEF WindowsInv, WindowOfLast
    <2>3. VerifyOtp(mints[Len(mints)].code, Pepper, window.hash) /\ ~window.consumed
      BY <2>2, ProofAssumption DEF VerifyOtp, MintOtpRecord, NewOtpRecord, HashOtp
    <2> QED
      BY <2>1, <2>3 DEF Opens, Verify
  <1> QED
    BY <1>1, <1>2 DEF WindowsInv, GrantSound, WindowsAdmitOnce

\* A one-time code authorises one session, before it expires, and no other
\* text does (otp.rs verify_and_consume), also through the window the host
\* keeps for it (policy.rs consume_otp).
THEOREM CodesAdmitOnceCorrect == PolicySpec => []CodeAdmitsOnce
  <1>1. ProofInit /\ PolicyInit => RecordInv /\ WindowsInv
    <2> SUFFICES ASSUME ProofInit, PolicyInit PROVE RecordInv /\ WindowsInv
      OBVIOUS
    <2>1. RecordInv
      BY DEF ProofInit, RecordInv, FreshRecord
    <2>2. /\ mints = <<>> /\ granted = <<>> /\ window = NoWindow
          /\ policy \in PolicyType /\ unix \in Nat
      BY DEF ProofInit, PolicyInit, DefaultPolicy, PolicyType, MinDigits
    <2>3. mints \in Seq(MintRecord) /\ granted \in Seq(Grant) /\ 1 .. Len(granted) = {}
      BY <2>2, EmptySeq
    <2> QED
      BY <2>1, <2>2, <2>3 DEF WindowsInv, WindowOfLast
  <1>2. (/\ RecordInv /\ WindowsInv
         /\ [(ProofNext /\ UNCHANGED hvars) \/ PolicyNext]_<<pvars, hvars>>)
            => RecordInv' /\ WindowsInv'
    <2> SUFFICES ASSUME RecordInv, WindowsInv,
                        [(ProofNext /\ UNCHANGED hvars) \/ PolicyNext]_<<pvars, hvars>>
                 PROVE  RecordInv' /\ WindowsInv'
      OBVIOUS
    <2>1. CASE UNCHANGED <<pvars, hvars>>
      BY <2>1, WindowsStep DEF pvars, RecordInv
    <2>2. CASE ProofNext \/ PolicyNext
      BY <2>2, RecordStep, PolicyRecordStep, WindowsStep
    <2> QED
      BY <2>1, <2>2
  <1>3. RecordInv /\ WindowsInv => CodeAdmitsOnce
    BY RecordOnce, WindowsOnce DEF CodeAdmitsOnce
  <1> QED
    BY <1>1, <1>2, <1>3, PTL DEF PolicySpec

-----------------------------------------------------------------------------
\* The agent's state.

USE AgentAssumption

\* Every challenge the manager still remembers, pending, answered or behind
\* an injected event, was issued in the current attachment.
ChallengesCurrent ==
    \A n \in {manager.pending_dc_challenge, manager.identity_bound,
              manager.accepted_input} :
        n # 0 => n <= Len(issued) /\ issued[n] = attached

\* A killed session has no challenge left to answer.
KilledHasNoChallenge == state.killed => manager.pending_dc_challenge = 0

\* Without a session there is neither input policy nor media.
IdleIsClosed ==
    state.session_id = None => ~state.enable_input /\ ~state.media_started

\* The invariants imply each other's preservation only together: the gate
\* is closed by kill because the flags agree, and reopened only by a policy
\* on a live session.
AgentInv ==
    /\ TypeOK
    /\ MirrorsAgree
    /\ KilledIsDead
    /\ ChromeWhileLive
    /\ UnattendedRespectsLatch
    /\ ChallengesCurrent
    /\ IdleIsClosed
    /\ KilledHasNoChallenge

\* The cleared manager is well typed.
LEMMA BoundType ==
    ASSUME NEW s \in Sid \cup {None} PROVE Bound(s) \in Manager
  BY DEF Bound, Manager, Challenge

\* The initial agent state is well typed.
LEMMA NoStateType == NoState \in State
  BY DEF NoState, State

\* The agent starts idle, with every flag down.
LEMMA InitInv == Init => AgentInv
  BY BoundType, NoStateType
  DEF Init, AgentInv, TypeOK, MirrorsAgree, KilledIsDead, ChromeWhileLive,
      UnattendedRespectsLatch, ChallengesCurrent, IdleIsClosed, KilledHasNoChallenge, NoState, Bound,
      Peer, Connection

\* A new agent, built after a detach or for the next service connection, is
\* idle like the first one.
LEMMA NewAgentInv == AgentInv /\ NewAgentSession => AgentInv'
  <1> SUFFICES ASSUME AgentInv, NewAgentSession PROVE AgentInv'
    OBVIOUS
  <1>1. peer' \in Peer
    BY DEF AgentInv, TypeOK, NewAgentSession, Peer, Connection
  <1>2. TypeOK'
    BY <1>1, BoundType, NoStateType DEF AgentInv, TypeOK, NewAgentSession, counts
  <1> QED
    BY <1>2 DEF AgentInv, NewAgentSession, MirrorsAgree, KilledIsDead, ChromeWhileLive,
           UnattendedRespectsLatch, ChallengesCurrent, IdleIsClosed, KilledHasNoChallenge, NoState, Bound

\* A control message preserves the invariant: each command leaves the control
\* state and the manager in step.
LEMMA ControlMessageInv == AgentInv /\ ControlMessage => AgentInv'
  <1> SUFFICES ASSUME AgentInv, ControlMessage PROVE AgentInv'
    OBVIOUS
  <1> USE DEF AgentInv, Heard, OnSession, OnLive, counts
  <1>1. ASSUME NEW s \in Sid, AttachSession(s) PROVE AgentInv'
    <2>1. state' \in State /\ manager' \in Manager
      BY <1>1, BoundType DEF AttachSession, TypeOK, State, NoState
    <2>2. TypeOK'
      BY <1>1, <2>1 DEF AttachSession, TypeOK
    <2> QED
      BY <1>1, <2>2 DEF AttachSession, TypeOK, State, NoState, Bound, MirrorsAgree, KilledIsDead, ChromeWhileLive,
        UnattendedRespectsLatch, ChallengesCurrent, IdleIsClosed, KilledHasNoChallenge
  <1>2. ASSUME NEW s \in Sid, DetachSession(s) PROVE AgentInv'
    BY <1>2, NewAgentInv DEF DetachSession
  <1>3. ASSUME NEW s \in Sid, NEW e \in BOOLEAN, NEW u \in BOOLEAN, SetPolicy(s, e, u)
        PROVE  AgentInv'
    <2>1. state' \in State /\ manager' \in Manager
      BY <1>3 DEF SetPolicy, SyncInputPolicy, TypeOK, State, Manager
    <2>2. TypeOK'
      BY <1>3, <2>1 DEF SetPolicy, TypeOK
    <2> QED
      BY <1>3, <2>2 DEF SetPolicy, SyncInputPolicy, TypeOK, State, Manager, MirrorsAgree, KilledIsDead, ChromeWhileLive,
        UnattendedRespectsLatch, ChallengesCurrent, IdleIsClosed, KilledHasNoChallenge
  <1>4. ASSUME NEW s \in Sid, NEW o \in {"ok", "no_capture", "no_offer"}, StartMedia(s, o)
        PROVE  AgentInv'
    <2>1. state' \in State /\ manager' \in Manager /\ peer' \in Peer
      BY <1>4 DEF StartMedia, TypeOK, State, Manager, Peer, Connection
    <2>2. TypeOK'
      BY <1>4, <2>1 DEF StartMedia, TypeOK
    <2> QED
      BY <1>4, <2>2 DEF StartMedia, TypeOK, State, Manager, MirrorsAgree, KilledIsDead, ChromeWhileLive,
        UnattendedRespectsLatch, ChallengesCurrent, IdleIsClosed, KilledHasNoChallenge
  <1>5. ASSUME NEW s \in Sid, StopMedia(s) PROVE AgentInv'
    <2>1. state' \in State /\ manager' \in Manager
      BY <1>5 DEF StopMedia, TypeOK, State, Manager
    <2>2. TypeOK'
      BY <1>5, <2>1 DEF StopMedia, TypeOK
    <2> QED
      BY <1>5, <2>2 DEF StopMedia, TypeOK, State, Manager, MirrorsAgree, KilledIsDead, ChromeWhileLive,
        UnattendedRespectsLatch, ChallengesCurrent, IdleIsClosed, KilledHasNoChallenge
  <1>6. ASSUME NEW s \in Sid, ShowSessionChrome(s) PROVE AgentInv'
    <2>1. state' \in State
      BY <1>6 DEF ShowSessionChrome, TypeOK, State
    <2>2. TypeOK'
      BY <1>6, <2>1 DEF ShowSessionChrome, TypeOK
    <2> QED
      BY <1>6, <2>2 DEF ShowSessionChrome, TypeOK, State, MirrorsAgree, KilledIsDead, ChromeWhileLive,
        UnattendedRespectsLatch, ChallengesCurrent, IdleIsClosed, KilledHasNoChallenge
  <1>7. ASSUME NEW s \in Sid, SignalAnswer(s) PROVE AgentInv'
    <2>1. peer' \in Peer
      BY <1>7 DEF SignalAnswer, TypeOK, Peer, Connection
    <2>2. sent' \in Sent \cup {None}
      BY <1>7, <2>1 DEF SignalAnswer, Pump, TypeOK, Sent, Peer, State, Manager, MirrorsAgree
    <2>3. TypeOK'
      BY <1>7, <2>1, <2>2 DEF SignalAnswer, TypeOK
    <2> QED
      BY <1>7, <2>3 DEF SignalAnswer, MirrorsAgree, KilledIsDead, ChromeWhileLive,
        UnattendedRespectsLatch, ChallengesCurrent, IdleIsClosed, KilledHasNoChallenge
  <1>8. ASSUME NEW t \in Sid \cup {None}, NEW d \in BOOLEAN, KillSwitch(t, d)
        PROVE  AgentInv'
    <2>1. state' \in State
      BY <1>8 DEF KillSwitch, TypeOK, State, NoState
    <2>2. manager' = [Bound(None) EXCEPT !.policy_input_enabled = FALSE]
      <3>1. state'.enable_input = FALSE
        BY <1>8 DEF KillSwitch, NoState
      <3> QED BY <1>8, <3>1 DEF KillSwitch, SyncInputPolicy
    <2>3. manager' = Bound(None)
      BY <2>2 DEF Bound
    <2>4. manager' \in Manager
      BY <2>3, BoundType
    <2>5. TypeOK'
      BY <1>8, <2>1, <2>4 DEF KillSwitch, TypeOK
    <2> QED
      BY <1>8, <2>3, <2>5 DEF KillSwitch, TypeOK, State, NoState, Bound, MirrorsAgree, KilledIsDead, ChromeWhileLive,
        UnattendedRespectsLatch, ChallengesCurrent, IdleIsClosed, KilledHasNoChallenge
  <1>9. ASSUME QueryStats PROVE AgentInv'
    <2>1. sent' \in Sent \cup {None}
      <3>1. CASE sent' = sent
        BY <3>1 DEF TypeOK
      <3>2. CASE sent' # sent
        <4>1. /\ state.media_started
              /\ sent' = [session |-> manager.session_id, transport |-> peer.id]
          BY <1>9, <3>2 DEF QueryStats, Pump
        <4>2. manager.session_id = state.session_id /\ state.session_id # None
          BY <1>9, <4>1 DEF IdleIsClosed, MirrorsAgree, KilledIsDead
        <4>3. manager.session_id \in Sid /\ peer.id \in 1 .. MaxPeer
          BY <4>2 DEF TypeOK, State, Peer
        <4> QED BY <4>1, <4>3 DEF Sent
      <3> QED BY <3>1, <3>2
    <2>2. TypeOK'
      BY <1>9, <2>1 DEF QueryStats, TypeOK
    <2> QED
      BY <1>9, <2>2 DEF QueryStats, MirrorsAgree, KilledIsDead, ChromeWhileLive,
        UnattendedRespectsLatch, ChallengesCurrent, IdleIsClosed, KilledHasNoChallenge
  <1> QED
    BY <1>1, <1>2, <1>3, <1>4, <1>5, <1>6, <1>7, <1>8, <1>9 DEF ControlMessage

\* Every other step preserves it too: what the host itself does, the poll of
\* the data channels message by message, and the transport.
LEMMA OtherStepInv ==
    ASSUME AgentInv, Next, ~ControlMessage PROVE AgentInv'
  <1> USE DEF AgentInv, counts
  <1>1. ASSUME ServiceReconnects PROVE AgentInv'
    BY <1>1, NewAgentInv DEF ServiceReconnects
  <1>2. ASSUME ReenableUnattendedLocal PROVE AgentInv'
    <2>1. TypeOK'
      BY <1>2 DEF ReenableUnattendedLocal, TypeOK, State
    <2> QED
      BY <1>2, <2>1 DEF ReenableUnattendedLocal, TypeOK, State, MirrorsAgree, KilledIsDead, ChromeWhileLive,
        UnattendedRespectsLatch, ChallengesCurrent, IdleIsClosed, KilledHasNoChallenge
  <1>3. ASSUME NEW mode \in {"otp", "unattended"}, Authorize(mode) PROVE AgentInv'
    <2>1. TypeOK'
      BY <1>3 DEF Authorize, TypeOK, Manager
    <2> QED
      BY <1>3, <2>1 DEF Authorize, TypeOK, Manager, MirrorsAgree, KilledIsDead, ChromeWhileLive,
        UnattendedRespectsLatch, ChallengesCurrent, IdleIsClosed, KilledHasNoChallenge
  <1>4. ASSUME StartIdentityChallenge PROVE AgentInv'
    <2>1. /\ issued' = Append(issued, attached)
          /\ manager' = [manager EXCEPT !.pending_dc_challenge = Len(issued) + 1]
          /\ UNCHANGED <<state, peer, data, taken, attached, sent>>
          /\ Len(issued) \in Nat /\ Len(issued) + 1 \in 1 .. MaxChallenge
          /\ issued \in Seq(0 .. MaxAttach) /\ attached \in 0 .. MaxAttach
      BY <1>4 DEF StartIdentityChallenge, TypeOK
    <2>2. issued' \in Seq(0 .. MaxAttach) /\ Len(issued') = Len(issued) + 1
      BY <2>1
    <2>3. manager' \in Manager
      <3>1. Len(issued) + 1 \in Challenge
        BY <2>1 DEF Challenge
      <3> QED BY <2>1, <3>1 DEF TypeOK, Manager
    <2>4. TypeOK'
      BY <2>1, <2>2, <2>3 DEF TypeOK
    <2>5. ChallengesCurrent'
      <3>1. \A n \in 1 .. Len(issued) : issued'[n] = issued[n]
        BY <2>1
      <3>2. issued'[Len(issued) + 1] = attached
        BY <2>1
      <3>3. /\ manager'.pending_dc_challenge = Len(issued) + 1
            /\ manager'.identity_bound = manager.identity_bound
            /\ manager'.accepted_input = manager.accepted_input
            /\ manager.identity_bound \in Nat /\ manager.accepted_input \in Nat
        BY <2>1 DEF TypeOK, Manager, Challenge
      <3> QED BY <2>1, <2>2, <3>1, <3>2, <3>3 DEF ChallengesCurrent
    <2> QED
      BY <2>1, <2>4, <2>5, <1>4 DEF StartIdentityChallenge, TypeOK, Manager,
        MirrorsAgree, KilledIsDead, ChromeWhileLive, UnattendedRespectsLatch, IdleIsClosed, KilledHasNoChallenge
  <1>5. ASSUME PollInbound PROVE AgentInv'
    <2>1. manager' \in Manager
      BY <1>5 DEF PollInbound, SyncInputPolicy, TypeOK, State, Manager
    <2>2. TypeOK'
      BY <1>5, <2>1 DEF PollInbound, TypeOK
    <2> QED
      BY <1>5, <2>2 DEF PollInbound, SyncInputPolicy, TypeOK, State, Manager, MirrorsAgree, KilledIsDead, ChromeWhileLive,
        UnattendedRespectsLatch, ChallengesCurrent, IdleIsClosed, KilledHasNoChallenge
  <1>6. ASSUME NEW inject \in BOOLEAN, ProcessInput(inject) PROVE AgentInv'
    <2>1. manager' \in Manager
      <3>1. manager.identity_bound \in Challenge
        BY DEF TypeOK, Manager
      <3>2. [manager EXCEPT !.accepted_input = manager.identity_bound] \in Manager
        BY <3>1 DEF TypeOK, Manager
      <3> QED BY <1>6, <3>2 DEF ProcessInput, TypeOK
    <2>2. taken' \in Seq(Data)
      BY <1>6 DEF ProcessInput, TypeOK
    <2>3. TypeOK'
      BY <1>6, <2>1, <2>2 DEF ProcessInput, TypeOK
    <2> QED
      BY <1>6, <2>3 DEF ProcessInput, TypeOK, Manager, MirrorsAgree, KilledIsDead, ChromeWhileLive,
        UnattendedRespectsLatch, ChallengesCurrent, IdleIsClosed, KilledHasNoChallenge
  <1>7. ASSUME HandleIdentityData PROVE AgentInv'
    <2> DEFINE d == Head(taken)
    <2>1. d.to \in Challenge
      <3>1. d \in Data /\ d.label = "identity"
        BY <1>7 DEF HandleIdentityData, TypeOK
      <3> QED BY <3>1 DEF Data
    <2>2. manager' \in Manager
      <3>1. PICK p \in Challenge, b \in Challenge :
                manager' = [manager EXCEPT !.pending_dc_challenge = p, !.identity_bound = b]
        <4>1. /\ manager.pending_dc_challenge \in Challenge
              /\ manager.identity_bound \in Challenge
              /\ 0 \in Challenge
          BY DEF TypeOK, Manager, Challenge
        <4> QED BY <1>7, <2>1, <4>1 DEF HandleIdentityData
      <3> QED BY <3>1 DEF TypeOK, Manager
    <2>3. taken' \in Seq(Data)
      BY <1>7 DEF HandleIdentityData, TypeOK
    <2>4. TypeOK'
      BY <1>7, <2>2, <2>3 DEF HandleIdentityData, TypeOK
    <2>5. /\ manager'.pending_dc_challenge \in {0, manager.pending_dc_challenge}
          /\ manager'.identity_bound \in {manager.identity_bound,
                                          manager.pending_dc_challenge}
          /\ manager'.accepted_input = manager.accepted_input
      BY <1>7 DEF HandleIdentityData, Verifies, TypeOK, Manager
    <2>6. ChallengesCurrent'
      BY <1>7, <2>5 DEF HandleIdentityData, ChallengesCurrent
    <2>7. /\ manager'.session_id = manager.session_id
          /\ manager'.media = manager.media
          /\ manager'.policy_input_enabled = manager.policy_input_enabled
          /\ state' = state
      BY <1>7 DEF HandleIdentityData, TypeOK, Manager
    <2>8. KilledIsDead'
      BY <2>5, <2>7 DEF KilledIsDead, KilledHasNoChallenge
    <2> QED
      BY <2>4, <2>5, <2>6, <2>7, <2>8 DEF MirrorsAgree, ChromeWhileLive,
        UnattendedRespectsLatch, IdleIsClosed, KilledHasNoChallenge
  <1>8. ASSUME NEW d \in Data, DataArrives(d) PROVE AgentInv'
    <2>1. TypeOK'
      BY <1>8 DEF DataArrives, TypeOK
    <2> QED
      BY <1>8, <2>1 DEF DataArrives, MirrorsAgree, KilledIsDead, ChromeWhileLive,
        UnattendedRespectsLatch, ChallengesCurrent, IdleIsClosed, KilledHasNoChallenge
  <1>9. ASSUME PeerConnects \/ PeerDisconnects PROVE AgentInv'
    <2>1. TypeOK'
      BY <1>9 DEF PeerConnects, PeerDisconnects, TypeOK, Peer, Connection
    <2> QED
      BY <1>9, <2>1 DEF PeerConnects, PeerDisconnects, MirrorsAgree, KilledIsDead, ChromeWhileLive,
        UnattendedRespectsLatch, ChallengesCurrent, IdleIsClosed, KilledHasNoChallenge
  <1> QED
    BY <1>1, <1>2, <1>3, <1>4, <1>5, <1>6, <1>7, <1>8, <1>9 DEF Next

\* The strengthened invariant holds in every reachable state.
THEOREM AgentInvariant == Spec => []AgentInv
<1>1. AgentInv /\ UNCHANGED vars => AgentInv'
  BY DEF vars, AgentInv, TypeOK, InjectionAllowed, MirrorsAgree, KilledIsDead, ChromeWhileLive,
        UnattendedRespectsLatch, ChallengesCurrent, IdleIsClosed, KilledHasNoChallenge
<1>2. AgentInv /\ [Next]_vars => AgentInv'
  BY <1>1, ControlMessageInv, OtherStepInv
<1> QED BY <1>2, InitInv, PTL DEF Spec

\* The control state and the session manager never disagree about the input
\* gate, the media plane or the session (MirrorsAgree).
THEOREM MirrorsCorrect == Spec => []MirrorsAgree
<1>1. AgentInv => MirrorsAgree
  BY DEF AgentInv
<1> QED BY <1>1, AgentInvariant, PTL

\* The kill-switch is final until the next attach, whatever commands, data
\* and authorizations follow it (KilledIsDead).
THEOREM KillCorrect == Spec => []KilledIsDead
<1>1. AgentInv => KilledIsDead
  BY DEF AgentInv
<1> QED BY <1>1, AgentInvariant, PTL

\* A live session always shows its chrome (ChromeWhileLive).
THEOREM ChromeCorrect == Spec => []ChromeWhileLive
<1>1. AgentInv => ChromeWhileLive
  BY DEF AgentInv
<1> QED BY <1>1, AgentInvariant, PTL

\* Input is injected only on the strength of an identity proof given in the
\* current attachment, under an open policy (InputBoundToAttachment).
THEOREM InputCorrect == Spec => []InputBoundToAttachment
<1>1. AgentInv => InputBoundToAttachment
  <2> SUFFICES ASSUME AgentInv PROVE InputBoundToAttachment
    OBVIOUS
  <2>1. \A n \in {manager.identity_bound, manager.accepted_input} :
            n # 0 => issued[n] = attached
    BY DEF AgentInv, ChallengesCurrent
  <2>2. InjectionAllowed => /\ state.enable_input /\ state.chrome_visible
                            /\ manager.session_id = state.session_id
    BY DEF AgentInv, InjectionAllowed, MirrorsAgree, IdleIsClosed, ChromeWhileLive
  <2> QED BY <2>1, <2>2 DEF InputBoundToAttachment
<1> QED BY <1>1, AgentInvariant, PTL

\* Unattended access is never on while the kill-switch has latched it off,
\* whichever order policy, re-enable and attach come in
\* (UnattendedRespectsLatch).
THEOREM LatchCorrect == Spec => []UnattendedRespectsLatch
<1>1. AgentInv => UnattendedRespectsLatch
  BY DEF AgentInv
<1> QED BY <1>1, AgentInvariant, PTL

==============================================================================
