--------------------------- MODULE IdentityProof ---------------------------
(***************************************************************************)
(* How a host convinces itself who is at the other end (packages/auth):    *)
(* a one-time code that is verified and consumed (otp.rs), or a challenge  *)
(* answered under a host-only secret (challenge.rs), then a challenge over *)
(* the data channel that ties the session to both DTLS certificates        *)
(* (identity.rs).                                                          *)
(*                                                                         *)
(* Cryptography is symbolic: a MAC is its key and message, and a nonce is  *)
(* not drawn twice.  The message is what the code makes of its fields, as  *)
(* bytes.  Whoever carries the signaling and the connection is not         *)
(* trusted: any answer ever given may arrive anywhere, late or again, the  *)
(* viewer may be handed any challenge, and the certificates either end     *)
(* sees need not be the other's.                                           *)
(***************************************************************************)
EXTENDS Integers, Sequences, FiniteSets

CONSTANTS
    SessionIds,        \* session ids, as byte sequences
    Nonces,            \* nonces hosts draw, as byte sequences
    HexStrings,        \* nonce texts the viewer may be handed
    Certs, HostCert, ViewerCert,   \* fingerprints, as byte sequences
    Codes,             \* codes typed: [digits, numeric, id]
    Minted,            \* the code the host shows
    Pepper, Peppers,   \* the host's, and those tried; <<>> is the empty one
    NoKey,
    CodeTtl,           \* lifetime of the code
    MaxUnix,           \* bound on time
    MaxAnswers         \* bound on answers the viewer gives

VARIABLES
    unix,              \* time
    record,            \* OtpRecord
    host,              \* the host's session
    viewer,            \* the viewer's session
    drawn,             \* nonces drawn
    macs,              \* MACs ever sent
    answered,          \* what the viewer put its MAC to (history)
    agreed,            \* what the host took for bound (history)
    spent              \* [code, at]: admissions by the code (history)

pvars == <<unix, record, host, viewer, drawn, macs, answered, agreed, spent>>

\* 16 stands for a character that is no hex digit; nothing is minted under an
\* empty pepper (hash_otp).
ASSUME ProofAssumption ==
    /\ SessionIds \subseteq Seq(0 .. 255) \ {<<>>} /\ Nonces \subseteq Seq(0 .. 255) \ {<<>>}
    /\ HexStrings \subseteq Seq(0 .. 16)
    /\ Certs \subseteq Seq(0 .. 255) /\ HostCert \in Certs /\ ViewerCert \in Certs
    /\ Codes \subseteq [digits : Nat, numeric : BOOLEAN, id : Nat]
    /\ Minted \in [digits : Nat, numeric : BOOLEAN, id : Nat]
    /\ Pepper # <<>> /\ CodeTtl \in Nat /\ MaxUnix \in Nat
-----------------------------------------------------------------------------
(* One-time codes *)

MinDigits == 6
MaxDigits == 8
ValidateOtpFormat(code) == code.digits \in MinDigits .. MaxDigits /\ code.numeric

\* hash_otp_with_salt and hash_otp_unkeyed.
HashOtp(code, pepper, salt) == [keyed |-> TRUE, salt |-> salt, digest |-> <<pepper, salt, code.id>>]
HashOtpUnkeyed(code) == [keyed |-> FALSE, salt |-> 0, digest |-> <<code.id>>]

VerifyOtp(code, pepper, expected) ==
    /\ ValidateOtpFormat(code)
    /\ IF expected.keyed
       THEN pepper # <<>> /\ HashOtp(code, pepper, expected.salt).digest = expected.digest
       ELSE HashOtpUnkeyed(code).digest = expected.digest

\* mint_otp_record.
NewOtpRecord(hash, expires) == [hash |-> hash, expires_at_unix |-> expires, consumed |-> FALSE]

\* Mutant: the second of expiry still counts.
IsExpiredLate(r, now) == now > r.expires_at_unix

IsExpired(r, now) == now >= r.expires_at_unix

Verify(r, code, pepper, now) ==
    ~r.consumed /\ ~IsExpired(r, now) /\ VerifyOtp(code, pepper, r.hash)
-----------------------------------------------------------------------------
(* Keys and MACs *)

\* SessionBindKey::from_mode_a_otp and from_mode_b_secret.
BindKeyOfCode(code) == <<"otp", code.id>>
HostSecret == <<"secret">>

\* append_lp.
Lp(field) == <<Len(field)>> \o field

\* Mutant: the fields run into each other.
EncodePlain(domain, sid, nonce, fp_host, fp_viewer) ==
    <<domain>> \o sid \o nonce \o fp_host \o fp_viewer

\* ChallengeTranscript::encode and encode_dc_bind_message.
Encode(domain, sid, nonce, fp_host, fp_viewer) ==
    <<domain>> \o Lp(sid) \o Lp(nonce) \o Lp(fp_host) \o Lp(fp_viewer)

ModeBDomain == 201
DcBindDomain == 202

ComputeMac(key, domain, sid, nonce, fp_host, fp_viewer) ==
    [key |-> key, msg |-> Encode(domain, sid, nonce, fp_host, fp_viewer)]
-----------------------------------------------------------------------------
(* The text of a challenge: bytes in hexadecimal; 16 is no hex digit.      *)

BytesToHex(bytes) ==
    [i \in 1 .. 2 * Len(bytes) |-> IF i % 2 = 1 THEN bytes[(i + 1) \div 2] \div 16
                                   ELSE bytes[i \div 2] % 16]
HexOk(hex) == Len(hex) % 2 = 0 /\ \A i \in DOMAIN hex : hex[i] < 16
HexToBytes(hex) == [i \in 1 .. Len(hex) \div 2 |-> 16 * hex[2 * i - 1] + hex[2 * i]]

\* DcIdentityMessage::parse of a challenge.
ParsesAsChallenge(hex) == HexOk(hex) /\ Len(hex) > 0
-----------------------------------------------------------------------------
NoSession == [sid |-> <<>>, fp_viewer |-> <<>>, session_authorized |-> FALSE,
              identity_bound |-> FALSE, key |-> NoKey, auth |-> <<>>, dc |-> <<>>]

\* mint_otp, mint_otp_record: the code is told to the user, its hash is kept.
MintOtpRecord(code, pepper, salt, expires) == NewOtpRecord(HashOtp(code, pepper, salt), expires)

\* ChallengeNonce::generate draws 32 random bytes: none a second time.
FreshNonce(n) == n \notin drawn

ProofInit ==
    /\ unix = 0
    /\ record = MintOtpRecord(Minted, Pepper, 7, CodeTtl)
    /\ host = NoSession
    /\ viewer \in [sid : SessionIds, key : {HostSecret, BindKeyOfCode(Minted)},
                   fp_host : Certs]
    /\ drawn = {} /\ macs = {} /\ answered = {} /\ agreed = {} /\ spent = {}

\* A session attaches over a connection whose other end shows a certificate.
HostAttach(sid, cert) ==
    /\ sid # host.sid
    /\ host' = [NoSession EXCEPT !.sid = sid, !.fp_viewer = cert]
    /\ UNCHANGED <<unix, record, viewer, drawn, macs, answered, agreed, spent>>

Attached == host.sid # <<>>

\* authorize_mode_a: the code is consumed, then the bind key derived.
AuthorizeModeA(code, pepper) ==
    /\ Attached
    /\ Verify(record, code, pepper, unix)
    /\ record' = [record EXCEPT !.consumed = TRUE]
    /\ host' = [host EXCEPT !.session_authorized = TRUE, !.key = BindKeyOfCode(code)]
    /\ spent' = spent \cup {[sid |-> host.sid, code |-> code, at |-> unix]}
    /\ UNCHANGED <<unix, viewer, drawn, macs, answered, agreed>>

\* AuthChallenge::issue, and the challenge of the data channel.
IssueAuth(n) ==
    /\ Attached /\ FreshNonce(n)
    /\ host' = [host EXCEPT !.auth = n]
    /\ drawn' = drawn \cup {n}
    /\ UNCHANGED <<unix, record, viewer, macs, answered, agreed, spent>>

IssueDc(n) ==
    /\ host.key # NoKey /\ FreshNonce(n)
    /\ host' = [host EXCEPT !.dc = n]
    /\ drawn' = drawn \cup {n}
    /\ UNCHANGED <<unix, record, viewer, macs, answered, agreed, spent>>

\* authorize_mode_b, with no fingerprints or with the ones it has.
AuthorizeModeB(mac, fp_host, fp_viewer) ==
    /\ Attached /\ host.auth # <<>>
    /\ mac = ComputeMac(HostSecret, ModeBDomain, host.sid, host.auth, fp_host, fp_viewer)
    /\ host' = [host EXCEPT !.session_authorized = TRUE, !.key = HostSecret]
    /\ agreed' = agreed \cup {<<ModeBDomain, HostSecret, host.sid, host.auth, fp_host, fp_viewer>>}
    /\ UNCHANGED <<unix, record, viewer, drawn, macs, answered, spent>>

\* authorize_unattended_secret: the secret is the bind key, unproven as yet.
AuthorizeUnattendedSecret ==
    /\ Attached
    /\ host' = [host EXCEPT !.session_authorized = TRUE, !.key = HostSecret]
    /\ UNCHANGED <<unix, record, viewer, drawn, macs, answered, agreed, spent>>

\* verify_dc_bind_mac.
VerifiesDc(mac) ==
    mac = ComputeMac(host.key, DcBindDomain, host.sid, host.dc, HostCert, host.fp_viewer)

CompleteDcBind(mac) ==
    /\ host.dc # <<>>
    /\ VerifiesDc(mac)
    /\ host' = [host EXCEPT !.identity_bound = TRUE, !.dc = <<>>]
    /\ agreed' = agreed \cup {<<DcBindDomain, host.key, host.sid, host.dc, HostCert, host.fp_viewer>>}
    /\ UNCHANGED <<unix, record, viewer, drawn, macs, answered, spent>>

\* A wrong answer uses the challenge up.
RefuseDcBind(mac) ==
    /\ host.dc # <<>>
    /\ ~VerifiesDc(mac)
    /\ host' = [host EXCEPT !.dc = <<>>]
    /\ UNCHANGED <<unix, record, viewer, drawn, macs, answered, agreed, spent>>

\* respond_dc_challenge, respond_to_challenge: the viewer answers whatever
\* challenge it is handed for its session, with what it sees.
Answer(domain, hex, fp_host, fp_viewer) ==
    /\ ParsesAsChallenge(hex)
    /\ Cardinality(macs) < MaxAnswers
    /\ domain = ModeBDomain => viewer.key = HostSecret
    /\ LET n == HexToBytes(hex) IN
        /\ macs' = macs \cup {ComputeMac(viewer.key, domain, viewer.sid, n, fp_host, fp_viewer)}
        /\ answered' = answered \cup {<<domain, viewer.key, viewer.sid, n, fp_host, fp_viewer>>}
    /\ UNCHANGED <<unix, record, host, viewer, drawn, agreed, spent>>

ProofTick ==
    /\ unix < MaxUnix /\ unix' = unix + 1
    /\ UNCHANGED <<record, host, viewer, drawn, macs, answered, agreed, spent>>

\* At signaling time the fingerprints may not be known yet.
FpsOf(real_host, real_viewer) == {<<<<>>, <<>>>>, <<real_host, real_viewer>>}

ProofNext ==
    \/ \E sid \in SessionIds, cert \in Certs \ {HostCert} : HostAttach(sid, cert)
    \/ \E code \in Codes, p \in Peppers : AuthorizeModeA(code, p)
    \/ \E n \in Nonces : IssueAuth(n) \/ IssueDc(n)
    \/ \E mac \in macs : CompleteDcBind(mac) \/ RefuseDcBind(mac)
    \/ \E mac \in macs : \E fps \in FpsOf(HostCert, host.fp_viewer) :
           AuthorizeModeB(mac, fps[1], fps[2])
    \/ AuthorizeUnattendedSecret
    \/ \E hex \in HexStrings :
        \/ Answer(DcBindDomain, hex, viewer.fp_host, ViewerCert)
        \/ \E fps \in FpsOf(viewer.fp_host, ViewerCert) : Answer(ModeBDomain, hex, fps[1], fps[2])
    \/ ProofTick

ProofSpec == ProofInit /\ [][ProofNext]_pvars
-----------------------------------------------------------------------------
\* The host takes a session for proven only if the viewer, under the same
\* key, answered that very challenge for that very session over that very
\* pair of certificates: no answer from another session, channel, challenge
\* or connection passes for it (identity.rs complete_dc_bind, challenge.rs
\* ChallengeTranscript::encode).
BindingsAgree == agreed \subseteq answered

\* And a viewer that sees what the host sees is not refused: its answer to
\* the challenge as it comes off the wire verifies.
HonestIsBound ==
    host.dc # <<>> /\ viewer.sid = host.sid /\ viewer.key = host.key
    /\ viewer.fp_host = HostCert /\ host.fp_viewer = ViewerCert =>
        LET hex == BytesToHex(host.dc) IN
        /\ ParsesAsChallenge(hex)
        /\ VerifiesDc(ComputeMac(viewer.key, DcBindDomain, viewer.sid, HexToBytes(hex),
                                 viewer.fp_host, ViewerCert))

\* The proof over the data channel convinces the host of the right viewer and
\* of no other (identity.rs, challenge.rs).
BindingSound == BindingsAgree /\ HonestIsBound

\* A one-time code authorises one session, before it expires, and no other
\* text does (otp.rs verify_and_consume, is_expired).
RecordAdmitsOnce ==
    /\ Cardinality(spent) <= 1
    /\ \A x \in spent : x.code.id = Minted.id /\ x.at < CodeTtl
=============================================================================
