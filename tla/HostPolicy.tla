----------------------------- MODULE HostPolicy -----------------------------
(***************************************************************************)
(* The host's own say over who gets in (apps/host/src/policy.rs            *)
(* HostAuthService): the window of the one-time code it shows, the switch  *)
(* and the secret of unattended access, and the accept button.  The codes  *)
(* and MACs are those of IdentityProof.                                    *)
(***************************************************************************)
EXTENDS IdentityProof

CONSTANTS
    NoWindow, NoCode,
    Ttls,              \* otp_ttl_secs settings
    MaxMints           \* bound on codes minted

VARIABLES
    policy,            \* HostLocalConfig and host_secret
    window,            \* active_otp
    mints,             \* [code, expires] of each code minted (history)
    granted            \* [mint, code, at] of each admission by code (history)

hvars == <<policy, window, mints, granted>>

ASSUME PolicyAssumption == Ttls \subseteq Nat /\ MaxMints \in Nat

\* What the host keeps of a code it shows: its hash and its expiry.
ActiveOtpWindow(code, expires) == MintOtpRecord(code, Pepper, Len(mints), expires)

\* HostLocalConfig::default
DefaultPolicy == [unattended_enabled |-> FALSE, confirm_sessions |-> FALSE,
                  host_secret |-> FALSE, otp_digits |-> MinDigits]

PolicyInit ==
    /\ policy = DefaultPolicy
    /\ window = NoWindow /\ mints = <<>> /\ granted = <<>>

\* set_unattended_enabled, set_confirm_sessions and the digits of config_mut.
SetConfig(field, value) ==
    /\ policy' = [policy EXCEPT ![field] = value]
    /\ UNCHANGED <<window, mints, granted, pvars>>

\* set_host_secret.
SetHostSecret ==
    /\ policy' = [policy EXCEPT !.host_secret = TRUE]
    /\ UNCHANGED <<window, mints, granted, pvars>>

EnableUnattendedWithGeneratedSecret ==
    /\ policy' = [policy EXCEPT !.host_secret = TRUE, !.unattended_enabled = TRUE]
    /\ UNCHANGED <<window, mints, granted, pvars>>

PolicyAllowsMode(mode) ==
    mode = "unattended" => policy.unattended_enabled /\ policy.host_secret

DecideConfirm(user_accepted) ==
    CASE ~policy.confirm_sessions -> "auto"
      [] user_accepted = "yes"    -> "accepted"
      [] user_accepted = "no"     -> "denied"
      [] OTHER                    -> "pending"

\* A new code takes the place of the last one; a length that is not allowed
\* mints nothing.
MintOtp(code, ttl) ==
    /\ Len(mints) < MaxMints
    /\ code.digits = policy.otp_digits /\ ValidateOtpFormat(code)
    /\ LET expires == unix + (IF ttl < 1 THEN 1 ELSE ttl) IN
        /\ window' = ActiveOtpWindow(code, expires)
        /\ mints' = Append(mints, [code |-> code, expires |-> expires])
    /\ UNCHANGED <<policy, granted, pvars>>

Opens(code) == window # NoWindow /\ Verify(window, code, Pepper, unix)

\* consume_otp, when the code opens the window: the window is gone.
ConsumeOtp(code) ==
    /\ window' = NoWindow
    /\ granted' = Append(granted, [mint |-> Len(mints), code |-> code, at |-> unix])

\* decide_session_accept up to the code: what the caller is told.
Decision(mode, code, user_accepted) ==
    LET confirm == DecideConfirm(user_accepted) IN
    CASE confirm = "denied"  -> "deny_policy"
      [] confirm = "pending" -> "need_confirm"
      [] mode # "otp"        -> IF PolicyAllowsMode(mode) THEN "allow" ELSE "deny_policy"
      [] code = NoCode       -> IF window = NoWindow \/ IsExpired(window, unix)
                                THEN "deny_auth" ELSE "need_otp_code"
      [] OTHER               -> IF Opens(code) THEN "allow" ELSE "deny_auth"

\* Only an allowed code session changes anything.
DecideSessionAccept(mode, code, user_accepted) ==
    /\ mode = "otp" /\ Decision(mode, code, user_accepted) = "allow"
    /\ ConsumeOtp(code)
    /\ UNCHANGED <<policy, mints, pvars>>

AuthorizeSessionModeA(code) ==
    /\ Attached /\ Opens(code)
    /\ ConsumeOtp(code)
    /\ host' = [host EXCEPT !.session_authorized = TRUE, !.key = BindKeyOfCode(code)]
    /\ UNCHANGED <<policy, mints, unix, record, viewer, drawn, macs, answered, agreed, spent>>

AuthorizeSessionModeB(mac, fp_host, fp_viewer) ==
    /\ PolicyAllowsMode("unattended")
    /\ AuthorizeModeB(mac, fp_host, fp_viewer)
    /\ UNCHANGED hvars

\* The wire and the clock, as far as the host's policy meets them: the viewer
\* is at the other end.
PolicyWorld ==
    \/ HostAttach(viewer.sid, ViewerCert)
    \/ drawn = {} /\ \E n \in Nonces : IssueAuth(n)
    \/ macs = {} /\ Answer(ModeBDomain, BytesToHex(host.auth), <<>>, <<>>)
    \/ ProofTick

PolicyNext ==
    \/ \E f \in {"unattended_enabled", "confirm_sessions"}, b \in BOOLEAN : SetConfig(f, b)
    \/ \E n \in {MinDigits, MaxDigits} : SetConfig("otp_digits", n)
    \/ SetHostSecret \/ EnableUnattendedWithGeneratedSecret
    \/ \E code \in Codes, ttl \in Ttls : MintOtp(code, ttl)
    \/ \E mode \in {"otp", "password", "unattended"}, code \in Codes \cup {NoCode},
          accepted \in {"yes", "no", "none"} : DecideSessionAccept(mode, code, accepted)
    \/ \E code \in Codes : AuthorizeSessionModeA(code)
    \/ \E mac \in macs : AuthorizeSessionModeB(mac, <<>>, <<>>)
    \/ PolicyWorld /\ UNCHANGED hvars

\* The policy, with all that goes on around its sessions.
PolicySpec ==
    ProofInit /\ PolicyInit /\ [][(ProofNext /\ UNCHANGED hvars) \/ PolicyNext]_<<pvars, hvars>>
-----------------------------------------------------------------------------
\* Each code the host minted lets in one session at most, by either way in,
\* before it expires and only until another is minted, and no other text
\* does; and whoever is shown a code field has a code to type: the host asks
\* for one only while a window is open that some code opens.
WindowsAdmitOnce ==
    /\ \A i, j \in DOMAIN granted : granted[i].mint = granted[j].mint => i = j
    /\ \A i \in DOMAIN granted :
        LET g == granted[i] IN g.code.id = mints[g.mint].code.id /\ g.at < mints[g.mint].expires
    /\ Decision("otp", NoCode, "yes") = "need_otp_code" => Opens(mints[Len(mints)].code)

\* The code on the host's screen authorises one session, before it expires,
\* and no other text does (otp.rs verify_and_consume, is_expired), also
\* through the window the host keeps for it (policy.rs consume_otp).
CodeAdmitsOnce == RecordAdmitsOnce /\ WindowsAdmitOnce
=============================================================================
