--------------------------- MODULE MCAgentControl ---------------------------
(***************************************************************************)
(* The session agent (driven = "agent") and, on its own, the proof of      *)
(* identity it relies on and the host's policy.                            *)
(***************************************************************************)
EXTENDS AgentControl, HostPolicy, TLC

CONSTANT Drive
VARIABLE driven

\* Session ids are interchangeable.
Symmetry == Permutations(Sid)

\* No action reads sent: runs that check nothing about it leave it out.
View == <<driven, state, manager, peer, data, taken, counts, pvars, hvars>>

Code(n, numeric, id) == [digits |-> n, numeric |-> numeric, id |-> id]
MCMinted == Code(6, TRUE, 1)
MCCodes == {MCMinted, Code(8, TRUE, 2), Code(5, TRUE, 1), Code(9, TRUE, 3), Code(6, FALSE, 4)}
MCSessionIds == {<<49>>, <<49, 50>>}
MCNonces == {<<50>>, <<51>>}
MCHexStrings == {BytesToHex(n) : n \in {<<50>>, <<51>>, <<50, 50>>}} \cup {<<3>>, <<3, 16>>, <<>>}
MCHostCert == <<72>>
MCViewerCert == <<86>>
MCCerts == {MCHostCert, MCViewerCert, <<82>>}
MCPepper == <<1>>
MCPeppers == {<<>>, <<1>>, <<2>>}

MCInit ==
    /\ Init /\ ProofInit /\ PolicyInit /\ driven \in Drive
    /\ driven # "proof" =>
           viewer = [sid |-> <<49>>, key |-> HostSecret, fp_host |-> MCHostCert]
MCNext ==
    \/ driven = "agent" /\ Next /\ UNCHANGED <<driven, pvars, hvars>>
    \/ driven = "proof" /\ ProofNext /\ UNCHANGED <<driven, vars, hvars>>
    \/ driven = "policy" /\ PolicyNext /\ UNCHANGED <<driven, vars>>
MCSpec == MCInit /\ [][MCNext]_<<driven, vars, pvars, hvars>>
=============================================================================
