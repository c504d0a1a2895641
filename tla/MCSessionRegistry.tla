------------------------- MODULE MCSessionRegistry -------------------------
EXTENDS SessionRegistry, TLC

\* Hosts, connections and session ids are interchangeable.
Symmetry == Permutations(Conn) \cup Permutations(Host) \cup Permutations(Sid)
=============================================================================
