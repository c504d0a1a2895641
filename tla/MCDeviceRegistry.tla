-------------------------- MODULE MCDeviceRegistry --------------------------
EXTENDS HostEnrolment, TLC

CONSTANT MaxMinted

\* Devices, credentials and workers are interchangeable.
Symmetry == Permutations(Device) \cup Permutations(Cred) \cup Permutations(Worker)

MCBound == clients = "any" => Cardinality(minted) <= MaxMinted
=============================================================================
