--------------------------- MODULE MCRemoteDiscovery ---------------------------
(* Instances of RemoteDiscovery for TLC. *)
EXTENDS RemoteDiscovery

CONSTANTS n1, n2, n3

\* Each node asks twice.
TwoEach == [n \in Nodes |-> 2]
=============================================================================
