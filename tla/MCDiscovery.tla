------------------------------ MODULE MCDiscovery ------------------------------
(* Instances of Discovery for TLC. *)
EXTENDS Discovery

CONSTANTS here, there, f1, f2, s1

OneEach == [c \in Clients |-> 1]
SameService == [c \in Clients |-> 0]

\* As many queries as Here has finders; the others only answer.
EnoughQueries == [n \in Nodes |-> IF n = Here THEN 2 ELSE 0]
=============================================================================
