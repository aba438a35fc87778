------------------------------ MODULE MCSDMaster ------------------------------
(* Instances of SDMaster for TLC. *)
EXTENDS SDMaster

CONSTANTS c1, c2, s1

\* Two finders and a registrar that all mean service 1 ...
SameService == [c \in Clients |-> 1]

\* ... or finders of two services of which only one is announced.
TwoServices == [c \in Clients |-> IF c = c2 THEN 2 ELSE 1]

OneEach == [c \in Clients |-> 1]
=============================================================================
