----------------------------- MODULE MCUdsServer -----------------------------
(* Instances of UdsServer for TLC. *)
EXTENDS UdsServer, TLC

CONSTANTS c1, c2, c3

\* One client sends two requests, one sends one, and one only connects ...
Uneven == (c1 :> 2) @@ (c2 :> 1) @@ (c3 :> 0)

\* ... or each sends one.
OneEach == [c \in Clients |-> 1]
=============================================================================
