----------------------------- MODULE MCTcpServer -----------------------------
(* Instances of TcpServer for TLC. *)
EXTENDS TcpServer

CONSTANTS c1, c2

\* Packets for Send, where type and size of those of c2 differ, and the greeting of
\* SendMsg, whose type is 0.
Packet(t, n) == [type |-> t, size |-> n]
Sendable == [c \in Clients |-> {Packet(IF c = c1 THEN 1 ELSE 2, 1)}]
Greeting == Packet(0, 12)

\* c1 sends two packets and c2 one.
Few == [c \in Clients |-> IF c = c1 THEN 2 ELSE 1]

\* Pieces of c1 end with a word, those of c2 also in the middle of the type.
Pieces == [c \in Clients |-> IF c = c1 THEN {Word} ELSE {2, Header}]
=============================================================================
