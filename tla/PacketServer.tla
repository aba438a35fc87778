---------------------------- MODULE PacketServer ----------------------------
(***************************************************************************)
(* What a server promises clients that send it packets on streams of their *)
(* own: the packets of a connection are taken one by one, each once and    *)
(* whole, in the order they were put, and a connection is dropped only     *)
(* when it has broken, or has ended with nothing of it left to take.  The  *)
(* promise is to orderly clients: one that puts something the server       *)
(* cannot read is spoiled for good, and only its connection still counts.  *)
(* TcpServer is shown to implement it.                                     *)
(***************************************************************************)
EXTENDS Naturals, Sequences

CONSTANTS
  Clients,  \* the clients of the server
  Sizes     \* the sizes packets have

VARIABLES
  orderly,  \* the clients whose packets the server can read
  put,      \* the sizes of the packets each orderly client has put
  taken,    \* the sizes of those the server has taken
  link,     \* the server's end of each connection: "none", "up" or "down"
  over,     \* how each connection has ended: "no", "fin" or "reset"
  up        \* whether the server runs

vars == <<orderly, put, taken, link, over, up>>

Init ==
  /\ orderly \subseteq Clients
  /\ put = [c \in Clients |-> <<>>]
  /\ taken = [c \in Clients |-> <<>>]
  /\ link = [c \in Clients |-> "none"]
  /\ over = [c \in Clients |-> "no"]
  /\ up = TRUE

\* A client puts a packet, possibly before the server has its connection.
Put(c) ==
  /\ up /\ over[c] = "no" /\ c \in orderly
  /\ \E n \in Sizes : put' = [put EXCEPT ![c] = Append(@, n)]
  /\ UNCHANGED <<orderly, taken, link, over, up>>

\* Or something the server cannot read.
Spoil(c) ==
  /\ up /\ over[c] = "no" /\ c \in orderly
  /\ orderly' = orderly \ {c}
  /\ put' = [put EXCEPT ![c] = <<>>]
  /\ taken' = [taken EXCEPT ![c] = <<>>]
  /\ UNCHANGED <<link, over, up>>

\* The server takes over a connection.
Establish(c) ==
  /\ up /\ link[c] = "none"
  /\ link' = [link EXCEPT ![c] = "up"]
  /\ UNCHANGED <<orderly, put, taken, over, up>>

\* The server takes the next packet.
Take(c) ==
  /\ up /\ link[c] = "up" /\ c \in orderly
  /\ Len(taken[c]) < Len(put[c])
  /\ taken' = [taken EXCEPT ![c] = Append(@, put[c][Len(@) + 1])]
  /\ UNCHANGED <<orderly, put, link, over, up>>

\* The connection ends, or breaks, and the server's kernel knows.
Finish(c) ==
  /\ up /\ over[c] = "no"
  /\ \E how \in {"fin", "reset"} : over' = [over EXCEPT ![c] = how]
  /\ UNCHANGED <<orderly, put, taken, link, up>>

\* The server drops a connection.
Drop(c) ==
  /\ up /\ link[c] = "up"
  /\ over[c] = "reset" \/ (over[c] = "fin" /\ taken[c] = put[c])
  /\ link' = [link EXCEPT ![c] = "down"]
  /\ UNCHANGED <<orderly, put, taken, over, up>>

\* The server ends.
End ==
  /\ up
  /\ up' = FALSE
  /\ UNCHANGED <<orderly, put, taken, link, over>>

Next ==
  \/ End
  \/ \E c \in Clients :
       Put(c) \/ Spoil(c) \/ Establish(c) \/ Take(c) \/ Finish(c) \/ Drop(c)

Spec == Init /\ [][Next]_vars
=============================================================================
