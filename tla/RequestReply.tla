----------------------------- MODULE RequestReply -----------------------------
(***************************************************************************)
(* What a request/reply server promises its clients, whatever it is built  *)
(* on: requests are handled one at a time, a connection has at most one    *)
(* request whose reply is outstanding, every reply follows a request, and  *)
(* a connection that has been dropped is never served again.  UdsServer is *)
(* shown to implement it.                                                  *)
(***************************************************************************)
EXTENDS Naturals

CONSTANTS
  Clients,   \* the clients of the server
  None       \* no client, whose request could be being handled

VARIABLES
  link,      \* the server's end of each connection: "none", "up" or "down"
  asked,     \* requests sent by each client
  accepted,  \* requests the server has read from each client
  answered,  \* replies the server has sent to each client
  serving,   \* the client whose request is being handled, or None
  up         \* whether the server process is alive

vars == <<link, asked, accepted, answered, serving, up>>

Init ==
  /\ link = [c \in Clients |-> "none"]
  /\ asked = [c \in Clients |-> 0]
  /\ accepted = [c \in Clients |-> 0]
  /\ answered = [c \in Clients |-> 0]
  /\ serving = None
  /\ up = TRUE

\* A client sends a request, possibly before the server has its connection.
Ask(c) ==
  /\ up /\ link[c] # "down"
  /\ asked' = [asked EXCEPT ![c] = @ + 1]
  /\ UNCHANGED <<link, accepted, answered, serving, up>>

\* The server takes over one connection.
Establish(c) ==
  /\ up /\ serving = None /\ link[c] = "none"
  /\ link' = [link EXCEPT ![c] = "up"]
  /\ UNCHANGED <<asked, accepted, answered, serving, up>>

\* The server reads a request, only when it owes the connection no reply.
Take(c) ==
  /\ up /\ serving = None /\ link[c] = "up"
  /\ accepted[c] < asked[c] /\ accepted[c] = answered[c]
  /\ accepted' = [accepted EXCEPT ![c] = @ + 1]
  /\ serving' = c
  /\ UNCHANGED <<link, asked, answered, up>>

\* The request has been handled.
Finish ==
  /\ up /\ serving # None
  /\ serving' = None
  /\ UNCHANGED <<link, asked, accepted, answered, up>>

\* The reply goes out.
Answer(c) ==
  /\ up /\ serving = None /\ link[c] = "up"
  /\ answered[c] < accepted[c]
  /\ answered' = [answered EXCEPT ![c] = @ + 1]
  /\ UNCHANGED <<link, asked, accepted, serving, up>>

\* The server drops a connection.
Drop(c) ==
  /\ up /\ serving = None /\ link[c] = "up"
  /\ link' = [link EXCEPT ![c] = "down"]
  /\ UNCHANGED <<asked, accepted, answered, serving, up>>

\* The server process ends.
Crash ==
  /\ up
  /\ up' = FALSE
  /\ serving' = None
  /\ UNCHANGED <<link, asked, accepted, answered>>

Next ==
  \/ Finish
  \/ Crash
  \/ \E c \in Clients : Ask(c) \/ Establish(c) \/ Take(c) \/ Answer(c) \/ Drop(c)

Spec == Init /\ [][Next]_vars
=============================================================================
