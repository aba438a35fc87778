-------------------------------- MODULE Lookup --------------------------------
(***************************************************************************)
(* What service discovery promises between nodes, however it is done: a    *)
(* node that does not have a service may look it up; it waits, does        *)
(* nothing else in between, and is told once, of nobody or of a node that  *)
(* offers a service it has looked for.  Being told of an earlier lookup's  *)
(* service is within the promise (answers may come late), being told of a  *)
(* node that never offered any of them is not.  RemoteDiscovery is shown   *)
(* to implement it.                                                        *)
(***************************************************************************)
CONSTANTS
  Nodes,     \* the nodes
  Services,  \* what they may offer
  Common,    \* the service a node may be told of without having named it
  None       \* no node

VARIABLES
  offered,  \* the services of each node
  wanted,   \* the services each node may be told of
  waiting,  \* the nodes that are looking something up
  told,     \* the node each was told of last, or None
  alive     \* the nodes whose process is running

vars == <<offered, wanted, waiting, told, alive>>

Init ==
  /\ offered = [n \in Nodes |-> {}]
  /\ wanted = [n \in Nodes |-> {Common}]
  /\ waiting = {}
  /\ told = [n \in Nodes |-> None]
  /\ alive = Nodes

\* A service comes into being, and stays.
Provide(n, s) ==
  /\ n \in alive \ waiting
  /\ offered' = [offered EXCEPT ![n] = @ \cup {s}]
  /\ UNCHANGED <<wanted, waiting, told, alive>>

LookUp(n, s) ==
  /\ n \in alive \ waiting
  /\ s \notin offered[n]
  /\ wanted' = [wanted EXCEPT ![n] = @ \cup {s}]
  /\ waiting' = waiting \cup {n}
  /\ UNCHANGED <<offered, told, alive>>

Offers(m, n) == offered[m] \cap wanted[n] # {}

Tell(n, m) ==
  /\ n \in alive \cap waiting
  /\ m # None => Offers(m, n)
  /\ waiting' = waiting \ {n}
  /\ told' = [told EXCEPT ![n] = m]
  /\ UNCHANGED <<offered, wanted, alive>>

\* A process ends, in the middle of a lookup or not.
End(n) ==
  /\ n \in alive
  /\ alive' = alive \ {n}
  /\ UNCHANGED <<offered, wanted, waiting, told>>

Next ==
  \E n \in Nodes :
    \/ \E s \in Services : Provide(n, s) \/ LookUp(n, s)
    \/ \E m \in Nodes \cup {None} : Tell(n, m)
    \/ End(n)

Spec == Init /\ [][Next]_vars
=============================================================================
