---------------------------- MODULE RemoteDiscovery ----------------------------
(***************************************************************************)
(* The UDP side of the service discovery masters, one per node: a master   *)
(* that does not know a service asks the others through udp::UdpClient and *)
(* waits for one datagram (remote_find_service); a master that is asked    *)
(* answers through udp::UpdServer (process_remote_find_service).           *)
(*                                                                         *)
(* Nothing calls UpdServer::recv_data at this commit: the loop that did is *)
(* commented out in UpdServer::run, and Start of the master does not start *)
(* the UDP server.  Serving is the set of nodes on which something does,   *)
(* so the program as it stands is the instance with Serving = {}.          *)
(*                                                                         *)
(* Datagrams may be lost and overtake each other.  The finders whose       *)
(* requests start the queries are in SDMaster; here they send the whole    *)
(* package, and ask for any service.                                       *)
(***************************************************************************)
EXTENDS Naturals, Sequences

CONSTANTS
  Nodes,       \* the masters
  Serving,     \* the nodes on which UpdServer::recv_data runs
  Services,    \* service ids; a query that arrives cut short asks for 0
  Memory,      \* what header.data_size of an unset send_buffer_ may be
  MaxQueries,  \* bound: queries of each node
  None         \* no node, no service, no answer

\* How far a packet's data_size reaches: to the end of its header, of the
\* package type, of the service id, of the address, past MAX_UDP_DATA_SIZE, or
\* past everything a packet can have.
Extents == {"header", "type", "id", "address", "long", "beyond"}
HasType(e) == e # "header"
HasId(e) == e \notin {"header", "type"}
HasAddress(e) == e = "address"
TooLong(e) == e \in {"long", "beyond"}

\* What a node takes: who answered, about which service, which one it had asked
\* for, and whose address it then finds in recv_buffer_.
Answer == [from : Nodes, service : Services, wanted : Services,
           address : Nodes \cup {None}]

ASSUME RemoteAssumption ==
  /\ Serving \subseteq Nodes
  /\ 0 \in Services /\ Services \subseteq Nat
  /\ Memory \subseteq Extents
  /\ MaxQueries \in [Nodes -> Nat]
  /\ None \notin Nodes /\ None \notin Services /\ None \notin Answer
  /\ "group" \notin Nodes

VARIABLES
  up,                  \* the nodes whose process is alive
  local_service_map_,  \* the services registered on each node
  data_size,           \* header.data_size of each node's send_buffer_
  server_addr_,        \* where each node's UdpClient sends: "group" or a node
  recv_buffer_,        \* the node whose address is in recv_buffer_, or None
  asking,              \* the service a node waits for in UdpClient::Recv, or None
  asked,               \* the services each node has sent queries for
  found,               \* the latest answer each node took, or None
  net,                 \* datagrams on their way
  lost                 \* whether the network has lost one

vars == <<up, local_service_map_, data_size, server_addr_, recv_buffer_,
          asking, asked, found, net, lost>>

Find == [kind : {"FIND"}, from : Nodes, to : Nodes, query : Nat \ {0},
         service : Services, extent : Extents]
Offer == [kind : {"OFFER"}, from : Nodes, to : Nodes, query : Nat \ {0},
          service : Services, extent : Extents]

\* The constructor's server_addr_ is the multicast group, and both buffers of
\* the master are uninitialized.
Init ==
  /\ up = Nodes
  /\ local_service_map_ = [n \in Nodes |-> {}]
  /\ data_size \in [Nodes -> Memory]
  /\ server_addr_ = [n \in Nodes |-> "group"]
  /\ recv_buffer_ = [n \in Nodes |-> None]
  /\ asking = [n \in Nodes |-> None]
  /\ asked = [n \in Nodes |-> <<>>]
  /\ found = [n \in Nodes |-> None]
  /\ net = {}
  /\ lost = FALSE

----------------------------------------------------------------------------
(* The epoll thread of a master. *)

\* A local registration; the thread is not waiting for an answer.
Register(n, s) ==
  /\ n \in up /\ asking[n] = None
  /\ local_service_map_' = [local_service_map_ EXCEPT ![n] = @ \cup {s}]
  /\ UNCHANGED <<up, data_size, server_addr_, recv_buffer_, asking, asked, found, net, lost>>

\* Every member of the group gets a copy, the sender's own UpdServer too: it is
\* the server's socket that IP_MULTICAST_LOOP is cleared on, not the client's.
Destinations(n) == IF server_addr_[n] = "group" THEN Nodes ELSE {server_addr_[n]}

\* remote_find_service, up to UdpClient::Recv.
Query(n, s) ==
  /\ n \in up /\ asking[n] = None
  /\ s \notin local_service_map_[n]
  /\ Len(asked[n]) < MaxQueries[n]
  /\ asked' = [asked EXCEPT ![n] = Append(@, s)]
  /\ asking' = [asking EXCEPT ![n] = s]
  /\ net' = net \cup [kind : {"FIND"}, from : {n}, to : Destinations(n),
                      query : {Len(asked[n]) + 1}, service : {s}, extent : {data_size[n]}]
  /\ UNCHANGED <<up, local_service_map_, data_size, server_addr_, recv_buffer_, found, lost>>

\* The process of the master ends, at any point: UdpClient::Send throws, which
\* nothing catches, the epoll loop calls exit(1), or somebody kills it.
Ends(n) ==
  /\ n \in up
  /\ up' = up \ {n}
  /\ UNCHANGED <<local_service_map_, data_size, server_addr_, recv_buffer_,
                 asking, asked, found, net, lost>>

\* Faulty variant: the wait is over before its answer is recorded.
ReceiveTooLate(n, d) ==
  LET address == IF HasAddress(d.extent) THEN d.from ELSE recv_buffer_[n] IN
  /\ n \in up /\ asking[n] # None
  /\ d \in net /\ d.kind = "OFFER" /\ d.to = n
  /\ net' = net \ {d}
  /\ server_addr_' = [server_addr_ EXCEPT ![n] = d.from]
  /\ recv_buffer_' = [recv_buffer_ EXCEPT ![n] = address]
  /\ asking' = [asking EXCEPT ![n] = None]
  /\ found' = [found EXCEPT ![n] = [from |-> d.from, service |-> d.service,
                                    wanted |-> asking'[n], address |-> address]]
  /\ UNCHANGED <<up, local_service_map_, data_size, asked, lost>>

\* recvfrom returns and stores the sender's address in server_addr_.  The first
\* offer ends the wait, whichever query it answers; what it is too short to
\* bring is read from what recv_buffer_ held before.
Receive(n, d) ==
  LET address == IF HasAddress(d.extent) THEN d.from ELSE recv_buffer_[n] IN
  /\ n \in up /\ asking[n] # None
  /\ d \in net /\ d.kind = "OFFER" /\ d.to = n
  /\ net' = net \ {d}
  /\ server_addr_' = [server_addr_ EXCEPT ![n] = d.from]
  /\ recv_buffer_' = [recv_buffer_ EXCEPT ![n] = address]
  /\ found' = [found EXCEPT ![n] = [from |-> d.from, service |-> d.service,
                                    wanted |-> asking[n], address |-> address]]
  /\ asking' = [asking EXCEPT ![n] = None]
  /\ UNCHANGED <<up, local_service_map_, data_size, asked, lost>>

----------------------------------------------------------------------------
(* UpdServer::recv_data and process_remote_find_service, in Serving. *)

Hears(m, d) ==
  /\ m \in up \cap Serving
  /\ d \in net /\ d.kind = "FIND" /\ d.to = m

\* The buffer is cleared before the datagram is read: what is missing is zero.
Requested(d) == IF HasId(d.extent) THEN d.service ELSE 0

\* Faulty variant: any registered service will do.
KnowsSome(m, d) == HasType(d.extent) /\ local_service_map_[m] # {}

Knows(m, d) == HasType(d.extent) /\ Requested(d) \in local_service_map_[m]

\* Faulty variant: the reply is prepared and not sent.
ReplyUnsent(m, d) ==
  /\ Hears(m, d)
  /\ ~TooLong(d.extent) /\ Knows(m, d)
  /\ data_size' = [data_size EXCEPT ![m] = "type"]
  /\ net' = net \ {d}
  /\ UNCHANGED <<up, local_service_map_, server_addr_, recv_buffer_, asking, asked, found, lost>>

\* The service is registered here.  The offer is written over the query, and
\* goes out with the query's data_size; the one that is set is send_buffer_'s.
Reply(m, d) ==
  LET offer == [kind |-> "OFFER", from |-> m, to |-> d.from, query |-> d.query,
                service |-> Requested(d), extent |-> d.extent] IN
  /\ Hears(m, d)
  /\ ~TooLong(d.extent) /\ Knows(m, d)
  /\ data_size' = [data_size EXCEPT ![m] = "type"]
  /\ net' = (net \ {d}) \cup {offer}
  /\ UNCHANGED <<up, local_service_map_, server_addr_, recv_buffer_, asking, asked, found, lost>>

\* It is not, or the query is too short to be one.
NoReply(m, d) ==
  /\ Hears(m, d)
  /\ ~TooLong(d.extent) /\ ~Knows(m, d)
  /\ net' = net \ {d}
  /\ UNCHANGED <<up, local_service_map_, data_size, server_addr_, recv_buffer_,
                 asking, asked, found, lost>>

\* A datagram that does not fit the buffer, or whose length wrapped round, is not
\* as long as its header says: recv_data throws, and the process ends.
HearsTooMuch(m, d) ==
  /\ Hears(m, d)
  /\ TooLong(d.extent)
  /\ net' = net \ {d}
  /\ up' = up \ {m}
  /\ UNCHANGED <<local_service_map_, data_size, server_addr_, recv_buffer_,
                 asking, asked, found, lost>>

Handle(m, d) == Reply(m, d) \/ NoReply(m, d) \/ HearsTooMuch(m, d)

\* The network loses a datagram.
Lose(d) ==
  /\ net' = net \ {d}
  /\ lost' = TRUE
  /\ UNCHANGED <<up, local_service_map_, data_size, server_addr_, recv_buffer_,
                 asking, asked, found>>

----------------------------------------------------------------------------
NodeNext(n) ==
  \/ \E s \in Services : Register(n, s) \/ Query(n, s)
  \/ Ends(n)
  \/ \E d \in net : Receive(n, d) \/ Handle(n, d)

Next == (\E n \in Nodes : NodeNext(n)) \/ (\E d \in net : Lose(d))

Spec == Init /\ [][Next]_vars

\* The threads run when they have a datagram.
FairSpec ==
  /\ Spec
  /\ \A n \in Nodes : /\ WF_vars(\E d \in net : Receive(n, d))
                      /\ WF_vars(\E d \in net : Handle(n, d))

(***************************************************************************)
(* Properties.                                                             *)
(***************************************************************************)
TypeOK ==
  /\ up \subseteq Nodes
  /\ local_service_map_ \in [Nodes -> SUBSET Services]
  /\ data_size \in [Nodes -> Extents]
  /\ server_addr_ \in [Nodes -> Nodes \cup {"group"}]
  /\ recv_buffer_ \in [Nodes -> Nodes \cup {None}]
  /\ asking \in [Nodes -> Services \cup {None}]
  /\ asked \in [Nodes -> Seq(Services)]
  /\ found \in [Nodes -> Answer \cup {None}]
  /\ net \subseteq Find \cup Offer
  /\ lost \in BOOLEAN

\* What node n may have asked for, given that queries may arrive cut short.
Wanted(n) == {0} \cup {asked[n][i] : i \in 1..Len(asked[n])}

\* No answer out of thin air: however datagrams are lost, delayed or overtaken,
\* the node an answer names, the node later queries go to and the node whose
\* address is handed to the finder each have a service that was asked for here.
AnswersAreEarned ==
  \A n \in Nodes :
    /\ found[n] # None =>
         /\ found[n].service \in local_service_map_[found[n].from] \cap Wanted(n)
         /\ server_addr_[n] = found[n].from
    /\ recv_buffer_[n] # None => local_service_map_[recv_buffer_[n]] \cap Wanted(n) # {}

\* The masters, seen from what they know of each other.
Looking == {n \in Nodes : asking[n] # None}
Wants == [n \in Nodes |-> Wanted(n)]

LU == INSTANCE Lookup WITH
        offered <- local_service_map_, wanted <- Wants, waiting <- Looking,
        told <- recv_buffer_, alive <- up, Common <- 0

\* The masters implement lookup between nodes: with datagrams lost, delayed and
\* overtaken, cut short or too long, and masters that end at any point, a wait
\* ends at most once, and recv_buffer_ names nobody who does not offer a service
\* that was asked for here.
ImplementsLookup == LU!Spec

\* The first answer a node takes, if it brings an address, is about the service
\* it asked for and from a node that has it.  (Later ones may be late answers
\* to an earlier query.)
FirstAnswerRight ==
  \A n \in Nodes :
    Len(asked[n]) = 1 /\ found[n] # None /\ found[n].address # None =>
      /\ found[n].service = found[n].wanted
      /\ found[n].address = found[n].from
      /\ found[n].wanted \in local_service_map_[found[n].from]

\* The latest query of node n, whole, is on its way to m, which has the service.
Reaches(n, m) ==
  /\ m \in up
  /\ \E d \in net : /\ d.kind = "FIND" /\ d.from = n /\ d.to = m
                    /\ d.query = Len(asked[n])
                    /\ HasAddress(d.extent) /\ d.service \in local_service_map_[m]

\* If the network delivers, a query that reaches a node which has the service
\* and handles datagrams ends the wait of the node that sent it.
ReachedQueryEnds ==
  \A n \in Nodes : \A m \in Serving :
    Reaches(n, m) ~> (asking[n] = None \/ n \notin up \/ m \notin up \/ lost)

\* The same step by step, for every step of anybody: once a query has reached a
\* node which has the service, or an offer is on its way back, that stays so
\* until the wait is over.  No handler drops a query it could answer, and nobody
\* else takes the offer.
Promised(n, m) == Reaches(n, m) \/ \E d \in net : d.kind = "OFFER" /\ d.to = n

AnswerOnItsWay ==
  [][\A n \in Nodes : \A m \in Serving :
       asking[n] # None /\ Promised(n, m) =>
         \/ asking'[n] = asking[n] /\ Promised(n, m)'
         \/ asking'[n] = None
         \/ m \notin up' \/ lost']_vars

\* Every query is sent to the whole group.
QueriesAreMulticast ==
  [][\A n \in Nodes : Len(asked'[n]) > Len(asked[n]) =>
       \A m \in Nodes : \E d \in net' :
         d.kind = "FIND" /\ d.from = n /\ d.to = m /\ d.query = Len(asked'[n])]_vars

\* What holds instead: until its first answer a node asks the whole group, and
\* from then on nobody but the node it took the latest answer from.
SentTo(n) == {d.to : d \in {e \in net : /\ e.kind = "FIND" /\ e.from = n
                                      /\ e.query = Len(asked[n])}}

QueriesFollowAnswers ==
  [][\A n \in Nodes : Len(asked'[n]) > Len(asked[n]) =>
       SentTo(n)' = IF found[n] = None THEN Nodes ELSE {found[n].from}]_vars
=============================================================================
