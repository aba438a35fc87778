------------------------- MODULE RemoteDiscoveryProofs -------------------------
(***************************************************************************)
(* Proofs about RemoteDiscovery for any nodes, services and contents of    *)
(* the unset header, however datagrams are lost and overtake each other.   *)
(***************************************************************************)
EXTENDS RemoteDiscovery, Integers, TLAPS

\* A node waits for the answer to its latest query.
WaitsForLatest ==
  \A n \in Nodes : asking[n] # None =>
    Len(asked[n]) > 0 /\ asking[n] = asked[n][Len(asked[n])]

\* A query on its way is one its sender asked.
QueriesKnown ==
  \A d \in net : d.kind = "FIND" =>
    d.query \in 1..Len(asked[d.from]) /\ d.service = asked[d.from][d.query]

\* An offer on its way is for a query of its receiver, and its sender has the
\* service; it can be about another service only if it brings no address.
OffersKnown ==
  \A d \in net : d.kind = "OFFER" =>
    /\ d.query \in 1..Len(asked[d.to])
    /\ d.service \in local_service_map_[d.from]
    /\ d.service \in {0, asked[d.to][d.query]}
    /\ HasAddress(d.extent) => d.service = asked[d.to][d.query]

\* Before its first answer a node holds nothing of an earlier one.
NothingBeforeFirst ==
  \A n \in Nodes :
    Len(asked[n]) = 0 \/ (Len(asked[n]) = 1 /\ asking[n] # None) =>
      found[n] = None /\ recv_buffer_[n] = None

RDInv ==
  /\ TypeOK
  /\ WaitsForLatest
  /\ QueriesKnown
  /\ OffersKnown
  /\ NothingBeforeFirst
  /\ AnswersAreEarned
  /\ FirstAnswerRight

-----------------------------------------------------------------------------
\* The services asked for are never forgotten.
LEMMA AskedGrows ==
  ASSUME TypeOK, [Next]_vars
  PROVE  \A n \in Nodes : /\ Len(asked'[n]) >= Len(asked[n])
                          /\ \A i \in 1..Len(asked[n]) : asked'[n][i] = asked[n][i]
<1>1. CASE UNCHANGED asked
  BY <1>1 DEF TypeOK
<1>2. ASSUME NEW n \in Nodes, NEW s \in Services, Query(n, s)
      PROVE  \A m \in Nodes : /\ Len(asked'[m]) >= Len(asked[m])
                              /\ \A i \in 1..Len(asked[m]) : asked'[m][i] = asked[m][i]
  <2>1. asked' = [asked EXCEPT ![n] = Append(@, s)]
    BY <1>2 DEF Query
  <2> QED
    BY <2>1 DEF TypeOK
<1>3. UNCHANGED asked \/ \E n \in Nodes, s \in Services : Query(n, s)
  BY DEF Next, NodeNext, vars, Register, Ends, Receive, Handle, Reply, NoReply,
         HearsTooMuch, Lose
<1> QED
  BY <1>1, <1>2, <1>3

\* Services are never unregistered.
LEMMA MapGrows ==
  ASSUME TypeOK, [Next]_vars
  PROVE  \A n \in Nodes : local_service_map_[n] \subseteq local_service_map_'[n]
<1>1. UNCHANGED local_service_map_ \/ \E n \in Nodes, s \in Services : Register(n, s)
  BY DEF Next, NodeNext, vars, Query, Ends, Receive, Handle, Reply, NoReply,
         HearsTooMuch, Lose
<1>2. ASSUME NEW n \in Nodes, NEW s \in Services, Register(n, s)
      PROVE  local_service_map_' = [local_service_map_ EXCEPT ![n] = @ \cup {s}]
  BY <1>2 DEF Register
<1>3. ASSUME NEW m \in Nodes, NEW s \in Services,
             local_service_map_' = [local_service_map_ EXCEPT ![m] = @ \cup {s}]
      PROVE  \A n \in Nodes : local_service_map_[n] \subseteq local_service_map_'[n]
  BY <1>3 DEF TypeOK
<1> QED
  BY <1>1, <1>2, <1>3

-----------------------------------------------------------------------------
LEMMA TypeInit == Init => TypeOK
<1> SUFFICES ASSUME Init PROVE TypeOK
  OBVIOUS
<1> USE RemoteAssumption DEF Init
<1>1. data_size \in [Nodes -> Extents]
  OBVIOUS
<1>2. asked \in [Nodes -> Seq(Services)]
  OBVIOUS
<1> QED
  BY <1>1, <1>2 DEF TypeOK

LEMMA TypeStep == TypeOK /\ [Next]_vars => TypeOK'
<1> SUFFICES ASSUME TypeOK, [Next]_vars PROVE TypeOK'
  OBVIOUS
<1> USE RemoteAssumption DEF TypeOK
<1>1. ASSUME NEW n \in Nodes, NEW s \in Services, Register(n, s) PROVE TypeOK'
  BY <1>1 DEF Register
<1>2. ASSUME NEW n \in Nodes, NEW s \in Services, Query(n, s) PROVE TypeOK'
  <2>1. asked' \in [Nodes -> Seq(Services)]
    BY <1>2 DEF Query
  <2>2. net' \subseteq Find \cup Offer
    <3>1. Destinations(n) \subseteq Nodes
      BY DEF Destinations
    <3>2. Len(asked[n]) + 1 \in Nat \ {0}
      BY <1>2 DEF Query
    <3>3. [kind : {"FIND"}, from : {n}, to : Destinations(n),
           query : {Len(asked[n]) + 1}, service : {s}, extent : {data_size[n]}]
            \subseteq Find
      BY <3>1, <3>2 DEF Find
    <3> QED
      BY <1>2, <3>3 DEF Query
  <2> QED
    BY <1>2, <2>1, <2>2 DEF Query
<1>3. ASSUME NEW n \in Nodes, Ends(n) PROVE TypeOK'
  BY <1>3 DEF Ends
<1>4. ASSUME NEW n \in Nodes, NEW d \in net, Receive(n, d) PROVE TypeOK'
  <2>1. d.from \in Nodes /\ d.service \in Services
    BY DEF Find, Offer
  <2>2. asking[n] \in Services
    BY <1>4 DEF Receive
  <2>3. DEFINE address == IF HasAddress(d.extent) THEN d.from ELSE recv_buffer_[n]
  <2>4. address \in Nodes \cup {None}
    BY <2>1
  <2>5. [from |-> d.from, service |-> d.service, wanted |-> asking[n],
         address |-> address] \in Answer
    BY <2>1, <2>2, <2>4 DEF Answer
  <2>6. /\ found' = [found EXCEPT ![n] = [from |-> d.from, service |-> d.service,
                                          wanted |-> asking[n], address |-> address]]
        /\ recv_buffer_' = [recv_buffer_ EXCEPT ![n] = address]
    BY <1>4 DEF Receive
  <2> HIDE DEF address
  <2>7. found' \in [Nodes -> Answer \cup {None}] /\ recv_buffer_' \in [Nodes -> Nodes \cup {None}]
    BY <2>4, <2>5, <2>6
  <2> QED
    BY <1>4, <2>1, <2>7 DEF Receive
<1>5. ASSUME NEW m \in Nodes, NEW d \in net, Reply(m, d) PROVE TypeOK'
  <2>1. d \in Find
    BY <1>5 DEF Reply, Hears, Find, Offer
  <2>2. Requested(d) \in Services
    BY <2>1 DEF Requested, Find
  <2>3. [kind |-> "OFFER", from |-> m, to |-> d.from, query |-> d.query,
         service |-> Requested(d), extent |-> d.extent] \in Offer
    BY <2>1, <2>2 DEF Find, Offer
  <2> QED
    BY <1>5, <2>3 DEF Reply, Extents
<1>6. ASSUME NEW m \in Nodes, NEW d \in net, NoReply(m, d) \/ HearsTooMuch(m, d) PROVE TypeOK'
  BY <1>6 DEF NoReply, HearsTooMuch
<1>7. ASSUME NEW d \in net, Lose(d) PROVE TypeOK'
  BY <1>7 DEF Lose
<1>8. CASE UNCHANGED vars
  BY <1>8 DEF vars
<1> QED
  BY <1>1, <1>2, <1>3, <1>4, <1>5, <1>6, <1>7, <1>8 DEF Next, NodeNext, Handle

\* The variables keep their types: in particular every datagram is a query or an
\* offer between two nodes, about a service.
THEOREM RemoteTypeCorrect == Spec => []TypeOK
<1>1. Init => TypeOK
  BY TypeInit
<1>2. TypeOK /\ [Next]_vars => TypeOK'
  BY TypeStep
<1> QED
  BY <1>1, <1>2, PTL DEF Spec

-----------------------------------------------------------------------------
LEMMA InvInit == Init => RDInv
<1> SUFFICES ASSUME Init PROVE RDInv
  OBVIOUS
<1>1. TypeOK
  BY TypeInit
<1>2. WaitsForLatest /\ NothingBeforeFirst
  BY DEF Init, WaitsForLatest, NothingBeforeFirst
<1>3. QueriesKnown /\ OffersKnown
  BY DEF Init, QueriesKnown, OffersKnown
<1>4. AnswersAreEarned /\ FirstAnswerRight
  BY DEF Init, AnswersAreEarned, FirstAnswerRight
<1> QED
  BY <1>1, <1>2, <1>3, <1>4 DEF RDInv

\* Only Query starts a wait, for the service it appends to asked.
LEMMA WaitsForLatestStep == RDInv /\ [Next]_vars => WaitsForLatest'
<1> SUFFICES ASSUME RDInv, [Next]_vars PROVE WaitsForLatest'
  OBVIOUS
<1> USE DEF RDInv
<1>1. ASSUME NEW n \in Nodes, NEW s \in Services, Query(n, s) PROVE WaitsForLatest'
  <2>1. /\ asked' = [asked EXCEPT ![n] = Append(@, s)]
        /\ asking' = [asking EXCEPT ![n] = s]
    BY <1>1 DEF Query
  <2>2. /\ Len(asked'[n]) = Len(asked[n]) + 1 /\ asked'[n][Len(asked[n]) + 1] = s
        /\ Len(asked[n]) \in Nat /\ asking'[n] = s
    BY <2>1 DEF TypeOK
  <2>3. \A m \in Nodes \ {n} : asked'[m] = asked[m] /\ asking'[m] = asking[m]
    BY <2>1 DEF TypeOK
  <2> QED
    BY <2>2, <2>3 DEF WaitsForLatest
<1>2. ASSUME NEW n \in Nodes, NEW d \in net, Receive(n, d) PROVE WaitsForLatest'
  <2>1. asked' = asked /\ asking' = [asking EXCEPT ![n] = None]
    BY <1>2 DEF Receive
  <2> QED
    BY <2>1 DEF WaitsForLatest, TypeOK
<1>3. \/ UNCHANGED <<asked, asking>>
      \/ \E n \in Nodes, s \in Services : Query(n, s)
      \/ \E n \in Nodes, d \in net : Receive(n, d)
  BY DEF Next, NodeNext, vars, Register, Ends, Handle, Reply, NoReply,
         HearsTooMuch, Lose
<1> QED
  BY <1>1, <1>2, <1>3 DEF WaitsForLatest

\* Only Query adds queries to the network.
LEMMA QueriesKnownStep == RDInv /\ [Next]_vars => QueriesKnown'
<1> SUFFICES ASSUME RDInv, [Next]_vars PROVE QueriesKnown'
  OBVIOUS
<1> USE DEF RDInv
<1>0. ASSUME NEW d \in net, d.kind = "FIND"
      PROVE  d.query \in 1..Len(asked'[d.from]) /\ d.service = asked'[d.from][d.query]
  <2>1. d.from \in Nodes
    BY DEF TypeOK, Find, Offer
  <2>2. /\ Len(asked'[d.from]) >= Len(asked[d.from])
        /\ \A i \in 1..Len(asked[d.from]) : asked'[d.from][i] = asked[d.from][i]
    BY <2>1, AskedGrows
  <2>3. Len(asked[d.from]) \in Nat /\ Len(asked'[d.from]) \in Nat
    BY <2>1, TypeStep DEF TypeOK
  <2>4. d.query \in 1..Len(asked[d.from]) /\ d.service = asked[d.from][d.query]
    BY <1>0 DEF QueriesKnown
  <2> QED
    BY <2>2, <2>3, <2>4
<1>1. CASE \A d \in net' : d.kind = "FIND" => d \in net
  BY <1>0, <1>1 DEF QueriesKnown
<1>2. ASSUME NEW n \in Nodes, NEW s \in Services, Query(n, s) PROVE QueriesKnown'
  <2>1. asked' = [asked EXCEPT ![n] = Append(@, s)]
    BY <1>2 DEF Query
  <2>2. /\ Len(asked'[n]) = Len(asked[n]) + 1 /\ asked'[n][Len(asked[n]) + 1] = s
        /\ Len(asked[n]) \in Nat
    BY <2>1 DEF TypeOK
  <2>3. \A d \in net' : \/ d \in net
                        \/ d.from = n /\ d.query = Len(asked[n]) + 1 /\ d.service = s
    BY <1>2 DEF Query
  <2> QED
    BY <1>0, <2>2, <2>3 DEF QueriesKnown
<1>3. \/ \A d \in net' : d.kind = "FIND" => d \in net
      \/ \E n \in Nodes, s \in Services : Query(n, s)
  BY DEF Next, NodeNext, vars, Register, Ends, Receive, Handle, Reply, NoReply,
         HearsTooMuch, Lose
<1> QED
  BY <1>1, <1>2, <1>3

\* Only Reply adds offers to the network, and it knows the service it offers.
LEMMA OffersKnownStep == RDInv /\ [Next]_vars => OffersKnown'
<1> SUFFICES ASSUME RDInv, [Next]_vars PROVE OffersKnown'
  OBVIOUS
<1> USE DEF RDInv
<1>0. ASSUME NEW d \in net, d.kind = "OFFER"
      PROVE  /\ d.query \in 1..Len(asked'[d.to])
             /\ d.service \in local_service_map_'[d.from]
             /\ d.service \in {0, asked'[d.to][d.query]}
             /\ HasAddress(d.extent) => d.service = asked'[d.to][d.query]
  <2>1. d.from \in Nodes /\ d.to \in Nodes
    BY DEF TypeOK, Find, Offer
  <2>2. /\ Len(asked'[d.to]) >= Len(asked[d.to])
        /\ \A i \in 1..Len(asked[d.to]) : asked'[d.to][i] = asked[d.to][i]
    BY <2>1, AskedGrows
  <2>3. Len(asked[d.to]) \in Nat /\ Len(asked'[d.to]) \in Nat
    BY <2>1, TypeStep DEF TypeOK
  <2>4. local_service_map_[d.from] \subseteq local_service_map_'[d.from]
    BY <2>1, MapGrows
  <2>5. /\ d.query \in 1..Len(asked[d.to])
        /\ d.service \in local_service_map_[d.from]
        /\ d.service \in {0, asked[d.to][d.query]}
        /\ HasAddress(d.extent) => d.service = asked[d.to][d.query]
    BY <1>0 DEF OffersKnown
  <2>6. d.query \in 1..Len(asked'[d.to]) /\ asked'[d.to][d.query] = asked[d.to][d.query]
    BY <2>2, <2>3, <2>5
  <2> QED
    BY <2>4, <2>5, <2>6
<1>1. CASE \A d \in net' : d.kind = "OFFER" => d \in net
  BY <1>0, <1>1 DEF OffersKnown
<1>2. ASSUME NEW m \in Nodes, NEW q \in net, Reply(m, q) PROVE OffersKnown'
  <2> DEFINE offer == [kind |-> "OFFER", from |-> m, to |-> q.from, query |-> q.query,
                       service |-> Requested(q), extent |-> q.extent]
  <2>1. \A d \in net' : d \in net \/ d = offer
    BY <1>2 DEF Reply
  <2>2. asked' = asked /\ local_service_map_' = local_service_map_
    BY <1>2 DEF Reply
  <2>3. q.query \in 1..Len(asked[q.from]) /\ q.service = asked[q.from][q.query]
    BY <1>2 DEF Reply, Hears, QueriesKnown
  <2>4. Requested(q) \in local_service_map_[m]
    BY <1>2 DEF Reply, Knows
  <2>5. Requested(q) \in {0, q.service} /\ (HasAddress(q.extent) => Requested(q) = q.service)
    BY DEF Requested, HasId, HasAddress
  <2>6. /\ offer.query \in 1..Len(asked'[offer.to])
        /\ offer.service \in local_service_map_'[offer.from]
        /\ offer.service \in {0, asked'[offer.to][offer.query]}
        /\ HasAddress(offer.extent) => offer.service = asked'[offer.to][offer.query]
    BY <2>2, <2>3, <2>4, <2>5
  <2> HIDE DEF offer
  <2> QED
    BY <1>0, <2>1, <2>6 DEF OffersKnown
<1>3. \/ \A d \in net' : d.kind = "OFFER" => d \in net
      \/ \E m \in Nodes, d \in net : Reply(m, d)
  BY DEF Next, NodeNext, vars, Register, Query, Ends, Receive, Handle, NoReply,
         HearsTooMuch, Lose
<1> QED
  BY <1>1, <1>2, <1>3

-----------------------------------------------------------------------------
\* What an offer brings, to the node it is for.
LEMMA OfferedTo ==
  ASSUME RDInv, NEW n \in Nodes, NEW d \in net, d.kind = "OFFER", d.to = n
  PROVE  /\ d.from \in Nodes
         /\ d.query \in 1..Len(asked[n])
         /\ d.service \in local_service_map_[d.from] \cap Wanted(n)
         /\ HasAddress(d.extent) => d.service = asked[n][d.query]
BY DEF RDInv, TypeOK, OffersKnown, Find, Offer, Wanted

\* What Receive writes.
LEMMA ReceiveWrites ==
  ASSUME RDInv, NEW n \in Nodes, NEW d \in net, Receive(n, d)
  PROVE  /\ asking[n] # None /\ d.kind = "OFFER" /\ d.to = n
         /\ UNCHANGED <<asked, local_service_map_>>
         /\ asking'[n] = None
         /\ server_addr_'[n] = d.from
         /\ found'[n].from = d.from
         /\ found'[n].service = d.service
         /\ found'[n].wanted = asking[n]
         /\ found'[n].address = recv_buffer_'[n]
         /\ recv_buffer_'[n] = IF HasAddress(d.extent) THEN d.from ELSE recv_buffer_[n]
         /\ \A m \in Nodes \ {n} :
              /\ asking'[m] = asking[m] /\ server_addr_'[m] = server_addr_[m]
              /\ found'[m] = found[m] /\ recv_buffer_'[m] = recv_buffer_[m]
<1> USE DEF RDInv
<1>1. asking[n] # None /\ d.kind = "OFFER" /\ d.to = n /\ UNCHANGED <<asked, local_service_map_>>
  BY DEF Receive
<1>2. asking' = [asking EXCEPT ![n] = None] /\ server_addr_' = [server_addr_ EXCEPT ![n] = d.from]
  BY DEF Receive
<1> DEFINE address == IF HasAddress(d.extent) THEN d.from ELSE recv_buffer_[n]
<1>3. /\ recv_buffer_' = [recv_buffer_ EXCEPT ![n] = address]
      /\ found' = [found EXCEPT ![n] = [from |-> d.from, service |-> d.service,
                                        wanted |-> asking[n], address |-> address]]
  BY DEF Receive
<1>4. /\ recv_buffer_'[n] = address
      /\ found'[n] = [from |-> d.from, service |-> d.service,
                      wanted |-> asking[n], address |-> address]
  BY <1>3 DEF TypeOK
<1>5. \A m \in Nodes \ {n} :
        /\ asking'[m] = asking[m] /\ server_addr_'[m] = server_addr_[m]
        /\ found'[m] = found[m] /\ recv_buffer_'[m] = recv_buffer_[m]
  BY <1>2, <1>3 DEF TypeOK
<1>6. asking'[n] = None /\ server_addr_'[n] = d.from
  BY <1>2 DEF TypeOK
<1> QED
  BY <1>1, <1>4, <1>5, <1>6

\* A step other than Receive leaves what the nodes have taken alone.
LEMMA OnlyReceiveTakes ==
  ASSUME [Next]_vars
  PROVE  \/ \E n \in Nodes, d \in net : Receive(n, d)
         \/ UNCHANGED <<found, recv_buffer_, server_addr_>>
BY DEF Next, NodeNext, vars, Register, Query, Ends, Handle, Reply, NoReply,
       HearsTooMuch, Lose

LEMMA NothingBeforeFirstStep == RDInv /\ [Next]_vars => NothingBeforeFirst'
<1> SUFFICES ASSUME RDInv, [Next]_vars PROVE NothingBeforeFirst'
  OBVIOUS
<1>1. ASSUME NEW n \in Nodes, NEW d \in net, Receive(n, d) PROVE NothingBeforeFirst'
  <2>1. Len(asked[n]) # 0
    BY <1>1, ReceiveWrites DEF RDInv, WaitsForLatest, TypeOK
  <2>2. /\ asked' = asked /\ asking'[n] = None
        /\ \A m \in Nodes \ {n} : /\ asking'[m] = asking[m] /\ found'[m] = found[m]
                                  /\ recv_buffer_'[m] = recv_buffer_[m]
    BY <1>1, ReceiveWrites
  <2> QED
    BY <2>1, <2>2 DEF RDInv, NothingBeforeFirst
<1>2. ASSUME NEW n \in Nodes, NEW s \in Services, Query(n, s) PROVE NothingBeforeFirst'
  <2>1. /\ asked' = [asked EXCEPT ![n] = Append(@, s)]
        /\ asking' = [asking EXCEPT ![n] = s]
        /\ UNCHANGED <<found, recv_buffer_>>
    BY <1>2 DEF Query
  <2>2. Len(asked'[n]) = Len(asked[n]) + 1 /\ Len(asked[n]) \in Nat
    BY <2>1 DEF RDInv, TypeOK
  <2>3. \A m \in Nodes \ {n} : asked'[m] = asked[m] /\ asking'[m] = asking[m]
    BY <2>1 DEF RDInv, TypeOK
  <2> QED
    BY <2>1, <2>2, <2>3 DEF RDInv, NothingBeforeFirst
<1>3. \/ UNCHANGED <<asked, asking, found, recv_buffer_>>
      \/ \E n \in Nodes, s \in Services : Query(n, s)
      \/ \E n \in Nodes, d \in net : Receive(n, d)
  BY DEF Next, NodeNext, vars, Register, Ends, Handle, Reply, NoReply,
         HearsTooMuch, Lose
<1> QED
  BY <1>1, <1>2, <1>3 DEF RDInv, NothingBeforeFirst

LEMMA AnswersAreEarnedStep == RDInv /\ [Next]_vars => AnswersAreEarned'
<1> SUFFICES ASSUME RDInv, [Next]_vars PROVE AnswersAreEarned'
  OBVIOUS
<1>1. \A n \in Nodes : Wanted(n) \subseteq Wanted(n)'
  <2> SUFFICES ASSUME NEW n \in Nodes PROVE Wanted(n) \subseteq Wanted(n)'
    OBVIOUS
  <2>1. /\ Len(asked'[n]) >= Len(asked[n])
        /\ \A i \in 1..Len(asked[n]) : asked'[n][i] = asked[n][i]
    BY AskedGrows DEF RDInv
  <2>2. Len(asked[n]) \in Nat /\ Len(asked'[n]) \in Nat
    BY TypeStep DEF RDInv, TypeOK
  <2>3. \A i \in 1..Len(asked[n]) : i \in 1..Len(asked'[n])
    BY <2>1, <2>2
  <2> QED
    BY <2>1, <2>3 DEF Wanted
<1>2. \A n \in Nodes : local_service_map_[n] \subseteq local_service_map_'[n]
  BY MapGrows DEF RDInv
<1>3. \A n \in Nodes : /\ found[n] # None => found[n].from \in Nodes
                       /\ recv_buffer_[n] # None => recv_buffer_[n] \in Nodes
  BY DEF RDInv, TypeOK, Answer
<1>4. \A n \in Nodes :
        /\ found[n] # None =>
             found[n].service \in local_service_map_'[found[n].from] \cap Wanted(n)'
        /\ recv_buffer_[n] # None => local_service_map_'[recv_buffer_[n]] \cap Wanted(n)' # {}
  BY <1>1, <1>2, <1>3 DEF RDInv, AnswersAreEarned
<1>5. CASE UNCHANGED <<found, recv_buffer_, server_addr_>>
  BY <1>4, <1>5 DEF RDInv, AnswersAreEarned
<1>6. ASSUME NEW n \in Nodes, NEW d \in net, Receive(n, d) PROVE AnswersAreEarned'
  <2>1. /\ d.from \in Nodes /\ d.service \in local_service_map_'[d.from] \cap Wanted(n)'
    BY <1>1, <1>2, <1>6, OfferedTo, ReceiveWrites
  <2>2. /\ found'[n].service \in local_service_map_'[found'[n].from] \cap Wanted(n)'
        /\ server_addr_'[n] = found'[n].from
    BY <1>6, <2>1, ReceiveWrites
  <2>3. recv_buffer_'[n] # None => local_service_map_'[recv_buffer_'[n]] \cap Wanted(n)' # {}
    BY <1>4, <1>6, <2>1, ReceiveWrites
  <2>4. \A m \in Nodes \ {n} :
          server_addr_'[m] = server_addr_[m] /\ found'[m] = found[m]
            /\ recv_buffer_'[m] = recv_buffer_[m]
    BY <1>6, ReceiveWrites
  <2>5. \A m \in Nodes : found[m] # None => server_addr_[m] = found[m].from
    BY DEF RDInv, AnswersAreEarned
  <2> QED
    BY <1>4, <2>2, <2>3, <2>4, <2>5 DEF AnswersAreEarned
<1> QED
  BY <1>5, <1>6, OnlyReceiveTakes

LEMMA FirstAnswerRightStep == RDInv /\ [Next]_vars => FirstAnswerRight'
<1> SUFFICES ASSUME RDInv, [Next]_vars PROVE FirstAnswerRight'
  OBVIOUS
<1>0. \A n \in Nodes : Len(asked[n]) \in Nat /\ Len(asked'[n]) \in Nat
  BY TypeStep DEF RDInv, TypeOK
<1>1. CASE UNCHANGED <<found, recv_buffer_, server_addr_>>
  <2> SUFFICES ASSUME NEW n \in Nodes, Len(asked'[n]) = 1,
                      found[n] # None, found[n].address # None
               PROVE  /\ found[n].service = found[n].wanted
                      /\ found[n].address = found[n].from
                      /\ found[n].wanted \in local_service_map_'[found[n].from]
    BY <1>1 DEF FirstAnswerRight
  <2>1. Len(asked[n]) = 1
    <3>1. Len(asked[n]) \in Nat /\ Len(asked[n]) <= 1
      BY <1>0, AskedGrows DEF RDInv
    <3>2. Len(asked[n]) # 0
      BY DEF RDInv, NothingBeforeFirst
    <3>3. \A k \in Nat : k <= 1 /\ k # 0 => k = 1
      OBVIOUS
    <3> QED
      BY <3>1, <3>2, <3>3
  <2>2. found[n].from \in Nodes
    BY DEF RDInv, TypeOK, Answer
  <2> QED
    BY <2>1, <2>2, MapGrows DEF RDInv, FirstAnswerRight
<1>2. ASSUME NEW n \in Nodes, NEW d \in net, Receive(n, d) PROVE FirstAnswerRight'
  <2>1. ASSUME Len(asked[n]) = 1, found'[n].address # None
        PROVE  /\ found'[n].service = found'[n].wanted
               /\ found'[n].address = found'[n].from
               /\ found'[n].wanted \in local_service_map_'[found'[n].from]
    <3>1. recv_buffer_[n] = None
      BY <1>2, <2>1, ReceiveWrites DEF RDInv, NothingBeforeFirst
    <3>2. HasAddress(d.extent) /\ found'[n].address = d.from
      BY <1>2, <2>1, <3>1, ReceiveWrites
    <3>3. d.query = 1 /\ d.service = asked[n][1] /\ d.service \in local_service_map_[d.from]
      BY <1>2, <2>1, <3>2, OfferedTo, ReceiveWrites
    <3>4. asking[n] = asked[n][1]
      BY <1>2, <2>1, ReceiveWrites DEF RDInv, WaitsForLatest
    <3> QED
      BY <1>2, <3>2, <3>3, <3>4, ReceiveWrites
  <2>2. /\ asked' = asked /\ local_service_map_' = local_service_map_
        /\ \A m \in Nodes \ {n} : found'[m] = found[m]
    BY <1>2, ReceiveWrites
  <2> QED
    BY <2>1, <2>2 DEF RDInv, FirstAnswerRight
<1> QED
  BY <1>1, <1>2, OnlyReceiveTakes

-----------------------------------------------------------------------------
\* The inductive invariant.  What a node has taken is right because the offers on
\* their way are, those because the queries they answer were, and a query because
\* its sender appended it to asked; none of it is undone by a later step.
THEOREM RemoteInvariant == Spec => []RDInv
<1>1. Init => RDInv
  BY InvInit
<1>2. RDInv /\ [Next]_vars => RDInv'
  BY TypeStep, WaitsForLatestStep, QueriesKnownStep, OffersKnownStep,
     NothingBeforeFirstStep, AnswersAreEarnedStep, FirstAnswerRightStep DEF RDInv
<1> QED
  BY <1>1, <1>2, PTL DEF Spec

\* No answer out of thin air, for any number of nodes and queries: what a node
\* takes in UdpClient::Recv, and what it hands on from recv_buffer_, was asked
\* for here and is registered there.
THEOREM Earned == Spec => []AnswersAreEarned
<1>1. RDInv => AnswersAreEarned
  BY DEF RDInv
<1> QED
  BY <1>1, RemoteInvariant, PTL

\* A node's first answer is about the service its finder asked for.
THEOREM FirstRight == Spec => []FirstAnswerRight
<1>1. RDInv => FirstAnswerRight
  BY DEF RDInv
<1> QED
  BY <1>1, RemoteInvariant, PTL
-----------------------------------------------------------------------------
(* The refinement of Lookup. *)

\* What the lookup sees of the masters changes with these variables only.
LEMMA LookupUnchanged ==
  ASSUME UNCHANGED <<local_service_map_, recv_buffer_, asking, asked>>
  PROVE  UNCHANGED <<local_service_map_, Wants, Looking, recv_buffer_>>
BY DEF Wants, Wanted, Looking

\* One more query is one more service the node may be told of.
LEMMA QueryWants ==
  ASSUME TypeOK, NEW n \in Nodes, NEW s \in Services, Query(n, s)
  PROVE  /\ Wants' = [Wants EXCEPT ![n] = @ \cup {s}]
         /\ Looking' = Looking \cup {n} /\ n \notin Looking
<1>1. asked' = [asked EXCEPT ![n] = Append(@, s)] /\ asking' = [asking EXCEPT ![n] = s]
  BY DEF Query
<1>2. asking[n] = None /\ s # None
  BY RemoteAssumption DEF Query
<1>3. Looking' = Looking \cup {n} /\ n \notin Looking
  BY <1>1, <1>2 DEF Looking, TypeOK
<1>4. /\ Len(asked'[n]) = Len(asked[n]) + 1 /\ Len(asked[n]) \in Nat
      /\ asked'[n][Len(asked[n]) + 1] = s
      /\ \A i \in 1..Len(asked[n]) : asked'[n][i] = asked[n][i]
  BY <1>1 DEF TypeOK
<1>5. Wanted(n)' = Wanted(n) \cup {s}
  <2>1. \A i : i \in 1..Len(asked'[n]) <=> i \in 1..Len(asked[n]) \/ i = Len(asked[n]) + 1
    BY <1>4
  <2> QED
    BY <1>4, <2>1 DEF Wanted
<1>6. \A m \in Nodes \ {n} : Wanted(m)' = Wanted(m)
  BY <1>1 DEF TypeOK, Wanted
<1> QED
  BY <1>3, <1>5, <1>6 DEF Wants

\* Taking an offer tells the node what recv_buffer_ then holds, and that is
\* somebody who offers what the node asked for: OffersKnown.
LEMMA ReceiveTells ==
  ASSUME RDInv, RDInv', NEW n \in Nodes, NEW d \in net, Receive(n, d)
  PROVE  LU!Tell(n, recv_buffer_'[n])
<1> USE DEF RDInv
<1>1. n \in up /\ asking[n] # None /\ UNCHANGED <<up, local_service_map_, asked>>
  BY DEF Receive
<1>2. Looking' = Looking \ {n} /\ n \in Looking
  <2>1. asking' = [asking EXCEPT ![n] = None]
    BY DEF Receive
  <2> QED
    BY <1>1, <2>1 DEF Looking, TypeOK
<1>3. recv_buffer_' = [recv_buffer_ EXCEPT ![n] = recv_buffer_'[n]]
  <2> DEFINE address == IF HasAddress(d.extent) THEN d.from ELSE recv_buffer_[n]
  <2>1. recv_buffer_' = [recv_buffer_ EXCEPT ![n] = address]
    BY DEF Receive
  <2> HIDE DEF address
  <2> QED
    BY <2>1 DEF TypeOK
<1>4. Wants' = Wants
  BY <1>1 DEF Wants, Wanted
<1>5. recv_buffer_'[n] # None => LU!Offers(recv_buffer_'[n], n)
  <2>1. recv_buffer_'[n] # None => local_service_map_[recv_buffer_'[n]] \cap Wanted(n) # {}
    BY <1>1 DEF AnswersAreEarned, Wanted
  <2> QED
    BY <2>1 DEF LU!Offers, Wants
<1> QED
  BY <1>1, <1>2, <1>3, <1>4, <1>5 DEF LU!Tell

\* Every step is one of the lookup's, or none of its business.
LEMMA StepIsLookupStep == RDInv /\ RDInv' /\ [Next]_vars => [LU!Next]_(LU!vars)
<1> SUFFICES ASSUME RDInv, RDInv', [Next]_vars PROVE LU!Next \/ UNCHANGED LU!vars
  OBVIOUS
<1>1. ASSUME NEW n \in Nodes, NEW s \in Services, Register(n, s) PROVE LU!Next
  <2>1. UNCHANGED <<Wants, Looking>> /\ n \notin Looking
    BY <1>1 DEF Register, Wants, Wanted, Looking
  <2>2. LU!Provide(n, s)
    BY <1>1, <2>1 DEF Register, LU!Provide
  <2> QED
    BY <2>2 DEF LU!Next
<1>2. ASSUME NEW n \in Nodes, NEW s \in Services, Query(n, s) PROVE LU!Next
  <2>1. LU!LookUp(n, s)
    BY <1>2, QueryWants DEF RDInv, Query, LU!LookUp
  <2> QED
    BY <2>1 DEF LU!Next
<1>3. ASSUME NEW n \in Nodes, NEW d \in net, Receive(n, d) PROVE LU!Next
  <2>1. recv_buffer_'[n] \in Nodes \cup {None}
    BY DEF RDInv, TypeOK
  <2> QED
    BY <1>3, <2>1, ReceiveTells DEF LU!Next
<1>4. ASSUME NEW n \in Nodes, Ends(n) \/ \E d \in net : HearsTooMuch(n, d) PROVE LU!Next
  <2>1. n \in up /\ up' = up \ {n} /\ UNCHANGED <<local_service_map_, recv_buffer_, asking, asked>>
    BY <1>4 DEF Ends, HearsTooMuch, Hears
  <2>2. LU!End(n)
    BY <2>1, LookupUnchanged DEF LU!End
  <2> QED
    BY <2>2 DEF LU!Next
<1>5. ASSUME UNCHANGED <<up, local_service_map_, recv_buffer_, asking, asked>>
      PROVE  UNCHANGED LU!vars
  BY <1>5, LookupUnchanged DEF LU!vars
<1>6. ASSUME NEW m \in Nodes, NEW d \in net, Reply(m, d) \/ NoReply(m, d)
      PROVE  UNCHANGED LU!vars
  BY <1>5, <1>6 DEF Reply, NoReply
<1>7. ASSUME NEW d \in net, Lose(d) PROVE UNCHANGED LU!vars
  BY <1>5, <1>7 DEF Lose
<1>8. CASE UNCHANGED vars
  BY <1>5, <1>8 DEF vars
<1> QED
  BY <1>1, <1>2, <1>3, <1>4, <1>6, <1>7, <1>8 DEF Next, NodeNext, Handle

\* The masters keep the promise of Lookup, for any number of nodes, services and
\* queries, and whatever the network does to the datagrams.
THEOREM MastersImplementLookup == Spec => ImplementsLookup
<1>1. Init => LU!Init
  <2> SUFFICES ASSUME Init PROVE LU!Init
    OBVIOUS
  <2>1. Wants = [n \in Nodes |-> {0}]
    BY DEF Init, Wants, Wanted
  <2>2. Looking = {}
    BY DEF Init, Looking
  <2> QED
    BY <2>1, <2>2 DEF Init, LU!Init
<1>2. RDInv /\ RDInv' /\ [Next]_vars => [LU!Next]_(LU!vars)
  BY StepIsLookupStep
<1> QED
  BY <1>1, <1>2, RemoteInvariant, PTL DEF Spec, LU!Spec, ImplementsLookup

-----------------------------------------------------------------------------
(* The safety half of ReachedQueryEnds. *)

\* A query on its way stays, as long as nobody takes it out of the network.
LEMMA QueryStays ==
  ASSUME TypeOK, [Next]_vars, NEW n \in Nodes, NEW m \in Nodes, NEW q \in net,
         asking[n] # None, m \in up', q.kind = "FIND", q.from = n, q.to = m,
         q.query = Len(asked[n]), HasAddress(q.extent), q.service \in local_service_map_[m],
         q \in net', asking'[n] = asking[n]
  PROVE  Reaches(n, m)'
<1>1. asked'[n] = asked[n]
  <2>1. ASSUME NEW k \in Nodes, NEW s \in Services, Query(k, s) PROVE asked'[n] = asked[n]
    <3>1. k # n
      BY <2>1 DEF Query
    <3> QED
      BY <2>1, <3>1 DEF Query, TypeOK
  <2>2. UNCHANGED asked \/ \E k \in Nodes, s \in Services : Query(k, s)
    BY DEF Next, NodeNext, vars, Register, Ends, Receive, Handle, Reply, NoReply,
           HearsTooMuch, Lose
  <2> QED
    BY <2>1, <2>2
<1>2. q.service \in local_service_map_'[m]
  BY MapGrows
<1> QED
  BY <1>1, <1>2 DEF Reaches

\* A node waits on until it takes something; only its own Receive ends that.
LEMMA WaitStays ==
  ASSUME TypeOK, [Next]_vars, NEW n \in Nodes, asking[n] # None
  PROVE  asking'[n] = asking[n] \/ asking'[n] = None
<1>1. ASSUME NEW k \in Nodes, NEW s \in Services, Query(k, s) PROVE asking'[n] = asking[n]
  <2>1. k # n
    BY <1>1 DEF Query
  <2> QED
    BY <1>1, <2>1 DEF Query, TypeOK
<1>2. ASSUME NEW k \in Nodes, NEW d \in net, Receive(k, d)
      PROVE  asking'[n] = asking[n] \/ asking'[n] = None
  BY <1>2 DEF Receive, TypeOK
<1>3. \/ UNCHANGED asking
      \/ \E k \in Nodes, s \in Services : Query(k, s)
      \/ \E k \in Nodes, d \in net : Receive(k, d)
  BY DEF Next, NodeNext, vars, Register, Ends, Handle, Reply, NoReply, HearsTooMuch, Lose
<1> QED
  BY <1>1, <1>2, <1>3

\* What leaves the network, and what comes of it.
LEMMA TakenFromNet ==
  ASSUME [Next]_vars, NEW q \in net, q \notin net'
  PROVE  \/ lost'
         \/ q.kind = "OFFER" /\ \E k \in Nodes : q.to = k /\ Receive(k, q)
         \/ q.kind = "FIND" /\ \E k \in Nodes : q.to = k /\ Handle(k, q)
<1>1. ASSUME NEW k \in Nodes, NEW d \in net, Receive(k, d)
      PROVE  q = d /\ d.kind = "OFFER" /\ d.to = k
  BY <1>1 DEF Receive
<1>2. ASSUME NEW k \in Nodes, NEW d \in net, Handle(k, d)
      PROVE  q = d /\ d.kind = "FIND" /\ d.to = k
  BY <1>2 DEF Handle, Reply, NoReply, HearsTooMuch, Hears
<1>3. ASSUME NEW d \in net, Lose(d) PROVE lost'
  BY <1>3 DEF Lose
<1>4. \/ \E k \in Nodes, d \in net : Receive(k, d) \/ Handle(k, d)
      \/ \E d \in net : Lose(d)
  <2>1. ASSUME NEW k \in Nodes, NEW s \in Services, Register(k, s) \/ Query(k, s) PROVE FALSE
    BY <2>1 DEF Register, Query
  <2>2. ASSUME NEW k \in Nodes, Ends(k) PROVE FALSE
    BY <2>2 DEF Ends
  <2> QED
    BY <2>1, <2>2 DEF Next, NodeNext, vars
<1> QED
  BY <1>1, <1>2, <1>3, <1>4

\* A node that has the service answers a whole query for it.
LEMMA HandledIsAnswered ==
  ASSUME NEW m \in Nodes, NEW q \in net, Handle(m, q), HasAddress(q.extent),
         q.service \in local_service_map_[m]
  PROVE  \E d \in net' : d.kind = "OFFER" /\ d.to = q.from
<1>1. ~TooLong(q.extent) /\ HasType(q.extent) /\ Requested(q) = q.service
  BY DEF TooLong, HasType, HasId, HasAddress, Requested
<1>2. Reply(m, q)
  BY <1>1 DEF Handle, NoReply, HearsTooMuch, Knows
<1> DEFINE offer == [kind |-> "OFFER", from |-> m, to |-> q.from, query |-> q.query,
                     service |-> Requested(q), extent |-> q.extent]
<1>3. offer \in net' /\ offer.kind = "OFFER" /\ offer.to = q.from
  BY <1>2 DEF Reply
<1> QED
  BY <1>3

\* A query that has reached a node with the service, or an offer on its way back,
\* is never dropped while its asker waits: what ReachedQueryEnds needs of each
\* step, for any number of nodes.  The rest of it is fairness.
THEOREM AnswersStayOnTheirWay == Spec => AnswerOnItsWay
<1>1. TypeOK /\ [Next]_vars =>
        [\A n \in Nodes : \A m \in Serving :
           asking[n] # None /\ Promised(n, m) =>
             \/ asking'[n] = asking[n] /\ Promised(n, m)'
             \/ asking'[n] = None
             \/ m \notin up' \/ lost']_vars
  <2> SUFFICES ASSUME TypeOK, [Next]_vars, NEW n \in Nodes, NEW m \in Serving,
                      asking[n] # None, Promised(n, m), asking'[n] # None, m \in up', ~lost'
               PROVE  asking'[n] = asking[n] /\ Promised(n, m)'
    OBVIOUS
  <2>1. asking'[n] = asking[n]
    BY WaitStays
  <2>2. CASE Reaches(n, m)
    <3>1. PICK q \in net : /\ q.kind = "FIND" /\ q.from = n /\ q.to = m
                           /\ q.query = Len(asked[n])
                           /\ HasAddress(q.extent) /\ q.service \in local_service_map_[m]
      BY <2>2 DEF Reaches
    <3>2. m \in Nodes
      BY RemoteAssumption
    <3>3. CASE q \in net'
      BY <2>1, <3>1, <3>2, <3>3, QueryStays DEF Promised
    <3>4. CASE q \notin net'
      <4>1. Handle(m, q)
        BY <3>1, <3>4, TakenFromNet
      <4> QED
        BY <2>1, <3>1, <3>2, <4>1, HandledIsAnswered DEF Promised
    <3> QED
      BY <3>3, <3>4
  <2>3. ASSUME NEW d \in net, d.kind = "OFFER", d.to = n
        PROVE  Promised(n, m)'
    <3>1. CASE d \in net'
      BY <2>3, <3>1 DEF Promised
    <3>2. CASE d \notin net'
      <4>1. Receive(n, d)
        BY <2>3, <3>2, TakenFromNet
      <4>2. asking'[n] = None
        BY <4>1 DEF Receive, TypeOK
      <4> QED
        BY <4>2
    <3> QED
      BY <3>1, <3>2
  <2> QED
    BY <2>1, <2>2, <2>3 DEF Promised
<1> QED
  BY <1>1, RemoteTypeCorrect, PTL DEF Spec, AnswerOnItsWay

-----------------------------------------------------------------------------
(* Where queries go. *)

\* A node that has taken no answer still has the group's address.
GroupBeforeAnswer == \A n \in Nodes : found[n] = None => server_addr_[n] = "group"

\* What a node takes is an answer.
LEMMA TakenIsAnswer ==
  ASSUME RDInv, NEW n \in Nodes, NEW d \in net, Receive(n, d)
  PROVE  found'[n] # None
<1> DEFINE address == IF HasAddress(d.extent) THEN d.from ELSE recv_buffer_[n]
           answer_ == [from |-> d.from, service |-> d.service, wanted |-> asking[n],
                       address |-> address]
<1>1. d.from \in Nodes /\ d.service \in Services /\ asking[n] \in Services
  BY DEF Receive, RDInv, TypeOK, Find, Offer
<1>2. answer_ \in Answer
  BY <1>1 DEF RDInv, TypeOK, Answer
<1>3. found' = [found EXCEPT ![n] = answer_]
  BY DEF Receive
<1> HIDE DEF answer_
<1> QED
  BY <1>2, <1>3, RemoteAssumption DEF RDInv, TypeOK

\* A new query has a number no datagram had before, and is addressed to where
\* server_addr_ points.
LEMMA QueryIsSent ==
  ASSUME RDInv, NEW n \in Nodes, NEW s \in Services, Query(n, s)
  PROVE  SentTo(n)' = Destinations(n)
<1> DEFINE k == Len(asked[n]) + 1
           queries == [kind : {"FIND"}, from : {n}, to : Destinations(n),
                       query : {k}, service : {s}, extent : {data_size[n]}]
<1>1. Len(asked[n]) \in Nat /\ Len(asked'[n]) = k
  BY DEF Query, RDInv, TypeOK
<1>2. net' = net \cup queries
  BY DEF Query
<1>3. \A d \in net : ~(d.kind = "FIND" /\ d.from = n /\ d.query = k)
  BY <1>1 DEF RDInv, QueriesKnown
<1>4. \A d \in queries : d.kind = "FIND" /\ d.from = n /\ d.query = k /\ d.to \in Destinations(n)
  OBVIOUS
<1>5. ASSUME NEW m \in Destinations(n) PROVE \E d \in queries : d.to = m
  <2> DEFINE d == [kind |-> "FIND", from |-> n, to |-> m, query |-> k, service |-> s,
                   extent |-> data_size[n]]
  <2>1. d \in queries /\ d.to = m
    OBVIOUS
  <2> QED
    BY <2>1
<1> HIDE DEF queries, k
<1>6. SentTo(n)' = {d.to : d \in queries}
  BY <1>1, <1>2, <1>3, <1>4 DEF SentTo
<1> QED
  BY <1>4, <1>5, <1>6

\* The group is asked until somebody answers, and from then on only the node
\* that answered last: what is left of QueriesAreMulticast.
THEOREM QueriesGoWhereAnswersCameFrom == Spec => QueriesFollowAnswers
<1>1. Init => GroupBeforeAnswer
  BY DEF Init, GroupBeforeAnswer
<1>2. RDInv /\ GroupBeforeAnswer /\ [Next]_vars => GroupBeforeAnswer'
  BY OnlyReceiveTakes, TakenIsAnswer, ReceiveWrites DEF GroupBeforeAnswer
<1>3. RDInv /\ GroupBeforeAnswer /\ [Next]_vars =>
        [\A n \in Nodes : Len(asked'[n]) > Len(asked[n]) =>
           SentTo(n)' = IF found[n] = None THEN Nodes ELSE {found[n].from}]_vars
  <2> SUFFICES ASSUME RDInv, GroupBeforeAnswer, [Next]_vars,
                      NEW n \in Nodes, Len(asked'[n]) > Len(asked[n])
               PROVE  SentTo(n)' = IF found[n] = None THEN Nodes ELSE {found[n].from}
    OBVIOUS
  <2>1. PICK s \in Services : Query(n, s)
    <3>1. ASSUME NEW k \in Nodes, NEW s \in Services, Query(k, s) PROVE k = n
      BY <3>1 DEF Query, RDInv, TypeOK
    <3>2. UNCHANGED asked \/ \E k \in Nodes, s \in Services : Query(k, s)
      BY DEF Next, NodeNext, vars, Register, Ends, Receive, Handle, Reply, NoReply,
             HearsTooMuch, Lose
    <3>3. asked' # asked
      BY DEF RDInv, TypeOK
    <3> QED
      BY <3>1, <3>2, <3>3
  <2>2. SentTo(n)' = Destinations(n)
    BY <2>1, QueryIsSent
  <2>3. CASE found[n] = None
    BY <2>2, <2>3 DEF GroupBeforeAnswer, Destinations
  <2>4. CASE found[n] # None
    <3>1. server_addr_[n] = found[n].from /\ found[n].from \in Nodes
      BY <2>4 DEF RDInv, AnswersAreEarned, TypeOK, Answer
    <3> QED
      BY <2>2, <2>4, <3>1, RemoteAssumption DEF Destinations
  <2> QED
    BY <2>3, <2>4
<1> QED
  BY <1>1, <1>2, <1>3, RemoteInvariant, PTL DEF Spec, QueriesFollowAnswers
================================================================================
