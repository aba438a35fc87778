--------------------------- MODULE UdsServerProofs ---------------------------
(***************************************************************************)
(* Proofs about UdsServer, for any sets of clients and descriptors and any *)
(* bound on the requests.  IInv is inductive; its parts are preserved one  *)
(* lemma per part, and the properties of UdsServer follow from it.         *)
(***************************************************************************)
EXTENDS UdsServer, TLAPS

\* The steps, one by one, so that each lemma below can split on them.
LEMMA StepCases ==
  ASSUME [Next]_vars
  PROVE  \/ \E c \in Clients : Connect(c) \/ Send(c) \/ Recv(c) \/ Close(c)
         \/ EpollWait \/ AcceptEvent
         \/ \E f \in Fds : HupEvent(f) \/ InEvent(f) \/ OutEvent(f)
         \/ CallbackSends \/ CallbackIsSilent
         \/ Die
         \/ UNCHANGED vars
BY DEF Next, ClientNext, LoopNext, AcceptFails, SendFails, CallbackThrows

\* The initial state satisfies the invariant.
LEMMA InitIInv == Init => IInv
<1> SUFFICES ASSUME Init PROVE IInv
  OBVIOUS
<1>1. TypeOK
  BY UdsAssumption DEF Init, TypeOK, Conditions
<1>2. Placement /\ OpenIsPlaced /\ HalfDuplex /\ EventsHold /\ HandlersNeverBlock
  BY UdsAssumption DEF Init, Placement, OpenIsPlaced, HalfDuplex, Owes, EventsHold, HandlersNeverBlock
<1>3. NoLostWakeup
  BY UdsAssumption DEF Init, NoLostWakeup, Revents
<1>4. LatestAnswer /\ RepliesInOrder
  BY UdsAssumption DEF Init, LatestAnswer, RepliesInOrder
<1> QED
  BY <1>1, <1>2, <1>3, <1>4 DEF IInv

-----------------------------------------------------------------------------
(* Types. *)

\* What Poll and Revents report is a set of conditions.
LEMMA ReventsType ==
  ASSUME NEW f \in Fds \cup {sockfd}
  PROVE  Revents(f) \in SUBSET Conditions
BY DEF Revents, Poll, Conditions

\* A process that ends leaves the rest of the state alone.
LEMMA DieType == TypeOK /\ Die => TypeOK'
BY DEF TypeOK, Die, clientVars, connVars

\* Every step preserves the types.
LEMMA TypeStep == IInv /\ [Next]_vars => TypeOK'
<1> SUFFICES ASSUME IInv, [Next]_vars PROVE TypeOK'
  OBVIOUS
<1> TypeOK
  BY DEF IInv
<1>1. ASSUME NEW c \in Clients, Connect(c) PROVE TypeOK'
  BY <1>1 DEF TypeOK, Connect, loopVars
<1>2. ASSUME NEW c \in Clients, Send(c) PROVE TypeOK'
  BY <1>2 DEF TypeOK, Send, FdsOf, connVars, loopVars
<1>3. ASSUME NEW c \in Clients, Recv(c) PROVE TypeOK'
  BY <1>3 DEF TypeOK, Recv, FdsOf, connVars, loopVars
<1>4. ASSUME NEW c \in Clients, Close(c) PROVE TypeOK'
  BY <1>4 DEF TypeOK, Close, FdsOf, connVars, loopVars
<1>5. CASE EpollWait
  BY <1>5, ReventsType DEF TypeOK, EpollWait, clientVars, connVars
<1>6. CASE AcceptEvent
  <2>1. Head(backlog) \in Clients /\ Tail(backlog) \in Seq(Clients)
    BY <1>6 DEF AcceptEvent, TypeOK
  <2> QED
    BY <1>6, <2>1 DEF TypeOK, AcceptEvent, Processed, clientVars
<1>7. CASE Die
  BY <1>7, DieType
<1>8. ASSUME NEW f \in Fds, HupEvent(f) PROVE TypeOK'
  BY <1>8 DEF TypeOK, HupEvent, Processed, clientVars
<1>9. ASSUME NEW f \in Fds, InEvent(f) PROVE TypeOK'
  <2>1. CASE Unread(peer[f]) = 0
    BY <1>9, <2>1, DieType DEF InEvent
  <2>2. CASE Unread(peer[f]) # 0
    <3>1. peer[f] \in Clients
      BY <1>9 DEF InEvent, IInv, HandlersNeverBlock, TypeOK
    <3>2. taken' = [taken EXCEPT ![peer[f]] = @ + 1]
      BY <1>9, <2>2 DEF InEvent
    <3>3. taken' \in [Clients -> Nat]
      BY <3>1, <3>2 DEF TypeOK
    <3> QED
      BY <1>9, <2>2, <3>3 DEF TypeOK, InEvent, clientVars
  <2> QED
    BY <2>1, <2>2
<1>10. ASSUME NEW f \in Fds, OutEvent(f) PROVE TypeOK'
  <2>1. pack_ \in Requests /\ peer[f] \in Clients
    BY <1>10 DEF OutEvent, Writable, TypeOK, IInv, EventsHold
  <2>2. Append(replies[peer[f]], pack_) \in Seq(Requests)
    BY <2>1 DEF TypeOK
  <2>3. replies' = [replies EXCEPT ![peer[f]] = Append(@, pack_)]
    BY <1>10 DEF OutEvent, Writable
  <2>4. replies' \in [Clients -> Seq(Requests)]
    BY <2>1, <2>2, <2>3 DEF TypeOK
  <2>5. interest' = [interest EXCEPT ![f] = "IN"]
    BY <1>10 DEF OutEvent, Writable
  <2>6. ready' \subseteq ready \cup {f}
    BY <1>10 DEF OutEvent, Writable
  <2>7. /\ events' = [events EXCEPT ![f] = {}]
        /\ pc' \in {"wait", "loop"}
    BY <1>10 DEF OutEvent, Writable, Processed
  <2>8. UNCHANGED <<cstate, sent, got, backlog, peer, taken, trigfd, pack_>>
    BY <1>10 DEF OutEvent, Writable, clientVars
  <2> QED
    BY <2>4, <2>5, <2>6, <2>7, <2>8 DEF TypeOK
<1>11. CASE CallbackSends
  <2>1. peer[trigfd] \in Clients /\ trigfd \in Fds
    BY <1>11 DEF IInv, EventsHold, CallbackSends, SwitchToOut, TypeOK
  <2>2. <<peer[trigfd], taken[peer[trigfd]]>> \in Requests
    BY <2>1 DEF TypeOK, Requests
  <2> QED
    BY <1>11, <2>1, <2>2 DEF TypeOK, CallbackSends, SwitchToOut, clientVars
<1>12. CASE CallbackIsSilent
  BY <1>12 DEF TypeOK, CallbackIsSilent, SwitchToOut, clientVars
<1>13. CASE UNCHANGED vars
  BY <1>13 DEF TypeOK, vars, clientVars, connVars, loopVars
<1> QED
  BY <1>1, <1>2, <1>3, <1>4, <1>5, <1>6, <1>7, <1>8, <1>9, <1>10, <1>11,
     <1>12, <1>13, StepCases

-----------------------------------------------------------------------------
(* Placement. *)

\* Only Connect, Close, AcceptEvent and HupEvent move a client.
LEMMA PlacementStep == IInv /\ [Next]_vars => Placement'
<1> SUFFICES ASSUME IInv, [Next]_vars PROVE Placement'
  OBVIOUS
<1> USE DEF IInv
<1>0. ASSUME UNCHANGED <<cstate, backlog, peer>> PROVE Placement'
  BY <1>0 DEF Placement
<1>1. ASSUME NEW c \in Clients, Connect(c) PROVE Placement'
  <2>1. /\ cstate[c] = "new" /\ cstate' = [cstate EXCEPT ![c] = "open"]
        /\ backlog' = Append(backlog, c) /\ peer' = peer
    BY <1>1 DEF Connect
  <2>2. /\ \A i \in 1..Len(backlog) : backlog[i] # c /\ backlog[i] \in Clients
        /\ \A f \in Fds : peer[f] # c
    <3>1. c # None
      BY UdsAssumption
    <3>2. \A i \in 1..Len(backlog) : backlog[i] \in Clients
      BY DEF TypeOK
    <3> QED
      BY <2>1, <3>1, <3>2 DEF Placement
  <2>3. /\ Len(backlog') = Len(backlog) + 1
        /\ \A i \in 1..Len(backlog) : backlog'[i] = backlog[i]
        /\ backlog'[Len(backlog) + 1] = c
    BY <2>1 DEF TypeOK
  <2>4. \A i \in 1..Len(backlog') : i \in 1..Len(backlog) \/ i = Len(backlog) + 1
    BY <2>3 DEF TypeOK
  <2>5. \A d \in Clients : cstate[d] # "new" => cstate'[d] # "new"
    BY <2>1 DEF TypeOK
  <2>6. cstate'[c] # "new"
    BY <2>1 DEF TypeOK
  <2>7. \A f \in Fds : peer[f] # None => peer[f] \in Clients
    BY DEF TypeOK
  <2>8. \A i, j \in 1..Len(backlog') : backlog'[i] = backlog'[j] => i = j
    BY <2>2, <2>3, <2>4 DEF Placement
  <2>9. \A i \in 1..Len(backlog') : cstate'[backlog'[i]] # "new"
    BY <2>2, <2>3, <2>4, <2>5, <2>6 DEF Placement
  <2>10. \A f \in Fds : peer[f] # None => cstate'[peer[f]] # "new"
    BY <2>5, <2>7 DEF Placement
  <2>11. \A f \in Fds : peer[f] # None =>
            \A i \in 1..Len(backlog') : backlog'[i] # peer[f]
    BY <2>2, <2>3, <2>4 DEF Placement
  <2> QED
    BY <2>1, <2>8, <2>9, <2>10, <2>11 DEF Placement
<1>2. ASSUME NEW c \in Clients, Close(c) PROVE Placement'
  <2>1. UNCHANGED <<backlog, peer>>
    BY <1>2 DEF Close, connVars
  <2>2. \A d \in Clients : cstate[d] # "new" => cstate'[d] # "new"
    BY <1>2 DEF Close, TypeOK
  <2>3. /\ \A i \in 1..Len(backlog) : backlog[i] \in Clients
        /\ \A f \in Fds : peer[f] # None => peer[f] \in Clients
    BY DEF TypeOK
  <2> QED
    BY <2>1, <2>2, <2>3 DEF Placement
<1>3. CASE AcceptEvent
  <2>1. PICK f \in Fds : /\ peer[f] = None
                         /\ peer' = [peer EXCEPT ![f] = Head(backlog)]
    BY <1>3 DEF AcceptEvent, IsLowestFree
  <2>2. /\ backlog # <<>> /\ backlog' = Tail(backlog) /\ cstate' = cstate
    BY <1>3 DEF AcceptEvent, clientVars
  <2>3. /\ Len(backlog) \in Nat /\ Len(backlog) > 0 /\ Head(backlog) = backlog[1]
        /\ Len(backlog') = Len(backlog) - 1
        /\ \A i \in 1..Len(backlog') : backlog'[i] = backlog[i + 1] /\ i + 1 \in 1..Len(backlog)
    BY <2>2 DEF TypeOK
  <2>4. \A g \in Fds : peer'[g] = IF g = f THEN backlog[1] ELSE peer[g]
    BY <2>1, <2>3 DEF TypeOK
  <2>5. 1 \in 1..Len(backlog) /\ \A i \in 1..Len(backlog') : i + 1 # 1
    BY <2>3
  <2>6. \A i, j \in 1..Len(backlog') : i + 1 = j + 1 => i = j
    OBVIOUS
  <2>7. \A i, j \in 1..Len(backlog') : backlog'[i] = backlog'[j] => i = j
    BY <2>3, <2>6 DEF Placement
  <2>8. \A i \in 1..Len(backlog') : cstate'[backlog'[i]] # "new"
    BY <2>2, <2>3 DEF Placement
  <2>9. \A g, h \in Fds : peer'[g] # None /\ peer'[g] = peer'[h] => g = h
    BY <2>4, <2>5 DEF Placement
  <2>10. \A g \in Fds : peer'[g] # None =>
            /\ cstate'[peer'[g]] # "new"
            /\ \A i \in 1..Len(backlog') : backlog'[i] # peer'[g]
    <3> SUFFICES ASSUME NEW g \in Fds, peer'[g] # None
                 PROVE  /\ cstate'[peer'[g]] # "new"
                        /\ \A i \in 1..Len(backlog') : backlog'[i] # peer'[g]
      OBVIOUS
    <3>1. CASE g = f
      BY <3>1, <2>2, <2>3, <2>4, <2>5 DEF Placement
    <3>2. CASE g # f
      BY <3>2, <2>2, <2>3, <2>4 DEF Placement
    <3> QED
      BY <3>1, <3>2
  <2> QED
    BY <2>7, <2>8, <2>9, <2>10 DEF Placement
<1>4. ASSUME NEW f \in Fds, HupEvent(f) PROVE Placement'
  BY <1>4 DEF Placement, HupEvent, clientVars, TypeOK
<1>5. ASSUME NEW c \in Clients, Send(c) \/ Recv(c) PROVE Placement'
  BY <1>0, <1>5 DEF Send, Recv, connVars
<1>6. CASE EpollWait \/ CallbackSends \/ CallbackIsSilent \/ UNCHANGED vars
  BY <1>0, <1>6 DEF EpollWait, CallbackSends, CallbackIsSilent, SwitchToOut,
                    vars, clientVars, connVars
<1>7. CASE Die
  BY <1>0, <1>7 DEF Die, clientVars, connVars
<1>8. ASSUME NEW f \in Fds, InEvent(f) \/ OutEvent(f) PROVE Placement'
  <2>1. UNCHANGED <<cstate, backlog, peer>>
    BY <1>8 DEF InEvent, OutEvent, Writable, Die, clientVars, connVars
  <2> QED
    BY <1>0, <2>1
<1> QED
  BY <1>1, <1>2, <1>3, <1>4, <1>5, <1>6, <1>7, <1>8, StepCases

\* Accepting moves a client from the backlog to a descriptor, and a descriptor
\* is only closed when its client has gone.
LEMMA OpenIsPlacedStep == IInv /\ [Next]_vars => OpenIsPlaced'
<1> SUFFICES ASSUME IInv, [Next]_vars PROVE OpenIsPlaced'
  OBVIOUS
<1> USE DEF IInv
<1>0. ASSUME UNCHANGED <<backlog, peer>>, \A c \in Clients : cstate'[c] = "open" => cstate[c] = "open"
      PROVE OpenIsPlaced'
  BY <1>0 DEF OpenIsPlaced
<1>1. ASSUME NEW c \in Clients, Connect(c) PROVE OpenIsPlaced'
  <2>1. /\ cstate' = [cstate EXCEPT ![c] = "open"]
        /\ backlog' = Append(backlog, c) /\ peer' = peer
    BY <1>1 DEF Connect
  <2>2. /\ Len(backlog) \in Nat /\ Len(backlog') = Len(backlog) + 1
        /\ \A i \in 1..Len(backlog) : backlog'[i] = backlog[i]
        /\ backlog'[Len(backlog) + 1] = c
    BY <2>1 DEF TypeOK
  <2>3. ASSUME NEW d \in Clients, cstate'[d] = "open"
        PROVE  (\E i \in 1..Len(backlog') : backlog'[i] = d) \/ (\E f \in Fds : peer'[f] = d)
    <3>1. CASE d = c
      BY <2>2, <3>1
    <3>2. CASE d # c
      <4>1. (\E i \in 1..Len(backlog) : backlog[i] = d) \/ (\E f \in Fds : peer[f] = d)
        BY <2>1, <2>3, <3>2 DEF OpenIsPlaced, TypeOK
      <4> QED
        BY <2>1, <2>2, <4>1
    <3> QED
      BY <3>1, <3>2
  <2> QED
    BY <2>3 DEF OpenIsPlaced
<1>2. ASSUME NEW c \in Clients, Close(c) PROVE OpenIsPlaced'
  <2>1. UNCHANGED <<backlog, peer>> /\ \A d \in Clients : cstate'[d] = "open" => cstate[d] = "open"
    BY <1>2 DEF Close, connVars, TypeOK
  <2> QED
    BY <1>0, <2>1
<1>3. CASE AcceptEvent
  <2>1. PICK f \in Fds : /\ peer[f] = None
                         /\ peer' = [peer EXCEPT ![f] = Head(backlog)]
    BY <1>3 DEF AcceptEvent, IsLowestFree
  <2>2. /\ backlog # <<>> /\ backlog' = Tail(backlog) /\ cstate' = cstate
    BY <1>3 DEF AcceptEvent, clientVars
  <2>3. /\ Len(backlog) \in Nat /\ Head(backlog) = backlog[1]
        /\ Len(backlog') = Len(backlog) - 1
        /\ \A i \in 1..Len(backlog') : backlog'[i] = backlog[i + 1]
    BY <2>2 DEF TypeOK
  <2>4. ASSUME NEW d \in Clients, cstate'[d] = "open"
        PROVE  (\E i \in 1..Len(backlog') : backlog'[i] = d) \/ (\E g \in Fds : peer'[g] = d)
    <3>1. (\E i \in 1..Len(backlog) : backlog[i] = d) \/ (\E g \in Fds : peer[g] = d)
      BY <2>2, <2>4 DEF OpenIsPlaced
    <3>2. CASE \E g \in Fds : peer[g] = d
      BY <2>1, <3>2, UdsAssumption DEF TypeOK
    <3>3. ASSUME NEW i \in 1..Len(backlog), backlog[i] = d
          PROVE  (\E j \in 1..Len(backlog') : backlog'[j] = d) \/ (\E g \in Fds : peer'[g] = d)
      <4>1. CASE i = 1
        BY <2>1, <2>3, <3>3, <4>1 DEF TypeOK
      <4>2. CASE i # 1
        <5>1. i - 1 \in 1..Len(backlog') /\ backlog'[i - 1] = backlog[i]
          BY <2>3, <4>2
        <5> QED
          BY <3>3, <5>1
      <4> QED
        BY <4>1, <4>2
    <3> QED
      BY <3>1, <3>2, <3>3
  <2> QED
    BY <2>4 DEF OpenIsPlaced
<1>4. ASSUME NEW f \in Fds, HupEvent(f) PROVE OpenIsPlaced'
  <2>1. /\ peer' = [peer EXCEPT ![f] = None] /\ UNCHANGED <<cstate, backlog>>
        /\ cstate[peer[f]] = "closed"
    BY <1>4 DEF HupEvent, clientVars, EventsHold
  <2> QED
    BY <2>1 DEF OpenIsPlaced, TypeOK
<1>5. ASSUME NEW c \in Clients, Send(c) \/ Recv(c) PROVE OpenIsPlaced'
  BY <1>0, <1>5 DEF Send, Recv, connVars
<1>6. CASE EpollWait \/ CallbackSends \/ CallbackIsSilent \/ UNCHANGED vars
  BY <1>0, <1>6 DEF EpollWait, CallbackSends, CallbackIsSilent, SwitchToOut,
                    vars, clientVars, connVars
<1>7. CASE Die
  BY <1>0, <1>7 DEF Die, clientVars, connVars
<1>8. ASSUME NEW f \in Fds, InEvent(f) \/ OutEvent(f) PROVE OpenIsPlaced'
  <2>1. UNCHANGED <<cstate, backlog, peer>>
    BY <1>8 DEF InEvent, OutEvent, Writable, Die, clientVars, connVars
  <2> QED
    BY <1>0, <2>1
<1> QED
  BY <1>1, <1>2, <1>3, <1>4, <1>5, <1>6, <1>7, <1>8, StepCases

-----------------------------------------------------------------------------
(* The counters of a connection against its interest. *)

\* What one request more or one reply more does to the counts is decided by
\* the interest of the descriptor alone.
LEMMA HalfDuplexStep == IInv /\ [Next]_vars => HalfDuplex'
<1> SUFFICES ASSUME IInv, [Next]_vars PROVE HalfDuplex'
  OBVIOUS
<1> USE DEF IInv
<1>0. ASSUME UNCHANGED <<cstate, sent, backlog, taken, replies, peer, interest, trigfd>>,
             \/ pc' = pc
             \/ pc' = "dead"
             \/ pc \notin {"callback", "dead"} /\ pc' # "callback"
      PROVE  HalfDuplex'
  BY <1>0 DEF HalfDuplex, Owes
<1>1. ASSUME NEW c \in Clients, Connect(c) PROVE HalfDuplex'
  <2>1. /\ cstate[c] = "new" /\ cstate' = [cstate EXCEPT ![c] = "open"]
        /\ backlog' = Append(backlog, c)
        /\ UNCHANGED <<sent, peer, interest, taken, replies, pc, trigfd>>
    BY <1>1 DEF Connect, loopVars
  <2>2. ASSUME NEW d \in Clients, cstate'[d] = "new" \/ \E i \in 1..Len(backlog') : backlog'[i] = d
        PROVE  taken'[d] = 0 /\ replies'[d] = <<>>
    <3>1. CASE d = c
      BY <2>1, <3>1 DEF HalfDuplex
    <3>2. CASE d # c
      BY <2>1, <2>2, <3>2 DEF HalfDuplex, TypeOK
    <3> QED
      BY <3>1, <3>2
  <2> QED
    BY <2>1, <2>2 DEF HalfDuplex, Owes
<1>2. ASSUME NEW c \in Clients, Send(c) PROVE HalfDuplex'
  <2>1. /\ sent' = [sent EXCEPT ![c] = @ + 1]
        /\ UNCHANGED <<cstate, backlog, peer, interest, taken, replies, pc, trigfd>>
    BY <1>2 DEF Send, connVars, loopVars
  <2>2. \A d \in Clients : taken'[d] <= sent'[d]
    BY <2>1 DEF HalfDuplex, TypeOK
  <2> QED
    BY <2>1, <2>2 DEF HalfDuplex, Owes
<1>3. ASSUME NEW c \in Clients, Recv(c) PROVE HalfDuplex'
  BY <1>0, <1>3 DEF Recv, connVars, loopVars
<1>4. ASSUME NEW c \in Clients, Close(c) PROVE HalfDuplex'
  <2>1. /\ \A d \in Clients : cstate'[d] = "new" => cstate[d] = "new"
        /\ UNCHANGED <<sent, backlog, peer, interest, taken, replies, pc, trigfd>>
    BY <1>4 DEF Close, connVars, loopVars, TypeOK
  <2> QED
    BY <2>1 DEF HalfDuplex, Owes
<1>5. CASE EpollWait
  BY <1>0, <1>5 DEF EpollWait, clientVars, connVars
<1>6. CASE AcceptEvent
  <2>1. PICK f \in Fds : /\ peer[f] = None
                         /\ peer' = [peer EXCEPT ![f] = Head(backlog)]
                         /\ interest' = [interest EXCEPT ![f] = "IN"]
    BY <1>6 DEF AcceptEvent, IsLowestFree
  <2>2. /\ backlog # <<>> /\ backlog' = Tail(backlog)
        /\ pc = "loop" /\ pc' \in {"wait", "loop"}
        /\ UNCHANGED <<cstate, sent, taken, replies, trigfd>>
    BY <1>6 DEF AcceptEvent, Processed, clientVars
  <2>3. /\ Len(backlog) > 0 /\ Head(backlog) = backlog[1] /\ backlog[1] \in Clients
        /\ 1 \in 1..Len(backlog)
        /\ \A i \in 1..Len(backlog') : backlog'[i] = backlog[i + 1] /\ i + 1 \in 1..Len(backlog)
    BY <2>2 DEF TypeOK
  <2>4. taken[backlog[1]] = 0 /\ Len(replies[backlog[1]]) = 0
    BY <2>3 DEF HalfDuplex
  <2>5. \A g \in Fds : /\ peer'[g] = IF g = f THEN backlog[1] ELSE peer[g]
                       /\ interest'[g] = IF g = f THEN "IN" ELSE interest[g]
    BY <2>1, <2>3 DEF TypeOK
  <2>6. ASSUME NEW g \in Fds, peer'[g] # None, pc' # "dead"
        PROVE  /\ Owes(g)' => taken'[peer'[g]] = Len(replies'[peer'[g]]) + 1
               /\ ~Owes(g)' => taken'[peer'[g]] = Len(replies'[peer'[g]])
    <3>1. CASE g = f
      <4>1. peer'[g] = backlog[1] /\ interest'[g] = "IN" /\ pc' # "callback"
        BY <2>2, <2>5, <3>1
      <4>2. taken'[peer'[g]] = 0 /\ Len(replies'[peer'[g]]) = 0
        BY <2>2, <2>4, <4>1
      <4> QED
        BY <4>1, <4>2 DEF Owes
    <3>2. CASE g # f
      BY <2>2, <2>5, <2>6, <3>2 DEF HalfDuplex, Owes
    <3> QED
      BY <3>1, <3>2
  <2>7. \A d \in Clients : (cstate'[d] = "new" \/ \E i \in 1..Len(backlog') : backlog'[i] = d)
            => taken'[d] = 0 /\ replies'[d] = <<>>
    BY <2>2, <2>3 DEF HalfDuplex
  <2>8. \A d \in Clients : taken'[d] <= sent'[d]
    BY <2>2 DEF HalfDuplex
  <2> QED
    BY <2>6, <2>7, <2>8 DEF HalfDuplex, Owes
<1>7. CASE Die
  BY <1>0, <1>7 DEF Die, clientVars, connVars
<1>8. ASSUME NEW f \in Fds, HupEvent(f) PROVE HalfDuplex'
  <2>1. /\ peer' = [peer EXCEPT ![f] = None]
        /\ pc = "loop" /\ pc' \in {"wait", "loop"}
        /\ UNCHANGED <<cstate, sent, backlog, interest, taken, replies, trigfd>>
    BY <1>8 DEF HupEvent, Processed, clientVars
  <2>2. \A g \in Fds : peer'[g] # None => peer'[g] = peer[g]
    BY <2>1 DEF TypeOK
  <2> QED
    BY <2>1, <2>2 DEF HalfDuplex, Owes
<1>9. ASSUME NEW f \in Fds, InEvent(f) PROVE HalfDuplex'
  <2>1. CASE Unread(peer[f]) = 0
    BY <1>0, <1>9, <2>1 DEF InEvent, Die, clientVars, connVars
  <2>2. CASE Unread(peer[f]) # 0
    <3>1. /\ peer[f] \in Clients /\ peer[f] # None
          /\ Unread(peer[f]) > 0 /\ interest[f] = "IN"
      BY <1>9 DEF InEvent, HandlersNeverBlock, EventsHold, TypeOK
    <3>2. /\ taken' = [taken EXCEPT ![peer[f]] = @ + 1]
          /\ trigfd' = f /\ pc = "loop" /\ pc' = "callback"
          /\ UNCHANGED <<cstate, sent, backlog, peer, interest, replies>>
      BY <1>9, <2>2 DEF InEvent, clientVars
    <3>3. \A c \in Clients : taken'[c] = IF c = peer[f] THEN taken[c] + 1 ELSE taken[c]
      BY <3>1, <3>2 DEF TypeOK
    <3>4. \A c \in Clients : taken'[c] <= sent'[c]
      BY <3>1, <3>2, <3>3 DEF HalfDuplex, TypeOK, Unread
    <3>5. /\ cstate[peer[f]] # "new"
          /\ \A i \in 1..Len(backlog) : backlog[i] # peer[f]
          /\ \A g \in Fds : peer[g] = peer[f] => g = f
      BY <3>1 DEF Placement
    <3>6. \A c \in Clients : (cstate'[c] = "new" \/ \E i \in 1..Len(backlog') : backlog'[i] = c)
            => taken'[c] = 0 /\ replies'[c] = <<>>
      BY <3>2, <3>3, <3>5 DEF HalfDuplex
    <3>7. ASSUME NEW g \in Fds, peer'[g] # None
          PROVE  /\ Owes(g)' => taken'[peer'[g]] = Len(replies'[peer'[g]]) + 1
                 /\ ~Owes(g)' => taken'[peer'[g]] = Len(replies'[peer'[g]])
      <4>1. peer[g] \in Clients /\ peer[g] # None
        BY <3>2, <3>7 DEF TypeOK
      <4>2. /\ interest[g] = "OUT" => taken[peer[g]] = Len(replies[peer[g]]) + 1
            /\ interest[g] # "OUT" => taken[peer[g]] = Len(replies[peer[g]])
        BY <4>1, <3>2 DEF HalfDuplex, Owes
      <4>3. CASE g = f
        <5>1. taken[peer[g]] \in Nat /\ Len(replies[peer[g]]) \in Nat
          BY <4>1 DEF TypeOK
        <5>2. taken'[peer[g]] = taken[peer[g]] + 1
          BY <3>1, <3>3, <4>3
        <5>3. peer'[g] = peer[g] /\ replies'[peer[g]] = replies[peer[g]]
          BY <3>2
        <5>4. taken[peer[g]] = Len(replies[peer[g]])
          BY <3>1, <4>2, <4>3, <5>1
        <5>5. Owes(g)'
          BY <3>2, <4>3 DEF Owes
        <5> QED
          BY <5>1, <5>2, <5>3, <5>4, <5>5
      <4>4. CASE g # f
        BY <3>2, <3>3, <3>5, <4>1, <4>2, <4>4 DEF Owes
      <4> QED
        BY <4>3, <4>4
    <3> QED
      BY <3>2, <3>4, <3>6, <3>7 DEF HalfDuplex, Owes
  <2> QED
    BY <2>1, <2>2
<1>10. ASSUME NEW f \in Fds, OutEvent(f) PROVE HalfDuplex'
  <2>1. peer[f] \in Clients /\ peer[f] # None /\ interest[f] = "OUT" /\ pack_ \in Requests
    BY <1>10 DEF OutEvent, Writable, EventsHold, TypeOK
  <2>2. /\ replies' = [replies EXCEPT ![peer[f]] = Append(@, pack_)]
        /\ interest' = [interest EXCEPT ![f] = "IN"]
        /\ pc = "loop" /\ pc' \in {"wait", "loop"}
        /\ UNCHANGED <<cstate, sent, backlog, peer, taken, trigfd>>
    BY <1>10 DEF OutEvent, Writable, Processed, clientVars
  <2>3. \A c \in Clients : replies'[c] = IF c = peer[f] THEN Append(replies[c], pack_) ELSE replies[c]
    BY <2>1, <2>2 DEF TypeOK
  <2>4. Len(replies'[peer[f]]) = Len(replies[peer[f]]) + 1 /\ Len(replies[peer[f]]) \in Nat
    <3>1. replies[peer[f]] \in Seq(Requests) /\ pack_ \in Requests
      BY <2>1 DEF TypeOK
    <3>2. replies'[peer[f]] = Append(replies[peer[f]], pack_)
      BY <2>1, <2>3
    <3> QED
      BY <3>1, <3>2
  <2>5. /\ cstate[peer[f]] # "new"
        /\ \A i \in 1..Len(backlog) : backlog[i] # peer[f]
        /\ \A g \in Fds : peer[g] = peer[f] => g = f
    BY <2>1 DEF Placement
  <2>6. \A c \in Clients : (cstate'[c] = "new" \/ \E i \in 1..Len(backlog') : backlog'[i] = c)
          => taken'[c] = 0 /\ replies'[c] = <<>>
    BY <2>2, <2>3, <2>5 DEF HalfDuplex
  <2>7. ASSUME NEW g \in Fds, peer'[g] # None
        PROVE  /\ Owes(g)' => taken'[peer'[g]] = Len(replies'[peer'[g]]) + 1
               /\ ~Owes(g)' => taken'[peer'[g]] = Len(replies'[peer'[g]])
    <3>1. peer[g] \in Clients /\ peer[g] # None
      BY <2>2, <2>7 DEF TypeOK
    <3>2. /\ interest[g] = "OUT" => taken[peer[g]] = Len(replies[peer[g]]) + 1
          /\ interest[g] # "OUT" => taken[peer[g]] = Len(replies[peer[g]])
      BY <3>1, <2>2 DEF HalfDuplex, Owes
    <3>3. CASE g = f
      <4>1. interest'[g] = "IN" /\ peer'[g] = peer[f]
        BY <2>2, <3>3 DEF TypeOK
      <4>2. taken'[peer[f]] = Len(replies[peer[f]]) + 1
        BY <2>1, <2>2, <3>2, <3>3
      <4>3. ~Owes(g)'
        BY <2>2, <4>1 DEF Owes
      <4>4. taken'[peer'[g]] = Len(replies'[peer'[g]])
        BY <2>4, <4>1, <4>2
      <4> QED
        BY <4>3, <4>4
    <3>4. CASE g # f
      <4>1. interest'[g] = interest[g]
        BY <2>2, <3>4 DEF TypeOK
      <4> QED
        BY <2>2, <2>3, <2>5, <3>1, <3>2, <3>4, <4>1 DEF Owes
    <3> QED
      BY <3>3, <3>4
  <2> QED
    BY <2>2, <2>6, <2>7 DEF HalfDuplex, Owes
<1>11. CASE CallbackSends \/ CallbackIsSilent
  <2>1. /\ trigfd \in Fds /\ pc = "callback" /\ pc' \in {"wait", "loop"}
        /\ interest' = [interest EXCEPT ![trigfd] = "OUT"]
        /\ UNCHANGED <<cstate, sent, backlog, peer, taken, replies, trigfd>>
    BY <1>11 DEF CallbackSends, CallbackIsSilent, SwitchToOut, clientVars, EventsHold
  <2>2. \A g \in Fds : interest'[g] = IF g = trigfd THEN "OUT" ELSE interest[g]
    BY <2>1 DEF TypeOK
  <2> QED
    BY <2>1, <2>2 DEF HalfDuplex, Owes
<1>12. CASE UNCHANGED vars
  BY <1>0, <1>12 DEF vars, clientVars, connVars, loopVars
<1> QED
  BY <1>1, <1>2, <1>3, <1>4, <1>5, <1>6, <1>7, <1>8, <1>9, <1>10, <1>11,
     <1>12, StepCases

-----------------------------------------------------------------------------
(* The events still to be worked off. *)

\* Processed empties one entry of the array and returns to epoll_wait only
\* when nothing is left in it.
LEMMA ProcessedEvents ==
  ASSUME TypeOK, NEW f \in Fds \cup {sockfd}, Processed(f)
  PROVE  /\ pc' \in {"wait", "loop"}
         /\ \A g \in Fds \cup {sockfd} : events'[g] = IF g = f THEN {} ELSE events[g]
         /\ pc' = "wait" => \A g \in Fds \cup {sockfd} : events'[g] = {}
BY DEF TypeOK, Processed

\* The descriptor of the event being handled is the only one whose connection
\* or interest the step touches, and its event is used up by the same step.
LEMMA EventsHoldStep == IInv /\ [Next]_vars => EventsHold'
<1> SUFFICES ASSUME IInv, [Next]_vars PROVE EventsHold'
  OBVIOUS
<1> USE DEF IInv
<1>0. ASSUME UNCHANGED <<events, trigfd, peer, interest>>,
             pc' = pc \/ pc' = "dead",
             \A c \in Clients : cstate[c] = "closed" => cstate'[c] = "closed"
      PROVE  EventsHold'
  <2>1. \A f \in Fds : events[f] # {} => peer[f] \in Clients
    BY DEF EventsHold, TypeOK
  <2>2. ASSUME NEW f \in Fds, events'[f] # {}
        PROVE  /\ peer'[f] # None
               /\ "IN" \in events'[f] => interest'[f] = "IN"
               /\ "OUT" \in events'[f] => interest'[f] = "OUT"
               /\ "HUP" \in events'[f] => cstate'[peer'[f]] = "closed"
    BY <1>0, <2>1, <2>2 DEF EventsHold
  <2>3. pc' = "wait" => \A f \in Fds \cup {sockfd} : events'[f] = {}
    BY <1>0 DEF EventsHold
  <2>4. pc' = "callback" => /\ trigfd' \in Fds /\ peer'[trigfd'] # None
                           /\ events'[trigfd'] = {} /\ interest'[trigfd'] = "IN"
    BY <1>0 DEF EventsHold
  <2> QED
    BY <2>2, <2>3, <2>4 DEF EventsHold
<1>1. ASSUME NEW c \in Clients, Connect(c) PROVE EventsHold'
  <2>1. /\ \A d \in Clients : cstate[d] = "closed" => cstate'[d] = "closed"
        /\ UNCHANGED <<events, trigfd, peer, interest, pc>>
    BY <1>1 DEF Connect, loopVars, TypeOK
  <2> QED
    BY <1>0, <2>1
<1>2. ASSUME NEW c \in Clients, Send(c) \/ Recv(c) PROVE EventsHold'
  <2>1. UNCHANGED <<events, trigfd, peer, interest, pc, cstate>>
    BY <1>2 DEF Send, Recv, connVars, loopVars
  <2> QED
    BY <1>0, <2>1
<1>3. ASSUME NEW c \in Clients, Close(c) PROVE EventsHold'
  <2>1. /\ \A d \in Clients : cstate[d] = "closed" => cstate'[d] = "closed"
        /\ UNCHANGED <<events, trigfd, peer, interest, pc>>
    BY <1>3 DEF Close, connVars, loopVars, TypeOK
  <2> QED
    BY <1>0, <2>1
<1>4. CASE EpollWait
  <2>1. /\ pc' = "loop" /\ UNCHANGED <<trigfd, peer, interest, cstate>>
        /\ events' = [f \in DOMAIN events |-> IF f \in ready THEN Revents(f) ELSE {}]
    BY <1>4 DEF EpollWait, clientVars, connVars
  <2>2. ASSUME NEW f \in Fds, events'[f] # {}
        PROVE  /\ peer'[f] # None
               /\ "IN" \in events'[f] => interest'[f] = "IN"
               /\ "OUT" \in events'[f] => interest'[f] = "OUT"
               /\ "HUP" \in events'[f] => cstate'[peer'[f]] = "closed"
    <3>1. events'[f] = Revents(f) /\ f # sockfd
      BY <2>1, <2>2, UdsAssumption DEF TypeOK
    <3> QED
      BY <2>1, <2>2, <3>1 DEF Revents, Poll
  <2> QED
    BY <2>1, <2>2 DEF EventsHold
<1>5. CASE AcceptEvent
  <2>1. PICK f \in Fds : /\ peer[f] = None
                         /\ peer' = [peer EXCEPT ![f] = Head(backlog)]
                         /\ interest' = [interest EXCEPT ![f] = "IN"]
    BY <1>5 DEF AcceptEvent, IsLowestFree
  <2>2. Processed(sockfd) /\ UNCHANGED <<cstate, trigfd>>
    BY <1>5 DEF AcceptEvent, clientVars
  <2>3. /\ pc' \in {"wait", "loop"}
        /\ \A g \in Fds \cup {sockfd} : events'[g] = IF g = sockfd THEN {} ELSE events[g]
        /\ pc' = "wait" => \A g \in Fds \cup {sockfd} : events'[g] = {}
    BY <2>2, ProcessedEvents
  <2>4. events[f] = {}
    BY <2>1 DEF EventsHold
  <2>5. \A g \in Fds : g # f => peer'[g] = peer[g] /\ interest'[g] = interest[g]
    BY <2>1 DEF TypeOK
  <2>6. \A g \in Fds : events'[g] # {} => g # f /\ events'[g] = events[g]
    BY <2>3, <2>4
  <2> QED
    BY <2>2, <2>3, <2>5, <2>6 DEF EventsHold
<1>6. CASE Die
  BY <1>0, <1>6 DEF Die, clientVars, connVars
<1>7. ASSUME NEW f \in Fds, HupEvent(f) PROVE EventsHold'
  <2>1. /\ peer' = [peer EXCEPT ![f] = None]
        /\ UNCHANGED <<cstate, interest, trigfd>> /\ Processed(f)
    BY <1>7 DEF HupEvent, clientVars
  <2>2. /\ pc' \in {"wait", "loop"}
        /\ \A g \in Fds \cup {sockfd} : events'[g] = IF g = f THEN {} ELSE events[g]
        /\ pc' = "wait" => \A g \in Fds \cup {sockfd} : events'[g] = {}
    BY <2>1, ProcessedEvents
  <2>3. \A g \in Fds : events'[g] # {} => g # f /\ events'[g] = events[g] /\ peer'[g] = peer[g]
    BY <2>1, <2>2 DEF TypeOK
  <2> QED
    BY <2>1, <2>2, <2>3 DEF EventsHold
<1>8. ASSUME NEW f \in Fds, InEvent(f) PROVE EventsHold'
  <2>1. CASE Unread(peer[f]) = 0
    BY <1>0, <1>8, <2>1 DEF InEvent, Die, clientVars, connVars
  <2>2. CASE Unread(peer[f]) # 0
    <3>1. /\ trigfd' = f /\ pc' = "callback"
          /\ events' = [events EXCEPT ![f] = {}]
          /\ UNCHANGED <<cstate, peer, interest>>
      BY <1>8, <2>2 DEF InEvent, clientVars
    <3>2. peer[f] # None /\ interest[f] = "IN"
      BY <1>8 DEF InEvent, EventsHold
    <3>3. events'[f] = {} /\ \A g \in Fds : g # f => events'[g] = events[g]
      BY <3>1 DEF TypeOK
    <3> QED
      BY <3>1, <3>2, <3>3 DEF EventsHold
  <2> QED
    BY <2>1, <2>2
<1>9. ASSUME NEW f \in Fds, OutEvent(f) PROVE EventsHold'
  <2>1. /\ interest' = [interest EXCEPT ![f] = "IN"]
        /\ UNCHANGED <<cstate, peer, trigfd>> /\ Processed(f)
    BY <1>9 DEF OutEvent, Writable, clientVars
  <2>2. /\ pc' \in {"wait", "loop"}
        /\ \A g \in Fds \cup {sockfd} : events'[g] = IF g = f THEN {} ELSE events[g]
        /\ pc' = "wait" => \A g \in Fds \cup {sockfd} : events'[g] = {}
    BY <2>1, ProcessedEvents
  <2>3. \A g \in Fds : events'[g] # {} => g # f /\ events'[g] = events[g] /\ interest'[g] = interest[g]
    BY <2>1, <2>2 DEF TypeOK
  <2> QED
    BY <2>1, <2>2, <2>3 DEF EventsHold
<1>10. CASE CallbackSends \/ CallbackIsSilent
  <2>1. /\ trigfd \in Fds /\ events[trigfd] = {}
        /\ pc' = IF \A g \in DOMAIN events : events[g] = {} THEN "wait" ELSE "loop"
        /\ interest' = [interest EXCEPT ![trigfd] = "OUT"]
        /\ UNCHANGED <<cstate, peer, events, trigfd>>
    BY <1>10 DEF CallbackSends, CallbackIsSilent, SwitchToOut, clientVars, EventsHold
  <2>2. \A g \in Fds : events'[g] # {} => interest'[g] = interest[g]
    BY <2>1 DEF TypeOK
  <2>3. pc' # "callback" /\ (pc' = "wait" => \A g \in Fds \cup {sockfd} : events'[g] = {})
    BY <2>1 DEF TypeOK
  <2> QED
    BY <2>1, <2>2, <2>3 DEF EventsHold
<1>11. CASE UNCHANGED vars
  BY <1>0, <1>11 DEF vars, clientVars, connVars, loopVars
<1> QED
  BY <1>1, <1>2, <1>3, <1>4, <1>5, <1>6, <1>7, <1>8, <1>9, <1>10, <1>11, StepCases

-----------------------------------------------------------------------------
(* Blocking calls. *)

\* A queue something was appended to is not empty.
LEMMA AppendNotEmpty ==
  ASSUME NEW S, NEW s \in Seq(S), NEW e \in S
  PROVE  Append(s, e) # <<>>
<1>1. Len(Append(s, e)) = Len(s) + 1 /\ Len(s) \in Nat
  OBVIOUS
<1>2. Len(<<>>) = 0
  OBVIOUS
<1>3. Len(Append(s, e)) # Len(<<>>)
  BY <1>1, <1>2
<1> QED
  BY <1>3, Zenon

\* An event in the array stays true until its turn: only the handler of a
\* descriptor uses up what made it ready.
LEMMA HandlersNeverBlockStep == IInv /\ [Next]_vars => HandlersNeverBlock'
<1> SUFFICES ASSUME IInv, [Next]_vars PROVE HandlersNeverBlock'
  OBVIOUS
<1> USE DEF IInv
<1>0. ASSUME UNCHANGED <<events, peer, taken>>,
             backlog # <<>> => backlog' # <<>>,
             \A c \in Clients : sent'[c] \in Nat /\ sent'[c] >= sent[c]
      PROVE  HandlersNeverBlock'
  <2>1. events'[sockfd] # {} => backlog' # <<>>
    BY <1>0 DEF HandlersNeverBlock
  <2>2. ASSUME NEW f \in Fds, "IN" \in events'[f], "HUP" \notin events'[f]
        PROVE  peer'[f] # None /\ (Unread(peer[f]) > 0)'
    <3>1. /\ peer[f] # None /\ peer[f] \in Clients /\ Unread(peer[f]) > 0
      BY <1>0, <2>2 DEF HandlersNeverBlock, TypeOK
    <3>2. sent[peer[f]] - taken[peer[f]] > 0 /\ sent[peer[f]] \in Nat /\ taken[peer[f]] \in Nat
      BY <3>1 DEF Unread, TypeOK
    <3>3. sent'[peer[f]] - taken[peer[f]] > 0
      BY <1>0, <3>1, <3>2
    <3> QED
      BY <1>0, <3>1, <3>3 DEF Unread
  <2> QED
    BY <2>1, <2>2 DEF HandlersNeverBlock
<1>1. ASSUME NEW c \in Clients, Connect(c) PROVE HandlersNeverBlock'
  <2>1. /\ UNCHANGED <<events, peer, taken, sent>> /\ backlog' = Append(backlog, c)
    BY <1>1 DEF Connect, loopVars
  <2>2. backlog' # <<>>
    <3>1. backlog \in Seq(Clients)
      BY DEF TypeOK
    <3> QED
      BY <2>1, <3>1, AppendNotEmpty
  <2>3. \A d \in Clients : sent'[d] \in Nat /\ sent'[d] >= sent[d]
    BY <2>1 DEF TypeOK
  <2> QED
    BY <1>0, <2>1, <2>2, <2>3
<1>2. ASSUME NEW c \in Clients, Send(c) PROVE HandlersNeverBlock'
  <2>1. UNCHANGED <<events, peer, taken, backlog>> /\ sent' = [sent EXCEPT ![c] = @ + 1]
    BY <1>2 DEF Send, connVars, loopVars
  <2>2. \A d \in Clients : sent'[d] \in Nat /\ sent'[d] >= sent[d]
    BY <2>1 DEF TypeOK
  <2> QED
    BY <1>0, <2>1, <2>2
<1>3. ASSUME NEW c \in Clients, Recv(c) \/ Close(c) PROVE HandlersNeverBlock'
  <2>1. UNCHANGED <<events, peer, taken, backlog, sent>>
    BY <1>3 DEF Recv, Close, connVars, loopVars
  <2>2. \A d \in Clients : sent'[d] \in Nat /\ sent'[d] >= sent[d]
    BY <2>1 DEF TypeOK
  <2> QED
    BY <1>0, <2>1, <2>2
<1>4. CASE EpollWait
  <2>1. /\ UNCHANGED <<peer, taken, backlog, sent, cstate, interest>>
        /\ events' = [f \in DOMAIN events |-> IF f \in ready THEN Revents(f) ELSE {}]
    BY <1>4 DEF EpollWait, clientVars, connVars
  <2>2. events'[sockfd] # {} => backlog' # <<>>
    BY <2>1 DEF TypeOK, Revents
  <2>3. ASSUME NEW f \in Fds, "IN" \in events'[f], "HUP" \notin events'[f]
        PROVE  peer'[f] # None /\ (Unread(peer[f]) > 0)'
    <3>1. events'[f] = Revents(f) /\ f # sockfd
      BY <2>1, <2>3, UdsAssumption DEF TypeOK
    <3>2. peer[f] # None /\ Unread(peer[f]) > 0
      BY <2>3, <3>1 DEF Revents, Poll
    <3> QED
      BY <2>1, <3>2 DEF Unread
  <2> QED
    BY <2>2, <2>3 DEF HandlersNeverBlock
<1>5. CASE AcceptEvent
  <2>1. PICK f \in Fds : /\ peer[f] = None
                         /\ peer' = [peer EXCEPT ![f] = Head(backlog)]
    BY <1>5 DEF AcceptEvent, IsLowestFree
  <2>2. Processed(sockfd) /\ UNCHANGED <<sent, taken>>
    BY <1>5 DEF AcceptEvent, clientVars
  <2>3. \A g \in Fds \cup {sockfd} : events'[g] = IF g = sockfd THEN {} ELSE events[g]
    BY <2>2, ProcessedEvents
  <2>4. \A g \in Fds : events'[g] # {} => events'[g] = events[g] /\ peer'[g] = peer[g]
    BY <2>1, <2>3 DEF EventsHold, TypeOK
  <2> QED
    BY <2>2, <2>3, <2>4 DEF HandlersNeverBlock, Unread
<1>6. CASE Die
  BY <1>0, <1>6 DEF Die, clientVars, connVars, TypeOK
<1>7. ASSUME NEW f \in Fds, HupEvent(f) PROVE HandlersNeverBlock'
  <2>1. /\ peer' = [peer EXCEPT ![f] = None]
        /\ UNCHANGED <<sent, taken, backlog>> /\ Processed(f)
    BY <1>7 DEF HupEvent, clientVars
  <2>2. \A g \in Fds \cup {sockfd} : events'[g] = IF g = f THEN {} ELSE events[g]
    BY <2>1, ProcessedEvents
  <2>3. \A g \in Fds : events'[g] # {} => events'[g] = events[g] /\ peer'[g] = peer[g]
    BY <2>1, <2>2 DEF TypeOK
  <2>4. events'[sockfd] = events[sockfd]
    BY <2>2, UdsAssumption
  <2> QED
    BY <2>1, <2>3, <2>4 DEF HandlersNeverBlock, Unread
<1>8. ASSUME NEW f \in Fds, InEvent(f) PROVE HandlersNeverBlock'
  <2>1. CASE Unread(peer[f]) = 0
    BY <1>0, <1>8, <2>1 DEF InEvent, Die, clientVars, connVars, TypeOK
  <2>2. CASE Unread(peer[f]) # 0
    <3>1. /\ taken' = [taken EXCEPT ![peer[f]] = @ + 1]
          /\ events' = [events EXCEPT ![f] = {}]
          /\ UNCHANGED <<sent, peer, backlog>>
      BY <1>8, <2>2 DEF InEvent, clientVars
    <3>2. events'[sockfd] = events[sockfd] /\ events'[f] = {}
      BY <3>1, UdsAssumption DEF TypeOK
    <3>3. peer[f] # None
      BY <1>8 DEF InEvent, EventsHold
    <3>4. ASSUME NEW g \in Fds, "IN" \in events'[g], "HUP" \notin events'[g]
          PROVE  peer'[g] # None /\ (Unread(peer[g]) > 0)'
      <4>1. g # f /\ events'[g] = events[g]
        BY <3>1, <3>2, <3>4 DEF TypeOK
      <4>2. peer[g] # None /\ peer[g] # peer[f] /\ Unread(peer[g]) > 0
        BY <3>3, <3>4, <4>1 DEF HandlersNeverBlock, Placement
      <4>3. taken'[peer[g]] = taken[peer[g]]
        BY <3>1, <4>2 DEF TypeOK
      <4> QED
        BY <3>1, <4>2, <4>3 DEF Unread
    <3> QED
      BY <3>1, <3>2, <3>4 DEF HandlersNeverBlock
  <2> QED
    BY <2>1, <2>2
<1>9. ASSUME NEW f \in Fds, OutEvent(f) PROVE HandlersNeverBlock'
  <2>1. UNCHANGED <<peer, sent, taken, backlog>> /\ Processed(f)
    BY <1>9 DEF OutEvent, Writable, clientVars
  <2>2. \A g \in Fds \cup {sockfd} : events'[g] = IF g = f THEN {} ELSE events[g]
    BY <2>1, ProcessedEvents
  <2> QED
    BY <2>1, <2>2 DEF HandlersNeverBlock, Unread
<1>10. CASE CallbackSends \/ CallbackIsSilent
  <2>1. UNCHANGED <<peer, sent, taken, backlog, events>>
    BY <1>10 DEF CallbackSends, CallbackIsSilent, SwitchToOut, clientVars
  <2> QED
    BY <1>0, <2>1 DEF TypeOK
<1>11. CASE UNCHANGED vars
  BY <1>0, <1>11 DEF vars, clientVars, connVars, loopVars, TypeOK
<1> QED
  BY <1>1, <1>2, <1>3, <1>4, <1>5, <1>6, <1>7, <1>8, <1>9, <1>10, <1>11, StepCases

-----------------------------------------------------------------------------
(* Edge-triggered wake-ups. *)

\* A descriptor is brought up again: it is in the ready list, its event is
\* still in the array, its packet is in the callback, or the process ended.
Woken(f) ==
  \/ f \in ready
  \/ events[f] # {}
  \/ pc = "callback" /\ trigfd = f
  \/ pc = "dead"

\* Each step that can make a descriptor report something, or that uses up its
\* wake-up, puts it back on the ready list if something is left to report.
LEMMA NoLostWakeupStep == IInv /\ [Next]_vars => NoLostWakeup'
<1> SUFFICES ASSUME IInv, [Next]_vars PROVE NoLostWakeup'
  OBVIOUS
<1> USE DEF IInv
<1> SUFFICES ASSUME NEW f \in Fds, Revents(f)' # {} PROVE Woken(f)'
  BY DEF NoLostWakeup, Woken
<1>a. Revents(f) # {} => Woken(f)
  BY DEF NoLostWakeup, Woken
<1>b. f # sockfd
  BY UdsAssumption
<1>c. peer'[f] # None /\ Poll(peer[f], interest[f])' # {}
  BY <1>b DEF Revents
<1>1. ASSUME NEW c \in Clients, Connect(c) PROVE Woken(f)'
  <2>1. /\ UNCHANGED <<sent, peer, interest, taken, events, trigfd, pc>>
        /\ cstate' = [cstate EXCEPT ![c] = "open"] /\ ready \subseteq ready'
    BY <1>1 DEF Connect, loopVars
  <2>2. peer[f] \in Clients /\ peer[f] # None
    BY <2>1, <1>c DEF TypeOK
  <2>3. cstate'[peer[f]] = "closed" => cstate[peer[f]] = "closed"
    BY <2>1, <2>2 DEF TypeOK
  <2>4. Revents(f) # {}
    BY <1>b, <1>c, <2>1, <2>2, <2>3 DEF Revents, Poll, Unread
  <2> QED
    BY <1>a, <2>1, <2>4 DEF Woken
<1>2. ASSUME NEW c \in Clients, Send(c) PROVE Woken(f)'
  <2>1. /\ UNCHANGED <<cstate, peer, interest, taken, events, trigfd, pc>>
        /\ sent' = [sent EXCEPT ![c] = @ + 1]
        /\ ready' = ready \cup {g \in FdsOf(c) : interest[g] = "IN"}
    BY <1>2 DEF Send, connVars, loopVars
  <2>2. peer[f] \in Clients /\ peer[f] # None
    BY <2>1, <1>c DEF TypeOK
  <2>3. CASE peer[f] = c /\ interest[f] = "IN"
    BY <2>1, <2>3 DEF FdsOf, Woken
  <2>4. CASE interest[f] # "IN"
    <3>1. Revents(f) # {}
      BY <1>b, <1>c, <2>1, <2>2, <2>4 DEF Revents, Poll
    <3> QED
      BY <1>a, <2>1, <3>1 DEF Woken
  <2>5. CASE peer[f] # c
    <3>1. sent'[peer[f]] = sent[peer[f]]
      BY <2>1, <2>2, <2>5 DEF TypeOK
    <3>2. Revents(f) # {}
      BY <1>b, <1>c, <2>1, <2>2, <3>1 DEF Revents, Poll, Unread
    <3> QED
      BY <1>a, <2>1, <3>2 DEF Woken
  <2> QED
    BY <2>3, <2>4, <2>5
<1>3. ASSUME NEW c \in Clients, Recv(c) PROVE Woken(f)'
  <2>1. /\ UNCHANGED <<cstate, sent, peer, interest, taken, events, trigfd, pc>>
        /\ ready \subseteq ready'
    BY <1>3 DEF Recv, connVars, loopVars
  <2>2. Revents(f) # {}
    BY <1>b, <1>c, <2>1 DEF Revents, Poll, Unread
  <2> QED
    BY <1>a, <2>1, <2>2 DEF Woken
<1>4. ASSUME NEW c \in Clients, Close(c) PROVE Woken(f)'
  <2>1. /\ UNCHANGED <<sent, peer, interest, taken, events, trigfd, pc>>
        /\ cstate' = [cstate EXCEPT ![c] = "closed"]
        /\ ready' = ready \cup FdsOf(c)
    BY <1>4 DEF Close, connVars, loopVars
  <2>2. peer[f] \in Clients /\ peer[f] # None
    BY <2>1, <1>c DEF TypeOK
  <2>3. CASE peer[f] = c
    BY <2>1, <2>3 DEF FdsOf, Woken
  <2>4. CASE peer[f] # c
    <3>1. cstate'[peer[f]] = cstate[peer[f]]
      BY <2>1, <2>2, <2>4 DEF TypeOK
    <3>2. Revents(f) # {}
      BY <1>b, <1>c, <2>1, <2>2, <3>1 DEF Revents, Poll, Unread
    <3> QED
      BY <1>a, <2>1, <3>2 DEF Woken
  <2> QED
    BY <2>3, <2>4
<1>5. CASE EpollWait
  <2>1. /\ pc = "wait" /\ UNCHANGED <<peer, taken, backlog, sent, cstate, interest>>
        /\ events' = [g \in DOMAIN events |-> IF g \in ready THEN Revents(g) ELSE {}]
    BY <1>5 DEF EpollWait, clientVars, connVars
  <2>2. Revents(f) # {}
    BY <1>b, <1>c, <2>1 DEF Revents, Poll, Unread
  <2>3. f \in ready
    BY <1>a, <2>1, <2>2 DEF Woken, EventsHold
  <2> QED
    BY <2>1, <2>2, <2>3 DEF Woken, TypeOK
<1>6. CASE AcceptEvent
  <2>1. PICK h \in Fds : /\ peer[h] = None
                         /\ peer' = [peer EXCEPT ![h] = Head(backlog)]
                         /\ interest' = [interest EXCEPT ![h] = "IN"]
                         /\ ready' = IF Poll(Head(backlog), "IN") # {} THEN ready \cup {h} ELSE ready
    BY <1>6 DEF AcceptEvent, IsLowestFree
  <2>2. Processed(sockfd) /\ UNCHANGED <<cstate, sent, taken, trigfd>> /\ pc = "loop"
    BY <1>6 DEF AcceptEvent, clientVars
  <2>3. \A g \in Fds \cup {sockfd} : events'[g] = IF g = sockfd THEN {} ELSE events[g]
    BY <2>2, ProcessedEvents
  <2>4. CASE f = h
    <3>1. peer'[f] = Head(backlog) /\ interest'[f] = "IN"
      BY <2>1, <2>4 DEF TypeOK
    <3>2. Poll(Head(backlog), "IN") # {}
      BY <1>c, <2>2, <3>1 DEF Poll, Unread
    <3> QED
      BY <2>1, <2>4, <3>2 DEF Woken
  <2>5. CASE f # h
    <3>1. peer'[f] = peer[f] /\ interest'[f] = interest[f]
      BY <2>1, <2>5 DEF TypeOK
    <3>2. Revents(f) # {}
      BY <1>b, <1>c, <2>2, <3>1 DEF Revents, Poll, Unread
    <3>3. events'[f] = events[f] /\ ready \subseteq ready'
      BY <1>b, <2>1, <2>3
    <3> QED
      BY <1>a, <2>2, <3>2, <3>3 DEF Woken
  <2> QED
    BY <2>4, <2>5
<1>7. CASE Die
  BY <1>7 DEF Die, Woken
<1>8. ASSUME NEW h \in Fds, HupEvent(h) PROVE Woken(f)'
  <2>1. /\ peer' = [peer EXCEPT ![h] = None] /\ ready' = ready \ {h}
        /\ UNCHANGED <<cstate, interest, sent, taken, trigfd>> /\ Processed(h) /\ pc = "loop"
    BY <1>8 DEF HupEvent, clientVars
  <2>2. f # h /\ peer'[f] = peer[f]
    BY <1>c, <2>1 DEF TypeOK
  <2>3. events'[f] = events[f]
    BY <2>1, <2>2, ProcessedEvents
  <2>4. Revents(f) # {}
    BY <1>b, <1>c, <2>1, <2>2 DEF Revents, Poll, Unread
  <2> QED
    BY <1>a, <2>1, <2>2, <2>3, <2>4 DEF Woken
<1>9. ASSUME NEW h \in Fds, InEvent(h) PROVE Woken(f)'
  <2>1. CASE Unread(peer[h]) = 0
    BY <1>9, <2>1 DEF InEvent, Die, Woken
  <2>2. CASE Unread(peer[h]) # 0
    <3>1. /\ pc = "loop" /\ pc' = "callback" /\ trigfd' = h
          /\ taken' = [taken EXCEPT ![peer[h]] = @ + 1]
          /\ events' = [events EXCEPT ![h] = {}]
          /\ UNCHANGED <<cstate, sent, peer, interest, ready>>
      BY <1>9, <2>2 DEF InEvent, clientVars
    <3>2. CASE f = h
      BY <3>1, <3>2 DEF Woken
    <3>3. CASE f # h
      <4>1. peer[f] \in Clients /\ peer[f] # None /\ peer[f] # peer[h]
        BY <1>c, <3>1, <3>3 DEF Placement, TypeOK
      <4>2. taken'[peer[f]] = taken[peer[f]] /\ events'[f] = events[f]
        BY <3>1, <3>3, <4>1 DEF TypeOK
      <4>3. Revents(f) # {}
        BY <1>b, <1>c, <3>1, <4>1, <4>2 DEF Revents, Poll, Unread
      <4> QED
        BY <1>a, <3>1, <4>2, <4>3 DEF Woken
    <3> QED
      BY <3>2, <3>3
  <2> QED
    BY <2>1, <2>2
<1>10. ASSUME NEW h \in Fds, OutEvent(h) PROVE Woken(f)'
  <2>1. /\ interest' = [interest EXCEPT ![h] = "IN"] /\ pc = "loop" /\ Processed(h)
        /\ ready' = IF Poll(peer[h], "IN") # {} THEN ready \cup {h} ELSE ready
        /\ UNCHANGED <<cstate, sent, peer, taken, trigfd>>
    BY <1>10 DEF OutEvent, Writable, clientVars
  <2>2. CASE f = h
    <3>1. interest'[f] = "IN"
      BY <2>1, <2>2 DEF TypeOK
    <3>2. Poll(peer[f], "IN") # {}
      BY <1>c, <2>1, <3>1 DEF Poll, Unread
    <3> QED
      BY <2>1, <2>2, <3>2 DEF Woken
  <2>3. CASE f # h
    <3>1. interest'[f] = interest[f]
      BY <2>1, <2>3 DEF TypeOK
    <3>2. events'[f] = events[f]
      BY <2>1, <2>3, ProcessedEvents
    <3>3. Revents(f) # {}
      BY <1>b, <1>c, <2>1, <3>1 DEF Revents, Poll, Unread
    <3> QED
      BY <1>a, <2>1, <3>2, <3>3 DEF Woken
  <2> QED
    BY <2>2, <2>3
<1>11. CASE CallbackSends \/ CallbackIsSilent
  <2>1. /\ trigfd \in Fds /\ pc = "callback"
        /\ interest' = [interest EXCEPT ![trigfd] = "OUT"] /\ ready' = ready \cup {trigfd}
        /\ UNCHANGED <<cstate, sent, peer, taken, events, trigfd>>
    BY <1>11 DEF CallbackSends, CallbackIsSilent, SwitchToOut, clientVars, EventsHold
  <2>2. CASE f = trigfd
    BY <2>1, <2>2 DEF Woken
  <2>3. CASE f # trigfd
    <3>1. interest'[f] = interest[f]
      BY <2>1, <2>3 DEF TypeOK
    <3>2. Revents(f) # {}
      BY <1>b, <1>c, <2>1, <3>1 DEF Revents, Poll, Unread
    <3> QED
      BY <1>a, <2>1, <2>3, <3>2 DEF Woken
  <2> QED
    BY <2>2, <2>3
<1>12. CASE UNCHANGED vars
  <2>1. UNCHANGED <<cstate, sent, peer, interest, taken, ready, events, trigfd, pc>>
    BY <1>12 DEF vars, clientVars, connVars, loopVars
  <2>2. Revents(f) # {}
    BY <1>b, <1>c, <2>1 DEF Revents, Poll, Unread
  <2> QED
    BY <1>a, <2>1, <2>2 DEF Woken
<1> QED
  BY <1>1, <1>2, <1>3, <1>4, <1>5, <1>6, <1>7, <1>8, <1>9, <1>10, <1>11,
     <1>12, StepCases

-----------------------------------------------------------------------------
(* The order of the replies. *)

\* pack_ only ever moves forward: the callback of a request overwrites it with
\* a request that was read later than any answered before.
LEMMA LatestAnswerStep == IInv /\ [Next]_vars => LatestAnswer'
<1> SUFFICES ASSUME IInv, [Next]_vars PROVE LatestAnswer'
  OBVIOUS
<1> USE DEF IInv
<1>r. \A c \in Clients : \A i \in 1..Len(replies[c]) :
        replies[c][i][1] \in Clients /\ replies[c][i][2] \in Nat
  <2>1. \A c \in Clients : replies[c] \in Seq(Requests)
    BY DEF TypeOK
  <2>2. \A c \in Clients : \A i \in 1..Len(replies[c]) : replies[c][i] \in Requests
    BY <2>1
  <2> QED
    BY <2>2 DEF Requests
<1>p. pack_ # None => pack_[1] \in Clients /\ pack_[2] \in Nat
  BY DEF TypeOK, Requests
<1>0. ASSUME UNCHANGED <<replies, pack_, taken>> PROVE LatestAnswer'
  BY <1>0 DEF LatestAnswer
<1>1. ASSUME NEW c \in Clients, Connect(c) \/ Send(c) \/ Recv(c) \/ Close(c)
      PROVE LatestAnswer'
  BY <1>0, <1>1 DEF Connect, Send, Recv, Close, connVars, loopVars
<1>2. CASE EpollWait \/ AcceptEvent \/ Die \/ CallbackIsSilent \/ UNCHANGED vars
  <2>1. UNCHANGED <<replies, pack_, taken>>
    BY <1>2 DEF EpollWait, AcceptEvent, Die, CallbackIsSilent, SwitchToOut,
                vars, connVars, loopVars
  <2> QED
    BY <1>0, <2>1
<1>3. ASSUME NEW f \in Fds, HupEvent(f) PROVE LatestAnswer'
  BY <1>0, <1>3 DEF HupEvent
<1>4. ASSUME NEW f \in Fds, InEvent(f) PROVE LatestAnswer'
  <2>1. CASE Unread(peer[f]) = 0
    BY <1>0, <1>4, <2>1 DEF InEvent, Die, connVars
  <2>2. CASE Unread(peer[f]) # 0
    <3>1. /\ taken' = [taken EXCEPT ![peer[f]] = @ + 1] /\ UNCHANGED <<replies, pack_>>
      BY <1>4, <2>2 DEF InEvent
    <3>2. \A c \in Clients : taken[c] \in Nat /\ taken'[c] \in Nat /\ taken[c] <= taken'[c]
      BY <3>1 DEF TypeOK
    <3>3. \A c \in Clients : \A i \in 1..Len(replies[c]) :
             replies[c][i][2] <= taken'[replies[c][i][1]]
      <4> SUFFICES ASSUME NEW c \in Clients, NEW i \in 1..Len(replies[c])
                   PROVE  replies[c][i][2] <= taken'[replies[c][i][1]]
        OBVIOUS
      <4>1. replies[c][i][1] \in Clients /\ replies[c][i][2] \in Nat
        BY <1>r
      <4>2. replies[c][i][2] <= taken[replies[c][i][1]]
        BY DEF LatestAnswer
      <4> QED
        BY <3>2, <4>1, <4>2
    <3>4. pack_ # None => pack_[2] <= taken'[pack_[1]]
      BY <1>p, <3>2 DEF LatestAnswer
    <3> QED
      BY <3>1, <3>3, <3>4 DEF LatestAnswer
  <2> QED
    BY <2>1, <2>2
<1>5. ASSUME NEW f \in Fds, OutEvent(f) PROVE LatestAnswer'
  <2>1. peer[f] \in Clients /\ pack_ \in Requests /\ pack_ # None
    BY <1>5 DEF OutEvent, Writable, EventsHold, TypeOK
  <2>2. /\ replies' = [replies EXCEPT ![peer[f]] = Append(@, pack_)]
        /\ UNCHANGED <<taken, pack_>>
    BY <1>5 DEF OutEvent, Writable
  <2>3. ASSUME NEW c \in Clients, NEW i \in 1..Len(replies'[c])
        PROVE  replies'[c][i] = pack_ \/ (i \in 1..Len(replies[c]) /\ replies'[c][i] = replies[c][i])
    <3>1. CASE c = peer[f]
      <4>1. replies'[c] = Append(replies[c], pack_) /\ replies[c] \in Seq(Requests)
        BY <2>1, <2>2, <3>1 DEF TypeOK
      <4> QED
        BY <2>1, <2>3, <4>1
    <3>2. CASE c # peer[f]
      BY <2>2, <2>3, <3>2 DEF TypeOK
    <3> QED
      BY <3>1, <3>2
  <2>4. ASSUME NEW c \in Clients, NEW i \in 1..Len(replies'[c])
        PROVE  /\ replies'[c][i][2] <= taken'[replies'[c][i][1]]
               /\ replies'[c][i][1] = pack_'[1] => replies'[c][i][2] <= pack_'[2]
    <3>1. CASE replies'[c][i] = pack_
      BY <1>p, <2>1, <2>2, <3>1 DEF LatestAnswer
    <3>2. CASE i \in 1..Len(replies[c]) /\ replies'[c][i] = replies[c][i]
      BY <2>1, <2>2, <3>2 DEF LatestAnswer
    <3> QED
      BY <2>3, <3>1, <3>2
  <2> QED
    BY <2>1, <2>2, <2>4 DEF LatestAnswer
<1>6. CASE CallbackSends
  <2>1. /\ trigfd \in Fds /\ peer[trigfd] \in Clients
        /\ pack_' = <<peer[trigfd], taken[peer[trigfd]]>> /\ UNCHANGED <<replies, taken>>
    BY <1>6 DEF CallbackSends, SwitchToOut, EventsHold, TypeOK
  <2>2. pack_'[1] = peer[trigfd] /\ pack_'[2] = taken[peer[trigfd]] /\ taken[peer[trigfd]] \in Nat
    BY <2>1 DEF TypeOK
  <2> QED
    BY <2>1, <2>2 DEF LatestAnswer
<1> QED
  BY <1>1, <1>2, <1>3, <1>4, <1>5, <1>6, StepCases

\* A new reply is pack_, no older than any answer given before to anybody;
\* and the connection has read one request more than it has been answered.
LEMMA RepliesInOrderStep == IInv /\ [Next]_vars => RepliesInOrder'
<1> SUFFICES ASSUME IInv, [Next]_vars PROVE RepliesInOrder'
  OBVIOUS
<1> USE DEF IInv
<1>0. ASSUME UNCHANGED replies PROVE RepliesInOrder'
  BY <1>0 DEF RepliesInOrder
<1>1. ASSUME NEW c \in Clients, Connect(c) \/ Send(c) \/ Recv(c) \/ Close(c)
      PROVE RepliesInOrder'
  BY <1>0, <1>1 DEF Connect, Send, Recv, Close, connVars
<1>2. CASE \/ EpollWait \/ AcceptEvent \/ Die \/ CallbackSends
           \/ CallbackIsSilent \/ UNCHANGED vars
  <2>1. UNCHANGED replies
    BY <1>2 DEF EpollWait, AcceptEvent, Die, CallbackSends, CallbackIsSilent,
                SwitchToOut, vars, connVars
  <2> QED
    BY <1>0, <2>1
<1>3. ASSUME NEW f \in Fds, HupEvent(f) \/ InEvent(f) PROVE RepliesInOrder'
  BY <1>0, <1>3 DEF HupEvent, InEvent, Die, connVars
<1>4. ASSUME NEW f \in Fds, OutEvent(f) PROVE RepliesInOrder'
  <2>1. /\ peer[f] \in Clients /\ peer[f] # None /\ interest[f] = "OUT"
        /\ pack_ \in Requests /\ pack_ # None
    BY <1>4 DEF OutEvent, Writable, EventsHold, TypeOK
  <2>2. replies' = [replies EXCEPT ![peer[f]] = Append(@, pack_)]
    BY <1>4 DEF OutEvent, Writable
  <2>3. ASSUME NEW c \in Clients
        PROVE  \A i \in 1..Len(replies'[c]) :
                 /\ replies'[c][i][1] = c => replies'[c][i][2] <= i
                 /\ \A j \in 1..i : replies'[c][j][1] = replies'[c][i][1]
                                       => replies'[c][j][2] <= replies'[c][i][2]
    <3>1. CASE c # peer[f]
      <4>1. replies'[c] = replies[c]
        BY <2>2, <3>1 DEF TypeOK
      <4> QED
        BY <4>1 DEF RepliesInOrder
    <3>2. CASE c = peer[f]
      <4> DEFINE old == replies[c]
                 n == Len(replies[c])
      <4>1. replies'[c] = Append(old, pack_) /\ old \in Seq(Requests) /\ n \in Nat
        BY <2>1, <2>2, <3>2 DEF TypeOK
      <4>2. /\ Len(replies'[c]) = n + 1 /\ replies'[c][n + 1] = pack_
            /\ \A i \in 1..n : replies'[c][i] = old[i]
        BY <2>1, <4>1
      <4>3. pack_[1] \in Clients /\ pack_[2] \in Nat /\ taken[c] \in Nat /\ taken[c] = n + 1
        BY <1>4, <2>1, <3>2 DEF OutEvent, Writable, HalfDuplex, Owes, Requests, TypeOK
      <4>4. /\ pack_[1] = c => pack_[2] <= n + 1
            /\ \A i \in 1..n : old[i][1] = pack_[1] => old[i][2] <= pack_[2]
        BY <2>1, <4>3 DEF LatestAnswer
      <4>5. \A i \in 1..(n + 1) : i = n + 1 \/ i \in 1..n
        BY <4>1
      <4>6. ASSUME NEW i \in 1..n
            PROVE  /\ replies'[c][i][1] = c => replies'[c][i][2] <= i
                   /\ \A j \in 1..i : replies'[c][j][1] = replies'[c][i][1]
                                         => replies'[c][j][2] <= replies'[c][i][2]
        <5>1. \A j \in 1..i : j \in 1..n
          BY <4>1
        <5> QED
          BY <4>2, <4>6, <5>1 DEF RepliesInOrder
      <4>7. /\ replies'[c][n + 1][1] = c => replies'[c][n + 1][2] <= n + 1
            /\ \A j \in 1..(n + 1) : replies'[c][j][1] = replies'[c][n + 1][1]
                                         => replies'[c][j][2] <= replies'[c][n + 1][2]
        <5>1. replies'[c][n + 1][1] = c => replies'[c][n + 1][2] <= n + 1
          BY <4>2, <4>4
        <5>2. ASSUME NEW j \in 1..(n + 1), replies'[c][j][1] = replies'[c][n + 1][1]
              PROVE  replies'[c][j][2] <= replies'[c][n + 1][2]
          <6>1. CASE j = n + 1
            BY <4>2, <4>3, <6>1
          <6>2. CASE j \in 1..n
            BY <4>2, <4>4, <5>2, <6>2
          <6> QED
            BY <4>5, <6>1, <6>2
        <5> QED
          BY <5>1, <5>2
      <4> QED
        BY <4>2, <4>5, <4>6, <4>7
    <3> QED
      BY <3>1, <3>2
  <2> QED
    BY <2>3 DEF RepliesInOrder
<1> QED
  BY <1>1, <1>2, <1>3, <1>4, StepCases

-----------------------------------------------------------------------------
(* The results. *)

\* IInv is inductive.
LEMMA IInvStep == IInv /\ [Next]_vars => IInv'
BY TypeStep, PlacementStep, OpenIsPlacedStep, HalfDuplexStep, EventsHoldStep, HandlersNeverBlockStep,
   NoLostWakeupStep, LatestAnswerStep, RepliesInOrderStep DEF IInv

\* The inductive invariant holds in every behaviour of the server.
THEOREM Invariance == Spec => []IInv
<1>1. Init => IInv
  BY InitIInv
<1>2. IInv /\ [Next]_vars => IInv'
  BY IInvStep
<1> QED
  BY <1>1, <1>2, PTL DEF Spec

\* Every variable of the loop keeps its type.
THEOREM TypeCorrect == Spec => []TypeOK
<1>1. IInv => TypeOK
  BY DEF IInv
<1> QED
  BY <1>1, Invariance, PTL

\* accept, the peek and recvmsg of run() never block the thread on a socket:
\* whatever the clients do, the event that selected the branch is still true.
THEOREM NeverBlocks == Spec => []HandlersNeverBlock
<1>1. IInv => HandlersNeverBlock
  BY DEF IInv
<1> QED
  BY <1>1, Invariance, PTL

\* No edge of an accepted connection is lost.
THEOREM WakeupsKept == Spec => []NoLostWakeup
<1>1. IInv => NoLostWakeup
  BY DEF IInv
<1> QED
  BY <1>1, Invariance, PTL

\* The replies of a connection never go back in time.
THEOREM RepliesOrdered == Spec => []RepliesInOrder
<1>1. IInv => RepliesInOrder
  BY DEF IInv
<1> QED
  BY <1>1, Invariance, PTL
=============================================================================
