-------------------------- MODULE UdsServerRefinement --------------------------
(***************************************************************************)
(* UdsServer implements RequestReply: the initial state maps to an initial *)
(* state, and every step of the loop maps to a step of the abstract server *)
(* or leaves its state alone.  The mapping needs the inductive invariant   *)
(* of UdsServerProofs.                                                     *)
(***************************************************************************)
EXTENDS UdsServerProofs

\* Whether c is waiting in the backlog, and whether it is behind a descriptor.
Queued(c) == \E i \in 1..Len(backlog) : backlog[i] = c
Served(c) == \E f \in Fds : peer[f] = c

\* The abstract link, without the set of descriptors.
LEMMA LinkCases ==
  ASSUME NEW c \in Clients
  PROVE  /\ Links[c] = IF Served(c) THEN "up"
                       ELSE IF cstate[c] = "new" \/ Queued(c) THEN "none" ELSE "down"
         /\ Links'[c] = IF Served(c)' THEN "up"
                        ELSE IF cstate'[c] = "new" \/ Queued(c)' THEN "none" ELSE "down"
BY DEF Links, Link, FdsOf, Served, Queued

\* A step that moves no client leaves every link as it was.
LEMMA LinksUnchanged ==
  ASSUME UNCHANGED <<peer, backlog>>,
         \A c \in Clients : (cstate'[c] = "new") = (cstate[c] = "new")
  PROVE  Links' = Links
<1>1. \A c \in Clients : Link(c)' = Link(c)
  BY DEF Link, FdsOf
<1> QED
  BY <1>1 DEF Links

\* The process ends: nothing else of the abstract state changes.
LEMMA DieRefines ==
  ASSUME Die
  PROVE  RR!Crash \/ UNCHANGED RR!vars
<1>1. Links' = Links
  BY LinksUnchanged DEF Die, clientVars, connVars
<1>2. Answered' = Answered
  BY DEF Answered, Die, connVars
<1>3. Alive \in BOOLEAN /\ Alive' = FALSE /\ InService' = None
  BY DEF Alive, InService, Die
<1>4. UNCHANGED <<sent, taken>>
  BY DEF Die, clientVars, connVars
<1>5. Alive = FALSE => InService = None
  BY DEF Alive, InService
<1> QED
  BY <1>1, <1>2, <1>3, <1>4, <1>5 DEF RR!Crash, RR!vars

\* The initial state of the loop is one of the abstract server.
LEMMA InitRefines == Init => RR!Init
<1> SUFFICES ASSUME Init PROVE RR!Init
  OBVIOUS
<1>1. \A c \in Clients : Link(c) = "none"
  BY UdsAssumption DEF Init, Link, FdsOf
<1>2. Links = [c \in Clients |-> "none"]
  BY <1>1 DEF Links
<1>3. Answered = [c \in Clients |-> 0]
  BY DEF Init, Answered
<1>4. InService = None /\ Alive = TRUE
  BY DEF Init, InService, Alive
<1> QED
  BY <1>2, <1>3, <1>4 DEF RR!Init, Init

\* Every step of the loop is a step of the abstract server, or none.
LEMMA StepRefines == IInv /\ [Next]_vars => [RR!Next]_(RR!vars)
<1> SUFFICES ASSUME IInv, [Next]_vars PROVE RR!Next \/ UNCHANGED RR!vars
  OBVIOUS
<1> USE DEF IInv
<1>0. ASSUME Links' = Links, InService' = InService, UNCHANGED <<sent, taken, replies>>,
             (pc' = "dead") = (pc = "dead")
      PROVE  UNCHANGED RR!vars
  <2>1. Answered' = Answered /\ Alive' = Alive
    BY <1>0 DEF Answered, Alive
  <2> QED
    BY <1>0, <2>1 DEF RR!vars
<1>1. ASSUME NEW c \in Clients, Connect(c) PROVE UNCHANGED RR!vars
  <2>1. /\ cstate[c] = "new" /\ cstate' = [cstate EXCEPT ![c] = "open"]
        /\ backlog' = Append(backlog, c)
        /\ UNCHANGED <<sent, peer, interest, taken, replies, pc, trigfd>>
    BY <1>1 DEF Connect, loopVars
  <2>2. /\ Len(backlog) \in Nat /\ Len(backlog') = Len(backlog) + 1
        /\ \A i \in 1..Len(backlog) : backlog'[i] = backlog[i]
        /\ backlog'[Len(backlog) + 1] = c
    BY <2>1 DEF TypeOK
  <2>3. ~Served(c) /\ Queued(c)'
    <3>1. c # None
      BY UdsAssumption
    <3>2. ~Served(c)
      BY <2>1, <3>1 DEF Served, Placement
    <3> QED
      BY <2>2, <3>2 DEF Queued
  <2>4. ASSUME NEW d \in Clients PROVE Links'[d] = Links[d]
    <3>1. Served(d)' = Served(d)
      BY <2>1 DEF Served
    <3>2. CASE d = c
      BY <2>1, <2>3, <3>1, <3>2, LinkCases
    <3>3. CASE d # c
      <4>1. Queued(d)' = Queued(d)
        BY <2>2, <3>3 DEF Queued
      <4>2. cstate'[d] = cstate[d]
        BY <2>1, <3>3 DEF TypeOK
      <4> QED
        BY <3>1, <4>1, <4>2, LinkCases
    <3> QED
      BY <3>2, <3>3
  <2>5. Links' = Links
    BY <2>4 DEF Links
  <2> QED
    BY <1>0, <2>1, <2>5 DEF InService
<1>2. ASSUME NEW c \in Clients, Send(c) PROVE RR!Ask(c)
  <2>1. /\ pc # "dead" /\ cstate[c] = "open" /\ sent' = [sent EXCEPT ![c] = @ + 1]
        /\ UNCHANGED <<cstate, backlog, peer, interest, taken, replies, pc, trigfd>>
    BY <1>2 DEF Send, connVars, loopVars
  <2>2. Links' = Links
    BY <2>1, LinksUnchanged
  <2>3. Links[c] # "down"
    BY <2>1, LinkCases DEF OpenIsPlaced, Served, Queued
  <2>4. Alive = TRUE /\ Alive' = TRUE /\ InService' = InService /\ Answered' = Answered
    BY <2>1 DEF Alive, InService, Answered
  <2> QED
    BY <2>1, <2>2, <2>3, <2>4 DEF RR!Ask
<1>3. ASSUME NEW c \in Clients, Recv(c) PROVE UNCHANGED RR!vars
  <2>1. UNCHANGED <<cstate, sent, backlog, peer, taken, replies, pc, trigfd>>
    BY <1>3 DEF Recv, connVars, loopVars
  <2> QED
    BY <1>0, <2>1, LinksUnchanged DEF InService
<1>4. ASSUME NEW c \in Clients, Close(c) PROVE UNCHANGED RR!vars
  <2>1. /\ cstate[c] = "open" /\ cstate' = [cstate EXCEPT ![c] = "closed"]
        /\ UNCHANGED <<sent, backlog, peer, taken, replies, pc, trigfd>>
    BY <1>4 DEF Close, connVars, loopVars
  <2>2. \A d \in Clients : (cstate'[d] = "new") = (cstate[d] = "new")
    BY <2>1 DEF TypeOK
  <2> QED
    BY <1>0, <2>1, <2>2, LinksUnchanged DEF InService
<1>5. CASE EpollWait
  <2>1. /\ pc = "wait" /\ pc' = "loop"
        /\ UNCHANGED <<cstate, sent, backlog, peer, taken, replies, trigfd>>
    BY <1>5 DEF EpollWait, clientVars, connVars
  <2> QED
    BY <1>0, <2>1, LinksUnchanged DEF InService
<1>6. CASE AcceptEvent
  <2>1. PICK f \in Fds : /\ peer[f] = None
                         /\ peer' = [peer EXCEPT ![f] = Head(backlog)]
    BY <1>6 DEF AcceptEvent, IsLowestFree
  <2>2. /\ backlog # <<>> /\ backlog' = Tail(backlog) /\ pc = "loop" /\ pc' \in {"wait", "loop"}
        /\ UNCHANGED <<cstate, sent, taken, replies>>
    BY <1>6 DEF AcceptEvent, Processed, clientVars
  <2>3. /\ Len(backlog) \in Nat /\ Len(backlog) > 0 /\ Head(backlog) = backlog[1]
        /\ backlog[1] \in Clients
        /\ Len(backlog') = Len(backlog) - 1
        /\ \A i \in 1..Len(backlog') : backlog'[i] = backlog[i + 1]
    BY <2>2 DEF TypeOK
  <2>h. PICK h \in Clients : h = backlog[1]
    BY <2>3
  <2>4. \A g \in Fds : peer'[g] = IF g = f THEN h ELSE peer[g]
    BY <2>1, <2>3, <2>h DEF TypeOK
  <2>5. Queued(h) /\ ~Served(h) /\ Served(h)'
    <3>1. h # None
      BY <2>3, UdsAssumption
    <3>2. Queued(h)
      BY <2>3, <2>h DEF Queued
    <3>3. ~Served(h)
      BY <2>3, <2>h, <3>1 DEF Served, Placement
    <3> QED
      BY <2>4, <3>2, <3>3 DEF Served
  <2>6. Links[h] = "none" /\ Links'[h] = "up"
    BY <2>3, <2>5, LinkCases
  <2>7. ASSUME NEW d \in Clients, d # h PROVE Links'[d] = Links[d]
    <3>1. d # None
      BY UdsAssumption
    <3>2. Served(d)' = Served(d)
      BY <2>1, <2>4, <2>7, <3>1 DEF Served
    <3>3. Queued(d)' => Queued(d)
      BY <2>3 DEF Queued
    <3>4. ASSUME NEW i \in 1..Len(backlog), backlog[i] = d PROVE Queued(d)'
      <4>1. i - 1 \in 1..Len(backlog') /\ backlog'[i - 1] = d
        BY <2>3, <2>h, <2>7, <3>4
      <4> QED
        BY <4>1 DEF Queued
    <3>5. Queued(d) => Queued(d)'
      BY <3>4 DEF Queued
    <3> QED
      BY <2>2, <3>2, <3>3, <3>5, LinkCases
  <2>8. Links' = [Links EXCEPT ![h] = "up"]
    BY <2>3, <2>6, <2>7 DEF Links
  <2>9. /\ Alive = TRUE /\ Alive' = TRUE /\ Answered' = Answered
        /\ InService = None /\ InService' = None
    BY <2>2 DEF Alive, InService, Answered
  <2>10. RR!Establish(h)
    BY <2>2, <2>6, <2>8, <2>9 DEF RR!Establish
  <2> QED
    BY <2>3, <2>10 DEF RR!Next
<1>7. CASE Die
  BY <1>7, DieRefines DEF RR!Next
<1>8. ASSUME NEW f \in Fds, HupEvent(f) PROVE RR!Next
  <2>c. PICK c \in Clients : c = peer[f]
    BY <1>8 DEF HupEvent, EventsHold, TypeOK
  <2>1. /\ c # None /\ c \in Clients /\ cstate[c] = "closed"
    BY <1>8, <2>c DEF HupEvent, EventsHold
  <2>2. /\ peer' = [peer EXCEPT ![f] = None] /\ pc = "loop" /\ pc' \in {"wait", "loop"}
        /\ UNCHANGED <<cstate, sent, backlog, taken, replies>>
    BY <1>8 DEF HupEvent, Processed, clientVars
  <2>3. \A g \in Fds : peer'[g] = IF g = f THEN None ELSE peer[g]
    BY <2>2 DEF TypeOK
  <2>4. Served(c) /\ ~Served(c)' /\ ~Queued(c)'
    <3>1. Served(c)
      BY <2>c DEF Served
    <3>2. ~Served(c)'
      BY <2>c, <2>1, <2>3 DEF Served, Placement
    <3>3. ~Queued(c)'
      BY <2>c, <2>1, <2>2 DEF Queued, Placement
    <3> QED
      BY <3>1, <3>2, <3>3
  <2>5. Links[c] = "up" /\ Links'[c] = "down"
    BY <2>1, <2>2, <2>4, LinkCases
  <2>6. ASSUME NEW d \in Clients, d # c PROVE Links'[d] = Links[d]
    <3>1. d # None
      BY UdsAssumption
    <3>2. Served(d)' = Served(d)
      BY <2>c, <2>3, <2>6, <3>1 DEF Served
    <3>3. Queued(d)' = Queued(d)
      BY <2>2 DEF Queued
    <3> QED
      BY <2>2, <3>2, <3>3, LinkCases
  <2>7. Links' = [Links EXCEPT ![c] = "down"]
    BY <2>1, <2>5, <2>6 DEF Links
  <2>8. /\ Alive = TRUE /\ Alive' = TRUE /\ Answered' = Answered
        /\ InService = None /\ InService' = None
    BY <2>2 DEF Alive, InService, Answered
  <2>9. RR!Drop(c)
    BY <2>2, <2>5, <2>7, <2>8 DEF RR!Drop
  <2> QED
    BY <2>1, <2>9 DEF RR!Next
<1>9. ASSUME NEW f \in Fds, InEvent(f) PROVE RR!Next \/ UNCHANGED RR!vars
  <2>1. CASE Unread(peer[f]) = 0
    BY <1>9, <2>1, DieRefines DEF InEvent, RR!Next
  <2>2. CASE Unread(peer[f]) # 0
    <3> DEFINE c == peer[f]
    <3>1. /\ c # None /\ c \in Clients /\ Unread(c) > 0 /\ interest[f] = "IN"
      BY <1>9 DEF InEvent, HandlersNeverBlock, EventsHold, TypeOK
    <3>2. /\ pc = "loop" /\ pc' = "callback" /\ trigfd' = f
          /\ taken' = [taken EXCEPT ![c] = @ + 1]
          /\ UNCHANGED <<cstate, sent, backlog, peer, replies>>
      BY <1>9, <2>2 DEF InEvent, clientVars
    <3>3. taken[c] < sent[c] /\ taken[c] = Len(replies[c])
      <4>1. sent[c] \in Nat /\ taken[c] \in Nat
        BY <3>1 DEF TypeOK
      <4>2. ~Owes(f)
        BY <3>1, <3>2 DEF Owes
      <4> QED
        BY <3>1, <3>2, <4>1, <4>2 DEF HalfDuplex, Unread
    <3>4. Links[c] = "up" /\ Links' = Links
      <4>1. Served(c)
        BY DEF Served
      <4> QED
        BY <3>1, <3>2, <4>1, LinkCases, LinksUnchanged
    <3>5. /\ Alive = TRUE /\ Alive' = TRUE /\ Answered' = Answered /\ Answered[c] = Len(replies[c])
          /\ InService = None /\ InService' = c
      BY <3>1, <3>2 DEF Alive, InService, Answered
    <3>6. RR!Take(c)
      BY <3>2, <3>3, <3>4, <3>5 DEF RR!Take
    <3> QED
      BY <3>1, <3>6 DEF RR!Next
  <2> QED
    BY <2>1, <2>2
<1>10. ASSUME NEW f \in Fds, OutEvent(f) PROVE RR!Next
  <2> DEFINE c == peer[f]
  <2>1. /\ c # None /\ c \in Clients /\ interest[f] = "OUT" /\ pack_ \in Requests
    BY <1>10 DEF OutEvent, Writable, EventsHold, TypeOK
  <2>2. /\ pc = "loop" /\ pc' \in {"wait", "loop"}
        /\ replies' = [replies EXCEPT ![c] = Append(@, pack_)]
        /\ UNCHANGED <<cstate, sent, backlog, peer, taken>>
    BY <1>10 DEF OutEvent, Writable, Processed, clientVars
  <2>3. \A d \in Clients : Len(replies'[d]) = IF d = c THEN Len(replies[d]) + 1 ELSE Len(replies[d])
    <3>1. replies[c] \in Seq(Requests)
      BY <2>1 DEF TypeOK
    <3>2. Len(Append(replies[c], pack_)) = Len(replies[c]) + 1
      BY <2>1, <3>1
    <3>3. \A d \in Clients : replies'[d] = IF d = c THEN Append(replies[d], pack_) ELSE replies[d]
      BY <2>2 DEF TypeOK
    <3> QED
      BY <3>2, <3>3
  <2>4. Len(replies[c]) < taken[c]
    <3>1. Len(replies[c]) \in Nat /\ taken[c] = Len(replies[c]) + 1
      BY <2>1, <2>2 DEF HalfDuplex, Owes, TypeOK
    <3> QED
      BY <3>1
  <2>5. Answered' = [Answered EXCEPT ![c] = @ + 1] /\ Answered[c] = Len(replies[c])
    BY <2>1, <2>3 DEF Answered
  <2>6. Links[c] = "up" /\ Links' = Links
    <3>1. Served(c)
      BY DEF Served
    <3> QED
      BY <2>1, <2>2, <3>1, LinkCases, LinksUnchanged
  <2>7. Alive = TRUE /\ Alive' = TRUE /\ InService = None /\ InService' = None
    BY <2>2 DEF Alive, InService
  <2>8. RR!Answer(c)
    BY <2>2, <2>4, <2>5, <2>6, <2>7 DEF RR!Answer
  <2> QED
    BY <2>1, <2>8 DEF RR!Next
<1>11. CASE CallbackSends \/ CallbackIsSilent
  <2>1. /\ pc = "callback" /\ pc' \in {"wait", "loop"} /\ peer[trigfd] # None
        /\ UNCHANGED <<cstate, sent, backlog, peer, taken, replies>>
    BY <1>11 DEF CallbackSends, CallbackIsSilent, SwitchToOut, clientVars, EventsHold
  <2>2. Links' = Links
    BY <2>1, LinksUnchanged
  <2>3. Alive = TRUE /\ Alive' = TRUE /\ InService # None /\ InService' = None /\ Answered' = Answered
    BY <2>1 DEF Alive, InService, Answered
  <2> QED
    BY <2>1, <2>2, <2>3 DEF RR!Finish, RR!Next
<1>12. CASE UNCHANGED vars
  <2>1. UNCHANGED <<cstate, sent, backlog, peer, taken, replies, pc, trigfd>>
    BY <1>12 DEF vars, clientVars, connVars, loopVars
  <2> QED
    BY <1>0, <2>1, LinksUnchanged DEF InService
<1>13. ASSUME NEW c \in Clients, Send(c) PROVE RR!Next
  BY <1>2, <1>13 DEF RR!Next
<1> QED
  BY <1>1, <1>3, <1>4, <1>5, <1>6, <1>7, <1>8, <1>9, <1>10, <1>11, <1>12,
     <1>13, StepCases

\* The loop implements the request/reply server.
THEOREM Refinement == Spec => ImplementsRequestReply
<1>1. Init => RR!Init
  BY InitRefines
<1>2. IInv /\ [Next]_vars => [RR!Next]_(RR!vars)
  BY StepRefines
<1> QED
  BY <1>1, <1>2, Invariance, PTL DEF Spec, ImplementsRequestReply, RR!Spec

-----------------------------------------------------------------------------
\* A step that leaves an event in the array leaves its descriptor alone.
LEMMA StepKeepsEvents ==
  ASSUME IInv, [Next]_vars, NEW f \in Fds, events[f] # {}, events'[f] # {}
  PROVE  peer'[f] = peer[f] /\ interest'[f] = interest[f]
<1> USE DEF IInv
<1>1. CASE \E c \in Clients : Connect(c) \/ Send(c) \/ Recv(c) \/ Close(c)
  BY <1>1 DEF Connect, Send, Recv, Close, connVars
<1>2. CASE EpollWait \/ Die \/ UNCHANGED vars
  BY <1>2 DEF EpollWait, Die, connVars, vars
<1>3. CASE AcceptEvent
  <2>1. PICK g \in Fds : /\ peer[g] = None
                         /\ peer' = [peer EXCEPT ![g] = Head(backlog)]
                         /\ interest' = [interest EXCEPT ![g] = "IN"]
    BY <1>3 DEF AcceptEvent, IsLowestFree
  <2>2. g # f
    BY <2>1 DEF EventsHold
  <2> QED
    BY <2>1, <2>2 DEF TypeOK
<1>4. ASSUME NEW g \in Fds, HupEvent(g)
      PROVE  peer'[f] = peer[f] /\ interest'[f] = interest[f]
  BY <1>4 DEF HupEvent, Processed, TypeOK
<1>5. ASSUME NEW g \in Fds, InEvent(g)
      PROVE  peer'[f] = peer[f] /\ interest'[f] = interest[f]
  BY <1>5 DEF InEvent, Die, connVars
<1>6. ASSUME NEW g \in Fds, OutEvent(g)
      PROVE  peer'[f] = peer[f] /\ interest'[f] = interest[f]
  BY <1>6 DEF OutEvent, Writable, Die, connVars, Processed, TypeOK
<1>7. CASE CallbackSends \/ CallbackIsSilent
  BY <1>7 DEF CallbackSends, CallbackIsSilent, SwitchToOut, EventsHold, TypeOK
<1> QED
  BY <1>1, <1>2, <1>3, <1>4, <1>5, <1>6, <1>7, StepCases

\* An event is handled on the connection and for the interest it was raised
\* for, although descriptor numbers are closed and reused within a round.
THEOREM EventsStayCurrent == Spec => EventsCurrent
<1>1. IInv /\ [Next]_vars =>
        [\A f \in Fds : events[f] # {} /\ events'[f] # {}
            => peer'[f] = peer[f] /\ interest'[f] = interest[f]]_vars
  BY StepKeepsEvents
<1> QED
  BY <1>1, Invariance, PTL DEF Spec, EventsCurrent

-----------------------------------------------------------------------------
\* The one step that takes a connection off its descriptor is the handling of
\* a hang-up, and the client hung up before the event was raised.
LEMMA StepDropsClosed ==
  ASSUME IInv, [Next]_vars, NEW f \in Fds, peer[f] # None, peer'[f] # peer[f]
  PROVE  cstate[peer[f]] = "closed"
<1> USE DEF IInv
<1>1. CASE \E c \in Clients : Connect(c) \/ Send(c) \/ Recv(c) \/ Close(c)
  BY <1>1 DEF Connect, Send, Recv, Close, connVars
<1>2. CASE EpollWait \/ Die \/ UNCHANGED vars
  BY <1>2 DEF EpollWait, Die, connVars, vars
<1>3. CASE AcceptEvent
  <2>1. PICK g \in Fds : peer[g] = None /\ peer' = [peer EXCEPT ![g] = Head(backlog)]
    BY <1>3 DEF AcceptEvent, IsLowestFree
  <2> QED
    BY <2>1 DEF TypeOK
<1>4. ASSUME NEW g \in Fds, HupEvent(g)
      PROVE  cstate[peer[f]] = "closed"
  <2>1. "HUP" \in events[g] /\ peer' = [peer EXCEPT ![g] = None]
    BY <1>4 DEF HupEvent
  <2>2. g = f
    BY <2>1 DEF TypeOK
  <2> QED
    BY <2>1, <2>2 DEF EventsHold
<1>5. ASSUME NEW g \in Fds, InEvent(g)
      PROVE  cstate[peer[f]] = "closed"
  BY <1>5 DEF InEvent, Die, connVars
<1>6. ASSUME NEW g \in Fds, OutEvent(g)
      PROVE  cstate[peer[f]] = "closed"
  BY <1>6 DEF OutEvent, connVars
<1>7. CASE CallbackSends \/ CallbackIsSilent
  BY <1>7 DEF CallbackSends, CallbackIsSilent, SwitchToOut
<1> QED
  BY <1>1, <1>2, <1>3, <1>4, <1>5, <1>6, <1>7, StepCases

\* run() closes the descriptor of no connection whose client still holds it.
THEOREM DropsClosedOnly == Spec => DropsOnlyClosed
<1>1. IInv /\ [Next]_vars =>
        [\A f \in Fds : peer[f] # None /\ peer'[f] # peer[f]
            => cstate[peer[f]] = "closed"]_vars
  BY StepDropsClosed
<1> QED
  BY <1>1, Invariance, PTL DEF Spec, DropsOnlyClosed
=============================================================================
