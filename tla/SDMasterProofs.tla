---------------------------- MODULE SDMasterProofs ----------------------------
(***************************************************************************)
(* Proofs about SDMaster for any finders, registrars and services.  The    *)
(* master is first shown to be one of the servers of UdsServer, so that    *)
(* every theorem of UdsServerProofs holds of it; its own invariant SDInv   *)
(* then rests on IInv.                                                     *)
(***************************************************************************)
EXTENDS SDMaster, UdsServerRefinement

\* The steps of the master, one by one.
LEMMA SDStepCases ==
  ASSUME [SDNext]_allVars
  PROVE  \/ \E c \in Clients : Receive(c) \/ ((Connect(c) \/ Send(c) \/ Close(c)) /\ UNCHANGED sdVars)
         \/ (EpollWait \/ AcceptEvent \/ AcceptFails) /\ UNCHANGED sdVars
         \/ \E f \in Fds :
              \/ (HupEvent(f) \/ InEvent(f) \/ RespondFails(f)) /\ UNCHANGED sdVars
              \/ Respond(f)
         \/ FindLocal \/ FindRemote \/ QueryFails \/ OfferLocal
         \/ RemoteOffer \/ RemoteOther
         \/ UNCHANGED allVars
BY DEF SDNext, ProgramNext, ThreadNext, RespondFails

\* A step of the master is a step of the loop, or leaves the loop alone.
LEMMA StepIsLoopStep == [SDNext]_allVars => [Next]_vars
<1> SUFFICES ASSUME [SDNext]_allVars PROVE Next \/ UNCHANGED vars
  OBVIOUS
<1>1. ASSUME NEW c \in Clients, Receive(c) \/ Connect(c) \/ Send(c) \/ Close(c)
      PROVE  Next
  BY <1>1 DEF Receive, Next, ClientNext
<1>2. CASE EpollWait \/ AcceptEvent \/ AcceptFails
  BY <1>2 DEF Next, LoopNext
<1>3. ASSUME NEW f \in Fds, HupEvent(f) \/ InEvent(f) \/ Respond(f) \/ RespondFails(f)
      PROVE  Next
  BY <1>3 DEF Next, LoopNext, Respond, RespondFails
<1>4. CASE FindLocal \/ QueryFails \/ OfferLocal \/ RemoteOffer \/ RemoteOther
  BY <1>4 DEF FindLocal, QueryFails, OfferLocal, RemoteOffer, RemoteOther, Next
<1>5. CASE FindRemote \/ UNCHANGED allVars
  BY <1>5 DEF FindRemote, allVars
<1> QED
  BY <1>1, <1>2, <1>3, <1>4, <1>5, SDStepCases

\* The master is one of the servers UdsServer describes.
THEOREM MasterImplementsLoop == SDSpec => ImplementsLoop
<1>1. SDInit => Init
  BY DEF SDInit
<1>2. [SDNext]_allVars => [Next]_vars
  BY StepIsLoopStep
<1> QED
  BY <1>1, <1>2, PTL DEF SDSpec, Spec, ImplementsLoop

\* With the callback in it the loop is still the request/reply server that
\* RequestReply describes, with events applied to the connections they were
\* raised for, and no edge and no open connection lost.
COROLLARY MasterImplementsRequestReply ==
  SDSpec => /\ ImplementsRequestReply
            /\ EventsCurrent /\ DropsOnlyClosed /\ []NoLostWakeup
BY MasterImplementsLoop, Refinement, EventsStayCurrent, DropsClosedOnly, WakeupsKept, PTL
   DEF ImplementsLoop

\* The master's thread never blocks on a client's socket (in UdpClient::Recv it
\* does: that is the callback's business).
COROLLARY MasterNeverBlocksOnClients == SDSpec => []HandlersNeverBlock
BY MasterImplementsLoop, NeverBlocks, PTL DEF ImplementsLoop

-----------------------------------------------------------------------------
\* Requests that have been read stay read.
LEMMA TakenGrows ==
  ASSUME IInv, [Next]_vars
  PROVE  \A c \in Clients : taken[c] > 0 => taken'[c] > 0
<1> USE DEF IInv
<1>1. CASE UNCHANGED taken
  BY <1>1
<1>2. ASSUME NEW f \in Fds, InEvent(f)
      PROVE  \A c \in Clients : taken[c] > 0 => taken'[c] > 0
  <2>1. CASE Unread(peer[f]) = 0
    BY <1>2, <2>1 DEF InEvent, Die, connVars
  <2>2. CASE Unread(peer[f]) # 0
    <3>1. taken' = [taken EXCEPT ![peer[f]] = @ + 1]
      BY <1>2, <2>2 DEF InEvent
    <3> QED
      BY <3>1 DEF TypeOK
  <2> QED
    BY <2>1, <2>2
<1>3. ASSUME NEW c \in Clients, Connect(c) \/ Send(c) \/ Recv(c) \/ Close(c)
      PROVE  UNCHANGED taken
  BY <1>3 DEF Connect, Send, Recv, Close, connVars
<1>4. ASSUME NEW f \in Fds, HupEvent(f) \/ OutEvent(f)
      PROVE  UNCHANGED taken
  BY <1>4 DEF HupEvent, OutEvent
<1>5. CASE EpollWait \/ AcceptEvent \/ CallbackSends \/ CallbackIsSilent \/ Die \/ UNCHANGED vars
  BY <1>5 DEF EpollWait, AcceptEvent, CallbackSends, CallbackIsSilent, SwitchToOut, Die,
              vars, connVars
<1> QED
  BY <1>1, <1>2, <1>3, <1>4, <1>5, StepCases

\* In the callback, the client it serves has had a request read.
LEMMA AskerWasRead ==
  ASSUME IInv, pc = "callback"
  PROVE  trigfd \in Fds /\ Asker \in Clients /\ taken[Asker] > 0
<1> USE DEF IInv
<1>1. trigfd \in Fds /\ Asker \in Clients /\ Asker # None
  BY DEF EventsHold, TypeOK, Asker
<1>2. taken[Asker] = Len(replies[Asker]) + 1
  BY <1>1 DEF HalfDuplex, Owes, Asker
<1>3. Len(replies[Asker]) \in Nat
  BY <1>1 DEF TypeOK
<1> QED
  BY <1>1, <1>2, <1>3

\* The initial state satisfies the invariant.
LEMMA SDInitInv == SDInit => SDInv
<1> SUFFICES ASSUME SDInit PROVE SDInv
  OBVIOUS
<1>1. SDTypeOK
  BY DEF SDInit, SDTypeOK, Extents
<1>2. pack_ = None
  BY DEF SDInit, Init
<1>3. LocalAnswerIsRegistered /\ RegistrationsStored
  BY DEF SDInit, Init, LocalAnswerIsRegistered, RegistrationsStored, Registrars, SDAssumption
<1> QED
  BY <1>1, <1>2, <1>3 DEF SDInit, SDInv

\* The service id that arrives is a number.
LEMMA ArrivedType == \A c \in Clients : Arrived(c) \in Nat
BY SDAssumption DEF Arrived

\* A step that reads nothing, sends nothing and leaves the programs' outcomes
\* alone: no registration escapes the map, which only grows.
LEMMA StoredUnchanged ==
  ASSUME RegistrationsStored, UNCHANGED <<taken, replies, outcome>>,
         local_service_map_ \subseteq local_service_map_',
         pc = "callback" => \/ UNCHANGED <<pc, peer, trigfd>>
                            \/ Asker \in Finders
                            \/ Arrived(Asker) \in local_service_map_'
  PROVE  RegistrationsStored'
<1> SUFFICES ASSUME NEW s \in Registrars
             PROVE  /\ taken'[s] > 0 => \/ Arrived(s)' \in local_service_map_'
                                        \/ pc' = "callback" /\ Asker' = s
                    /\ replies'[s] # <<>> \/ outcome'[s] = "registered"
                         => Arrived(s)' \in local_service_map_'
  BY DEF RegistrationsStored
<1>1. Arrived(s)' = Arrived(s) /\ s \notin Finders
  BY DEF Arrived, Registrars
<1>2. /\ taken[s] > 0 => Arrived(s) \in local_service_map_ \/ (pc = "callback" /\ Asker = s)
      /\ replies[s] # <<>> \/ outcome[s] = "registered" => Arrived(s) \in local_service_map_
  BY DEF RegistrationsStored
<1>3. UNCHANGED <<pc, peer, trigfd>> => Asker' = Asker
  BY DEF Asker
<1> QED
  BY <1>1, <1>2, <1>3

\* The part of a step that leaves the master's own variables alone.
LEMMA SDUnchanged ==
  ASSUME IInv, SDInv, [Next]_vars, UNCHANGED <<local_service_map_, send_buffer_, answer>>,
         SDTypeOK', pack_' = pack_, RegistrationsStored',
         phase' = "asking" => /\ pc' = "callback" /\ Asker' \in Finders
                              /\ Arrived(Asker)' \notin local_service_map_'
  PROVE  SDInv'
<1>1. Announced => Announced'
  BY TakenGrows, SDAssumption DEF Announced, Registrars
<1>2. LocalAnswerIsRegistered'
  BY <1>1 DEF SDInv, LocalAnswerIsRegistered, Announced
<1> QED
  BY <1>1, <1>2 DEF SDInv

\* Every step preserves the invariant.
LEMMA SDInvStep == IInv /\ IInv' /\ SDInv /\ [SDNext]_allVars => SDInv'
<1> SUFFICES ASSUME IInv, IInv', SDInv, [SDNext]_allVars PROVE SDInv'
  OBVIOUS
<1>a. [Next]_vars
  BY StepIsLoopStep
<1>b. Announced => Announced'
  BY <1>a, TakenGrows, SDAssumption DEF Announced, Registrars
<1>c. SDTypeOK /\ RegistrationsStored
  BY DEF SDInv
<1>d. \A c \in Clients : Arrived(c)' = Arrived(c)
  BY DEF Arrived
<1>1. ASSUME NEW c \in Clients, Receive(c) PROVE SDInv'
  <2>1. PICK o \in Outcomes(c) : outcome' = [outcome EXCEPT ![c] = o]
    BY <1>1 DEF Receive
  <2>2. /\ UNCHANGED <<phase, local_service_map_, send_buffer_, data_size, answer,
                       pack_, pc, peer, trigfd, taken, replies>>
        /\ got[c] < Len(replies[c])
    BY <1>1 DEF Receive, Recv, connVars, loopVars
  <2>3. SDTypeOK'
    BY <2>1, <2>2, <1>c DEF SDTypeOK, Outcomes
  <2>4. replies[c] # <<>>
    BY <2>2 DEF IInv, TypeOK
  <2>5. RegistrationsStored'
    <3> SUFFICES ASSUME NEW s \in Registrars, outcome'[s] = "registered"
                 PROVE  Arrived(s) \in local_service_map_
      BY <1>c, <1>d, <2>2 DEF RegistrationsStored, Registrars, Asker
    <3>1. outcome'[s] = IF s = c THEN o ELSE outcome[s]
      BY <2>1, <1>c DEF SDTypeOK, Registrars
    <3> QED
      BY <3>1, <2>4, <1>c DEF RegistrationsStored
  <2>6. phase' = "asking" => /\ pc' = "callback" /\ Asker' \in Finders
                             /\ Arrived(Asker)' \notin local_service_map_'
    BY <2>2 DEF SDInv, Asker, Arrived
  <2> QED
    BY <1>a, <2>2, <2>3, <2>5, <2>6, SDUnchanged
<1>2. ASSUME UNCHANGED <<sdVars, pack_, taken, replies>>,
             pc \in {"wait", "loop"} \/ UNCHANGED <<pc, peer, trigfd>>
      PROVE SDInv'
  <2>1. SDTypeOK'
    BY <1>2, <1>c DEF SDTypeOK, sdVars
  <2>2. phase' = "asking" => /\ pc' = "callback" /\ Asker' \in Finders
                             /\ Arrived(Asker)' \notin local_service_map_'
    BY <1>2 DEF SDInv, sdVars, Asker, Arrived
  <2>3. RegistrationsStored'
    BY <1>2, <1>c, StoredUnchanged DEF sdVars
  <2> QED
    BY <1>a, <1>2, <2>1, <2>2, <2>3, SDUnchanged DEF sdVars
<1>3. ASSUME NEW c \in Clients, Connect(c) \/ Send(c) \/ Close(c), UNCHANGED sdVars
      PROVE SDInv'
  BY <1>2, <1>3 DEF Connect, Send, Close, connVars, loopVars
<1>4. CASE (EpollWait \/ AcceptEvent \/ AcceptFails) /\ UNCHANGED sdVars
  BY <1>2, <1>4 DEF EpollWait, AcceptEvent, AcceptFails, Processed, Die, connVars
<1>5. ASSUME NEW f \in Fds, HupEvent(f) \/ RespondFails(f), UNCHANGED sdVars PROVE SDInv'
  <2>1. pc = "loop" /\ UNCHANGED <<pack_, taken, replies>>
    BY <1>5 DEF HupEvent, RespondFails, SendFails, Writable, Die, connVars
  <2> QED
    BY <1>2, <1>5, <2>1
\* A request is read: the callback is at it.
<1>13. ASSUME NEW f \in Fds, InEvent(f), UNCHANGED sdVars PROVE SDInv'
  <2>1. pc = "loop" /\ Unread(peer[f]) > 0 /\ peer[f] \in Clients
    BY <1>13 DEF InEvent, IInv, HandlersNeverBlock, TypeOK
  <2>2. /\ taken' = [taken EXCEPT ![peer[f]] = @ + 1] /\ pc' = "callback" /\ Asker' = peer[f]
        /\ UNCHANGED <<pack_, replies>>
    BY <1>13, <2>1 DEF InEvent, Asker
  <2>3. RegistrationsStored'
    <3> SUFFICES ASSUME NEW s \in Registrars, taken'[s] > 0, Asker' # s
                 PROVE  Arrived(s) \in local_service_map_
      BY <1>13, <1>c, <1>d, <2>2 DEF RegistrationsStored, Registrars, sdVars
    <3>1. taken[s] > 0
      BY <2>1, <2>2 DEF IInv, TypeOK, Registrars
    <3> QED
      BY <3>1, <2>1, <1>c DEF RegistrationsStored
  <2>4. SDTypeOK'
    BY <1>13, <1>c DEF SDTypeOK, sdVars
  <2>5. phase' # "asking"
    BY <1>13, <2>1, <1>c DEF SDInv, sdVars
  <2> QED
    BY <1>a, <1>13, <2>2, <2>3, <2>4, <2>5, SDUnchanged DEF sdVars
<1>6. ASSUME NEW f \in Fds, Respond(f) PROVE SDInv'
  <2>1. /\ pc = "loop" /\ pack_ # None /\ "OUT" \in events[f]
        /\ answer' = [answer EXCEPT ![peer[f]] = send_buffer_]
        /\ replies' = [replies EXCEPT ![peer[f]] = Append(@, pack_)]
        /\ UNCHANGED <<phase, local_service_map_, send_buffer_, data_size, outcome, taken, pack_>>
    BY <1>6 DEF Respond, OutEvent, Writable
  <2>2. \A c \in Clients : answer'[c] = answer[c] \/ answer'[c] = send_buffer_
    BY <2>1, <1>c DEF SDTypeOK
  <2>3. send_buffer_ # "none" /\ phase # "asking"
    BY <1>c, <2>1 DEF SDTypeOK, SDInv
  <2>4. SDTypeOK'
    <3>1. send_buffer_ # "unset"
      BY <2>1 DEF SDInv
    <3> QED
      BY <1>c, <2>1, <3>1 DEF SDTypeOK
  <2>5. RegistrationsStored'
    <3>1. ASSUME NEW s \in Registrars, taken[s] > 0 PROVE Arrived(s) \in local_service_map_
      BY <1>c, <2>1, <3>1 DEF RegistrationsStored
    <3>2. peer[f] \in Clients /\ taken[peer[f]] > 0
      <4>1. peer[f] \in Clients /\ peer[f] # None /\ Owes(f)
        BY <2>1 DEF IInv, TypeOK, EventsHold, Owes
      <4>2. taken[peer[f]] = Len(replies[peer[f]]) + 1 /\ Len(replies[peer[f]]) \in Nat
        BY <2>1, <4>1 DEF IInv, HalfDuplex, TypeOK
      <4> QED
        BY <4>1, <4>2
    <3>3. \A s \in Registrars : s # peer[f] => replies'[s] = replies[s]
      BY <2>1 DEF IInv, TypeOK, Registrars
    <3> QED
      BY <1>c, <1>d, <2>1, <3>1, <3>2, <3>3 DEF RegistrationsStored, Registrars
  <2>6. LocalAnswerIsRegistered'
    BY <1>b, <2>2 DEF SDInv, LocalAnswerIsRegistered, Announced
  <2> QED
    BY <1>b, <2>1, <2>3, <2>4, <2>5, <2>6 DEF SDInv
<1>7. CASE FindLocal
  <2>1. /\ pc = "callback" /\ phase = "idle" /\ Asker \in Finders /\ local_service_map_ # {}
        /\ send_buffer_' = "LOCAL"
        /\ UNCHANGED <<phase, local_service_map_, data_size, answer, outcome, taken, replies>>
    BY <1>7 DEF FindLocal, InCallback, CallbackSends, SwitchToOut
  <2>2. Announced
    BY <2>1 DEF SDInv
  <2>3. SDTypeOK'
    BY <1>c, <2>1 DEF SDTypeOK
  <2>4. LocalAnswerIsRegistered' /\ RegistrationsStored'
    BY <1>b, <1>c, <2>1, <2>2, StoredUnchanged DEF LocalAnswerIsRegistered, Announced
  <2> QED
    BY <1>b, <2>1, <2>2, <2>3, <2>4 DEF SDInv
<1>8. CASE FindRemote \/ QueryFails
  <2>1. /\ pc = "callback" /\ phase = "idle" /\ Asker \in Finders
        /\ Arrived(Asker) \notin local_service_map_
        /\ phase' = "asking" => UNCHANGED <<pc, peer, trigfd>>
        /\ phase' \in {"idle", "asking"} /\ send_buffer_' = "FIND"
        /\ UNCHANGED <<local_service_map_, data_size, answer, outcome, pack_, taken, replies>>
    BY <1>8 DEF FindRemote, QueryFails, InCallback, CallbackThrows, Die, vars, connVars, loopVars
  <2>2. SDTypeOK'
    BY <1>c, <2>1 DEF SDTypeOK
  <2>3. phase' = "asking" => /\ pc' = "callback" /\ Asker' \in Finders
                             /\ Arrived(Asker)' \notin local_service_map_'
    BY <2>1 DEF Asker, Arrived
  <2>4. LocalAnswerIsRegistered' /\ RegistrationsStored'
    BY <1>b, <1>c, <2>1, StoredUnchanged DEF SDInv, LocalAnswerIsRegistered, Announced
  <2> QED
    BY <1>b, <2>1, <2>2, <2>3, <2>4 DEF SDInv
<1>9. CASE RemoteOffer
  <2>1. /\ pc = "callback" /\ Asker \in Finders /\ phase' = "idle" /\ send_buffer_' = "REMOTE"
        /\ UNCHANGED <<local_service_map_, data_size, answer, outcome, taken, replies>>
    BY <1>9 DEF RemoteOffer, SDInv, CallbackSends, SwitchToOut
  <2>2. SDTypeOK'
    BY <1>c, <2>1 DEF SDTypeOK
  <2>3. LocalAnswerIsRegistered' /\ RegistrationsStored'
    BY <1>b, <1>c, <2>1, StoredUnchanged DEF SDInv, LocalAnswerIsRegistered, Announced
  <2> QED
    BY <1>b, <2>1, <2>2, <2>3 DEF SDInv
<1>10. CASE RemoteOther
  <2>1. /\ pc = "callback" /\ Asker \in Finders /\ phase' = "idle"
        /\ UNCHANGED <<local_service_map_, send_buffer_, data_size, answer, outcome,
                       pack_, taken, replies>>
    BY <1>10 DEF RemoteOther, CallbackIsSilent, SwitchToOut, SDInv
  <2>2. SDTypeOK'
    BY <1>c, <2>1 DEF SDTypeOK
  <2>3. RegistrationsStored'
    BY <1>c, <2>1, StoredUnchanged
  <2> QED
    BY <1>a, <2>1, <2>2, <2>3, SDUnchanged
\* A registration is stored.
<1>11. CASE OfferLocal
  <2>1. /\ pc = "callback" /\ phase = "idle" /\ Asker \in Registrars
        /\ local_service_map_' = local_service_map_ \cup {Arrived(Asker)}
        /\ UNCHANGED <<phase, send_buffer_, data_size, answer, outcome, pack_, taken, replies>>
    BY <1>11 DEF OfferLocal, InCallback, CallbackIsSilent, SwitchToOut
  <2>2. Announced
    BY <2>1, AskerWasRead DEF Announced
  <2>3. SDTypeOK'
    BY <1>c, <2>1, ArrivedType DEF SDTypeOK, Registrars
  <2>4. LocalAnswerIsRegistered' /\ RegistrationsStored'
    BY <1>b, <1>c, <2>1, StoredUnchanged DEF SDInv, LocalAnswerIsRegistered, Announced
  <2> QED
    BY <1>b, <2>1, <2>2, <2>3, <2>4 DEF SDInv
<1>12. CASE UNCHANGED allVars
  BY <1>2, <1>12 DEF allVars, vars, connVars, loopVars
<1> QED
  BY <1>1, <1>3, <1>4, <1>5, <1>6, <1>7, <1>8, <1>9, <1>10, <1>11, <1>12, <1>13, SDStepCases

-----------------------------------------------------------------------------
\* The master's invariant holds in every behaviour, together with the loop's.
THEOREM SDInvariance == SDSpec => []SDInv
<1>1. SDInit => SDInv
  BY SDInitInv
<1>2. IInv /\ IInv' /\ SDInv /\ [SDNext]_allVars => SDInv'
  BY SDInvStep
<1>3. SDSpec => []IInv
  BY MasterImplementsLoop, Invariance, PTL DEF ImplementsLoop
<1> QED
  BY <1>1, <1>2, <1>3, PTL DEF SDSpec

\* The master's variables keep their types.
THEOREM SDTypeCorrect == SDSpec => []SDTypeOK
<1>1. SDInv => SDTypeOK
  BY DEF SDInv
<1> QED
  BY <1>1, SDInvariance, PTL

\* No client is sent a local address before a registration was read.
THEOREM LocalAnswersAreRegistered == SDSpec => []LocalAnswerIsRegistered
<1>1. SDInv => LocalAnswerIsRegistered
  BY DEF SDInv
<1> QED
  BY <1>1, SDInvariance, PTL

\* A registrar that has printed success is in the map, and no find for its
\* service goes to the network.
THEOREM RegistrationsTakeEffect == SDSpec => []RegisteredIsLocal
<1>1. SDInv => RegisteredIsLocal
  BY DEF SDInv, RegistrationsStored, RegisteredIsLocal
<1> QED
  BY <1>1, SDInvariance, PTL

-----------------------------------------------------------------------------
\* A dead master serves nobody: only what its clients know of it still changes.
LEMMA DeadStays ==
  ASSUME pc = "dead", IInv, [SDNext]_allVars
  PROVE  /\ pc' = "dead"
         /\ UNCHANGED <<backlog, peer, interest, taken, replies, pack_,
                        local_service_map_, data_size>>
         /\ \A c \in Clients : cstate[c] = "closed" => cstate'[c] = "closed"
<1> DEFINE Kept == /\ pc' = "dead"
                   /\ UNCHANGED <<backlog, peer, interest, taken, replies, pack_,
                                  local_service_map_, data_size>>
                   /\ \A c \in Clients : cstate[c] = "closed" => cstate'[c] = "closed"
<1>1. ASSUME NEW c \in Clients, Receive(c) \/ Connect(c) \/ Send(c) \/ (Close(c) /\ UNCHANGED sdVars)
      PROVE  Kept
  <2>1. CASE Receive(c)
    BY <2>1 DEF Receive, Recv, connVars, loopVars
  <2>2. CASE Connect(c) \/ Send(c)
    BY <2>2 DEF Connect, Send
  <2>3. CASE Close(c) /\ UNCHANGED sdVars
    BY <2>3 DEF Close, connVars, loopVars, sdVars, IInv, TypeOK
  <2> QED
    BY <1>1, <2>1, <2>2, <2>3
<1>2. ASSUME NEW f \in Fds,
             HupEvent(f) \/ InEvent(f) \/ RespondFails(f) \/ Respond(f)
      PROVE  FALSE
  BY <1>2 DEF HupEvent, InEvent, RespondFails, SendFails, Respond, OutEvent, Writable
<1>3. ~(EpollWait \/ AcceptEvent \/ AcceptFails)
  BY DEF EpollWait, AcceptEvent, AcceptFails
<1>4. ~(FindLocal \/ FindRemote \/ QueryFails \/ OfferLocal \/ RemoteOffer \/ RemoteOther)
  BY DEF FindLocal, FindRemote, QueryFails, OfferLocal, RemoteOffer, RemoteOther, InCallback
<1>5. CASE UNCHANGED allVars
  BY <1>5 DEF allVars, vars, clientVars, connVars, loopVars, sdVars
<1> QED
  BY <1>1, <1>2, <1>3, <1>4, <1>5, SDStepCases

\* The steps that end the process.
LEMMA Deaths ==
  ASSUME pc # "dead", pc' = "dead", IInv, [SDNext]_allVars
  PROVE  \/ AcceptFails \/ QueryFails
         \/ \E f \in Fds : RespondFails(f)
<1>1. ASSUME NEW c \in Clients, Receive(c) \/ Connect(c) \/ Send(c) \/ Close(c)
      PROVE  FALSE
  BY <1>1 DEF Receive, Connect, Send, Recv, Close, loopVars
<1>2. ASSUME NEW f \in Fds, HupEvent(f) \/ Respond(f) PROVE FALSE
  BY <1>2 DEF HupEvent, Respond, OutEvent, Processed
\* The end of a connection is not read: HandlersNeverBlock.
<1>3. ASSUME NEW f \in Fds, InEvent(f) PROVE FALSE
  <2>1. Unread(peer[f]) > 0
    BY <1>3 DEF InEvent, IInv, HandlersNeverBlock
  <2>2. pc' = "callback"
    BY <1>3, <2>1 DEF InEvent
  <2> QED
    BY <2>2
<1>4. ~(EpollWait \/ AcceptEvent)
  BY DEF EpollWait, AcceptEvent, Processed
<1>5. ~(FindLocal \/ FindRemote \/ OfferLocal \/ RemoteOffer \/ RemoteOther)
  BY DEF FindLocal, FindRemote, OfferLocal, RemoteOffer, RemoteOther,
         CallbackSends, CallbackIsSilent, SwitchToOut, vars, loopVars
<1>6. ~UNCHANGED allVars
  BY DEF allVars, vars, loopVars
<1> QED
  BY <1>1, <1>2, <1>3, <1>4, <1>5, <1>6, SDStepCases

\* What the master ends for is still to be seen afterwards.
LEMMA EndsForAReasonStep == IInv /\ EndsForAReason /\ [SDNext]_allVars => EndsForAReason'
<1> SUFFICES ASSUME IInv, EndsForAReason, [SDNext]_allVars, pc' = "dead"
             PROVE  EndsForAReason'
  BY DEF EndsForAReason
<1>1. CASE pc = "dead"
  <2>1. /\ UNCHANGED <<backlog, peer, interest, taken, replies, pack_,
                       local_service_map_, data_size>>
        /\ \A c \in Clients : cstate[c] = "closed" => cstate'[c] = "closed"
    BY <1>1, DeadStays
  <2>2. \A f \in Fds : peer[f] # None => peer[f] \in Clients
    BY DEF IInv, TypeOK
  <2> QED
    BY <1>1, <2>1, <2>2 DEF EndsForAReason, Unreplied, Arrived
<1>2. CASE AcceptFails
  <2>1. backlog # <<>> /\ \A f \in Fds : peer[f] # None
    BY <1>2 DEF AcceptFails, IInv, HandlersNeverBlock
  <2> QED
    BY <1>2, <2>1 DEF AcceptFails, Die, EndsForAReason, connVars
<1>3. CASE QueryFails
  <2>1. trigfd \in Fds /\ peer[trigfd] # None /\ interest[trigfd] = "IN" /\ Owes(trigfd)
    BY <1>3 DEF QueryFails, InCallback, IInv, EventsHold, Owes
  <2>2. taken[peer[trigfd]] = Len(replies[peer[trigfd]]) + 1 /\ Len(replies[peer[trigfd]]) \in Nat
    BY <1>3, <2>1 DEF QueryFails, InCallback, IInv, HalfDuplex, TypeOK
  <2>3. Asker \in Finders /\ Arrived(Asker) \notin local_service_map_
        /\ UNCHANGED <<peer, interest, taken, replies, local_service_map_>>
    BY <1>3 DEF QueryFails, CallbackThrows, Die, connVars
  <2> QED
    BY <2>1, <2>2, <2>3 DEF EndsForAReason, Unreplied, Asker, Arrived
<1>4. ASSUME NEW f \in Fds, RespondFails(f), pc # "dead" PROVE EndsForAReason'
  <2>1. /\ pc = "loop" /\ "OUT" \in events[f]
        /\ pack_ = None \/ cstate[peer[f]] = "closed" \/ data_size = "beyond"
        /\ UNCHANGED <<peer, interest, taken, replies, pack_, cstate, data_size>>
    BY <1>4 DEF RespondFails, SendFails, Writable, Die, connVars, clientVars, sdVars
  <2>2. peer[f] # None /\ interest[f] = "OUT" /\ Owes(f)
    BY <2>1 DEF IInv, EventsHold, Owes
  <2>3. taken[peer[f]] = Len(replies[peer[f]]) + 1 /\ Len(replies[peer[f]]) \in Nat
    BY <2>1, <2>2 DEF IInv, HalfDuplex, TypeOK
  <2> QED
    BY <2>1, <2>2, <2>3 DEF EndsForAReason, Unreplied
<1> QED
  BY <1>1, <1>2, <1>3, <1>4, Deaths

\* The master ends over a reply that is due, a query or a connection too many,
\* and never because a client left that was owed nothing.
THEOREM MasterEndsWithReason == SDSpec => []EndsForAReason
<1>1. SDInit => EndsForAReason
  BY DEF SDInit, Init, EndsForAReason
<1>2. IInv /\ EndsForAReason /\ [SDNext]_allVars => EndsForAReason'
  BY EndsForAReasonStep
<1>3. SDSpec => []IInv
  BY MasterImplementsLoop, Invariance, PTL DEF ImplementsLoop
<1> QED
  BY <1>1, <1>2, <1>3, PTL DEF SDSpec

-----------------------------------------------------------------------------
\* What a step leaves as it was, as far as packets go.
LEMMA PacketsUnchanged ==
  ASSUME OnePacketEach, UNCHANGED <<sent, taken, replies, answer, pack_>>
  PROVE  OnePacketEach'
BY DEF OnePacketEach

\* A packet is stored, or a callback returns: the answer it leaves in pack_ is
\* for the client's only request.
LEMMA CallbackPacket ==
  ASSUME IInv, OnePacketEach, Asker \in Finders, pc = "callback",
         CallbackSends, UNCHANGED answer
  PROVE  OnePacketEach'
<1>1. taken[Asker] = 1
  <2>1. Asker \in Clients /\ taken[Asker] > 0
    BY AskerWasRead
  <2>2. taken[Asker] <= sent[Asker] /\ sent[Asker] <= 1
    BY <2>1 DEF IInv, HalfDuplex, OnePacketEach
  <2>3. taken[Asker] \in Nat /\ sent[Asker] \in Nat
    BY <2>1 DEF IInv, TypeOK
  <2> QED
    BY <2>1, <2>2, <2>3
<1>2. pack_' = <<Asker, 1>> /\ UNCHANGED <<sent, taken, replies>>
  BY <1>1 DEF CallbackSends, SwitchToOut, Asker, clientVars
<1> QED
  BY <1>2 DEF OnePacketEach

\* A reply goes out: the first on its connection, and what pack_ points at.
LEMMA RespondPacket ==
  ASSUME IInv, SDInv, OnePacketEach, NEW f \in Fds, Respond(f)
  PROVE  OnePacketEach'
<1> DEFINE c == peer[f]
<1>1. /\ pc = "loop" /\ "OUT" \in events[f] /\ pack_ # None
      /\ replies' = [replies EXCEPT ![c] = Append(@, pack_)]
      /\ answer' = [answer EXCEPT ![c] = send_buffer_]
      /\ UNCHANGED <<sent, taken, pack_>>
  BY DEF Respond, OutEvent, Writable, clientVars
<1>2. c \in Clients /\ Owes(f)
  BY <1>1 DEF IInv, TypeOK, EventsHold, Owes
<1>3. taken[c] = Len(replies[c]) + 1 /\ taken \in [Clients -> Nat]
  <2>1. peer[f] # None
    BY <1>1 DEF IInv, EventsHold
  <2>2. taken[c] = Len(replies[c]) + 1
    BY <1>1, <1>2, <2>1 DEF IInv, HalfDuplex
  <2> QED
    BY <2>2 DEF IInv, TypeOK
<1>4. replies \in [Clients -> Seq(Requests)] /\ pack_ \in Requests
  BY <1>1 DEF IInv, TypeOK
<1> HIDE DEF c
<1>5. /\ replies'[c] = Append(replies[c], pack_)
      /\ \A b \in Clients \ {c} : replies'[b] = replies[b]
  BY <1>1, <1>2, <1>4
<1>6. /\ Len(replies'[c]) = Len(replies[c]) + 1
      /\ \A i \in 1..Len(replies'[c]) :
           replies'[c][i] = IF i <= Len(replies[c]) THEN replies[c][i] ELSE pack_
  BY <1>2, <1>4, <1>5
<1>7. /\ send_buffer_ # "none" /\ answer \in [Clients -> {"none", "FIND", "LOCAL", "REMOTE"}]
  BY DEF SDInv, SDTypeOK
<1>8. ASSUME NEW b \in Clients
      PROVE  /\ sent'[b] <= 1 /\ Len(replies'[b]) <= taken'[b]
             /\ replies'[b] # <<>> => answer'[b] # "none"
             /\ \A i \in 1..Len(replies'[b]) : replies'[b][i] \in Finders \X {1}
  <2>1. CASE b = c
    <3>1. /\ sent'[c] <= 1 /\ Len(replies'[c]) <= taken'[c] /\ answer'[c] # "none"
      BY <1>1, <1>2, <1>3, <1>6, <1>7 DEF OnePacketEach
    <3>2. ASSUME NEW i \in 1..Len(replies'[c]) PROVE replies'[c][i] \in Finders \X {1}
      <4>1. CASE i <= Len(replies[c])
        <5>1. i \in 1..Len(replies[c])
          BY <1>2, <1>4, <1>6, <4>1
        <5> QED
          BY <1>2, <1>6, <4>1, <5>1 DEF OnePacketEach
      <4>2. CASE ~(i <= Len(replies[c]))
        BY <1>1, <1>6, <4>2 DEF OnePacketEach
      <4> QED
        BY <4>1, <4>2
    <3> QED
      BY <2>1, <3>1, <3>2
  <2>2. CASE b # c
    BY <1>1, <1>5, <1>7, <2>2 DEF OnePacketEach
  <2> QED
    BY <2>1, <2>2
<1>9. pack_' # None => pack_' \in Finders \X {1}
  BY <1>1 DEF OnePacketEach
<1> QED
  BY <1>8, <1>9 DEF OnePacketEach

\* Each program sends and gets one packet at most, and every packet that goes
\* out is the answer to a find.
LEMMA OnePacketStep == IInv /\ SDInv /\ OnePacketEach /\ [SDNext]_allVars => OnePacketEach'
<1> SUFFICES ASSUME IInv, SDInv, OnePacketEach, [SDNext]_allVars PROVE OnePacketEach'
  OBVIOUS
<1>1. ASSUME NEW c \in Clients, Send(c), UNCHANGED sdVars PROVE OnePacketEach'
  <2>1. /\ sent' = [sent EXCEPT ![c] = @ + 1] /\ sent[c] < 1
        /\ UNCHANGED <<taken, replies, answer, pack_>>
    BY <1>1, SDAssumption DEF Send, connVars, loopVars, sdVars
  <2>2. \A b \in Clients : sent'[b] <= 1
    BY <2>1 DEF IInv, TypeOK, OnePacketEach
  <2> QED
    BY <2>1, <2>2 DEF OnePacketEach
<1>2. ASSUME NEW c \in Clients, Receive(c) \/ ((Connect(c) \/ Close(c)) /\ UNCHANGED sdVars)
      PROVE  OnePacketEach'
  BY <1>2, PacketsUnchanged DEF Receive, Recv, Connect, Close, connVars, loopVars, sdVars
<1>3. CASE (EpollWait \/ AcceptEvent \/ AcceptFails) /\ UNCHANGED sdVars
  BY <1>3, PacketsUnchanged DEF EpollWait, AcceptEvent, AcceptFails, Die, clientVars,
                                connVars, sdVars
<1>4. ASSUME NEW f \in Fds, HupEvent(f) \/ RespondFails(f), UNCHANGED sdVars
      PROVE  OnePacketEach'
  BY <1>4, PacketsUnchanged DEF HupEvent, RespondFails, SendFails, Die, clientVars,
                                connVars, sdVars
<1>5. ASSUME NEW f \in Fds, InEvent(f), UNCHANGED sdVars PROVE OnePacketEach'
  <2>1. Unread(peer[f]) > 0 /\ peer[f] \in Clients
    BY <1>5 DEF InEvent, IInv, HandlersNeverBlock, TypeOK
  <2>2. /\ taken' = [taken EXCEPT ![peer[f]] = @ + 1]
        /\ UNCHANGED <<sent, replies, answer, pack_>>
    BY <1>5, <2>1 DEF InEvent, clientVars, sdVars
  <2>3. \A c \in Clients : Len(replies[c]) <= taken'[c]
    BY <2>1, <2>2 DEF IInv, TypeOK, OnePacketEach
  <2> QED
    BY <2>2, <2>3 DEF OnePacketEach
<1>6. ASSUME NEW f \in Fds, Respond(f) PROVE OnePacketEach'
  BY <1>6, RespondPacket
<1>7. CASE FindLocal \/ RemoteOffer
  BY <1>7, CallbackPacket DEF FindLocal, RemoteOffer, InCallback, SDInv
<1>8. CASE QueryFails \/ FindRemote \/ RemoteOther \/ OfferLocal \/ UNCHANGED allVars
  BY <1>8, PacketsUnchanged
     DEF QueryFails, FindRemote, RemoteOther, OfferLocal, CallbackThrows, CallbackIsSilent,
         SwitchToOut, Die, allVars, vars, clientVars, connVars, loopVars, sdVars
<1> QED
  BY <1>1, <1>2, <1>3, <1>4, <1>5, <1>6, <1>7, <1>8, SDStepCases

\* Each program sends and gets one packet at most.
THEOREM OnePacketInvariance == SDSpec => []OnePacketEach
<1>1. SDInit => OnePacketEach
  BY DEF SDInit, Init, OnePacketEach
<1>2. IInv /\ SDInv /\ OnePacketEach /\ [SDNext]_allVars => OnePacketEach'
  BY OnePacketStep
<1>3. SDSpec => []IInv
  BY MasterImplementsLoop, Invariance, PTL DEF ImplementsLoop
<1> QED
  BY <1>1, <1>2, <1>3, SDInvariance, PTL DEF SDSpec

\* A finder that shares the master with no other finder gets its own answer,
\* whatever registrars do: it takes a second find to violate OwnAnswer.
THEOREM LoneFinderGetsOwn ==
  ASSUME NEW c \in Clients, Finders = {c}
  PROVE  SDSpec => []OwnAnswer
<1>1. IInv /\ OnePacketEach => OwnAnswer
  <2> SUFFICES ASSUME IInv, OnePacketEach, NEW i \in 1..Len(replies[c])
               PROVE  replies[c][i] = <<c, i>>
    BY DEF OwnAnswer
  <2>1. replies[c][i] = <<c, 1>>
    BY DEF OnePacketEach
  <2>2. /\ Len(replies[c]) <= taken[c] /\ taken[c] <= sent[c] /\ sent[c] <= 1
        /\ Len(replies[c]) \in Nat /\ taken[c] \in Nat /\ sent[c] \in Nat
    BY DEF OnePacketEach, IInv, HalfDuplex, TypeOK
  <2>3. i = 1
    BY <2>2
  <2> QED
    BY <2>1, <2>3
<1>2. SDSpec => []IInv
  BY MasterImplementsLoop, Invariance, PTL DEF ImplementsLoop
<1> QED
  BY <1>1, <1>2, OnePacketInvariance, PTL

-----------------------------------------------------------------------------
\* A program concludes "local" from a whole packet only if that is what it got.
LEMMA PrintsStep == IInv /\ SDInv /\ PrintsRegistered /\ [SDNext]_allVars => PrintsRegistered'
<1> SUFFICES ASSUME IInv, SDInv, PrintsRegistered, [SDNext]_allVars PROVE PrintsRegistered'
  OBVIOUS
<1>1. Announced => Announced'
  BY StepIsLoopStep, TakenGrows DEF Announced, Registrars
<1>2. ASSUME NEW c \in Clients, Receive(c) PROVE PrintsRegistered'
  <2>1. PICK o \in Outcomes(c) : outcome' = [outcome EXCEPT ![c] = o]
    BY <1>2 DEF Receive
  <2>2. data_size' = data_size
    BY <1>2 DEF Receive
  <2>3. c \in Finders /\ o = "local" /\ data_size = "whole" => answer[c] = "LOCAL"
    BY DEF Outcomes, Registrars
  <2>4. c \in Finders /\ o = "local" /\ data_size = "whole" => Announced
    BY <2>3 DEF SDInv, LocalAnswerIsRegistered, Announced
  <2> QED
    BY <1>1, <2>1, <2>2, <2>4 DEF PrintsRegistered, SDInv, SDTypeOK
<1>3. CASE UNCHANGED <<outcome, data_size>>
  BY <1>1, <1>3 DEF PrintsRegistered
<1> QED
  BY <1>2, <1>3, SDStepCases
     DEF sdVars, allVars, Respond, FindLocal, FindRemote, QueryFails, OfferLocal,
         RemoteOffer, RemoteOther

\* If all programs are about the same service, a finder that prints a local
\* address is right: it takes a second service to violate RightService, which
\* the packets, sent without the id, cannot tell from the first.
THEOREM OneServiceIsRight ==
  ASSUME \A c, d \in Clients : ServiceId[c] = ServiceId[d]
  PROVE  SDSpec => []RightService
<1>1. SDInit => PrintsRegistered
  BY SDAssumption DEF SDInit, PrintsRegistered
<1>2. IInv /\ SDInv /\ PrintsRegistered /\ [SDNext]_allVars => PrintsRegistered'
  BY PrintsStep
<1>3. PrintsRegistered => RightService
  BY SDAssumption DEF PrintsRegistered, RightService, Announced, Registrars
<1>4. SDSpec => []IInv
  BY MasterImplementsLoop, Invariance, PTL DEF ImplementsLoop
<1> QED
  BY <1>1, <1>2, <1>3, <1>4, SDInvariance, PTL DEF SDSpec
=============================================================================
