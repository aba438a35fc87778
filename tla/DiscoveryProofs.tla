---------------------------- MODULE DiscoveryProofs ----------------------------
(***************************************************************************)
(* Proofs about Discovery, for any nodes, programs and descriptors: the    *)
(* whole implements each of its parts, and a remote address that reaches a *)
(* program was earned on another node.  MP is M with its theorems: what is *)
(* proved of SDMaster is cited through it.                                 *)
(***************************************************************************)
EXTENDS Discovery, RemoteDiscoveryProofs

MP == INSTANCE SDMasterProofs WITH
        phase <- Phase, data_size <- Length, local_service_map_ <- local_service_map_[Here]

\* The id a master looks up and asks for is one of the services: it is 0,
\* since SDPackage is sent without it.
LEMMA ArrivedIsService == \A c : M!Arrived(c) = 0 /\ 0 \in Services
BY RemoteAssumption DEF M!Arrived, M!OffsetOfServiceId, M!SizeofSDPackage

\* A step of the whole is a step of the masters on the network, or leaves
\* their variables alone.
LEMMA StepIsRemoteStep == [DNext]_allVars => [Next]_vars
<1> SUFFICES ASSUME [DNext]_allVars PROVE [Next]_vars
  OBVIOUS
<1> USE DiscoveryAssumption
<1>1. ASSUME UNCHANGED <<local_service_map_, data_size, server_addr_, recv_buffer_,
                         asking, asked, found, net, lost>>,
             up' = IF pc' = "dead" THEN up \ {Here} ELSE up
      PROVE  [Next]_vars
  <2>1. CASE pc' = "dead" /\ Here \in up
    BY <1>1, <2>1 DEF Ends, NodeNext, Next
  <2>2. CASE ~(pc' = "dead" /\ Here \in up)
    <3>1. up' = up
      BY <1>1, <2>2
    <3> QED
      BY <1>1, <3>1 DEF vars
  <2> QED
    BY <2>1, <2>2
<1>2. CASE (\E c \in Clients : Program(c)) \/ Loop
  BY <1>1, <1>2 DEF Program, Loop, Locally
<1>3. CASE Announce \/ Ask
  BY <1>3, ArrivedIsService DEF Announce, Ask, NodeNext, Next
<1>4. CASE AskEnds
  BY <1>4 DEF AskEnds, NodeNext, Next
<1>5. CASE Elsewhere
  BY <1>5 DEF Elsewhere, Next
<1>6. CASE UNCHANGED allVars
  BY <1>6 DEF allVars
<1> QED
  BY <1>2, <1>3, <1>4, <1>5, <1>6 DEF DNext

\* The network of masters, one of them in detail, is the network RemoteDiscovery
\* describes.
THEOREM WholeImplementsRemote == DSpec => ImplementsRemote
<1>1. DInit => Init
  BY DEF DInit
<1>2. [DNext]_allVars => [Next]_vars
  BY StepIsRemoteStep
<1> QED
  BY <1>1, <1>2, PTL DEF DSpec, Spec, ImplementsRemote

\* What other masters do leaves alone what SDMaster sees of Here.
LEMMA ElsewhereIsNotHere ==
  ASSUME TypeOK, Elsewhere
  PROVE  UNCHANGED <<Phase, Length, local_service_map_[Here]>>
<1> USE DiscoveryAssumption DEF TypeOK
<1> SUFFICES UNCHANGED <<asking[Here], data_size[Here], local_service_map_[Here]>>
  BY DEF Phase, Length
<1>1. ASSUME NEW n \in Nodes \ {Here}, NEW s \in Services, Register(n, s) \/ Query(n, s)
      PROVE  UNCHANGED <<asking[Here], data_size[Here], local_service_map_[Here]>>
  BY <1>1 DEF Register, Query
<1>2. ASSUME NEW n \in Nodes \ {Here}, NEW d \in net,
             Receive(n, d) \/ Reply(n, d) \/ NoReply(n, d) \/ HearsTooMuch(n, d)
      PROVE  UNCHANGED <<asking[Here], data_size[Here], local_service_map_[Here]>>
  BY <1>2 DEF Receive, Reply, NoReply, HearsTooMuch
<1>3. ASSUME NEW n \in Nodes \ {Here}, Ends(n)
      PROVE  UNCHANGED <<asking[Here], data_size[Here], local_service_map_[Here]>>
  BY <1>3 DEF Ends
<1>4. ASSUME NEW d \in net, Lose(d)
      PROVE  UNCHANGED <<asking[Here], data_size[Here], local_service_map_[Here]>>
  BY <1>4 DEF Lose
<1> QED
  BY <1>1, <1>2, <1>3, <1>4 DEF Elsewhere, NodeNext, Handle

\* A step of the whole is a step of the master on Here, or leaves it alone.
LEMMA StepIsMasterStep == TypeOK /\ [DNext]_allVars => [M!SDNext]_(M!allVars)
<1> SUFFICES ASSUME TypeOK, [DNext]_allVars PROVE [M!SDNext]_(M!allVars)
  OBVIOUS
<1>1. ASSUME UNCHANGED masterVars, UNCHANGED <<Phase, Length, local_service_map_[Here]>>
      PROVE  UNCHANGED M!allVars
  BY <1>1 DEF masterVars, M!allVars, M!vars, M!sdVars, M!clientVars, M!connVars, M!loopVars
<1>2. CASE (\E c \in Clients : Program(c)) \/ Loop
  BY <1>2 DEF Program, Loop, Locally, M!SDNext
<1>3. CASE Announce
  BY <1>3 DEF Announce, M!SDNext, M!ThreadNext
<1>4. CASE Ask
  BY <1>4 DEF Ask, M!SDNext, M!ThreadNext
<1>5. CASE AskEnds
  BY <1>5 DEF AskEnds, M!SDNext
<1>6. CASE Elsewhere
  BY <1>1, <1>6, ElsewhereIsNotHere DEF Elsewhere
<1>7. CASE UNCHANGED allVars
  <2>1. UNCHANGED <<Phase, Length, local_service_map_[Here]>>
    BY <1>7 DEF allVars, vars, Phase, Length
  <2> QED
    BY <1>1, <1>7, <2>1 DEF allVars
<1> QED
  BY <1>2, <1>3, <1>4, <1>5, <1>6, <1>7 DEF DNext

\* Here's part of the whole is a master as SDMaster describes it, whatever the
\* network brings it and however long.
THEOREM WholeImplementsMaster == DSpec => ImplementsMaster
<1>1. DInit => M!SDInit
  BY DEF DInit
<1>2. TypeOK /\ [DNext]_allVars => [M!SDNext]_(M!allVars)
  BY StepIsMasterStep
<1>3. DSpec => []TypeOK
  BY WholeImplementsRemote, RemoteTypeCorrect, PTL DEF ImplementsRemote
<1> QED
  BY <1>1, <1>2, <1>3, PTL DEF DSpec, M!SDSpec, ImplementsMaster

-----------------------------------------------------------------------------
(* What is proved of a master holds of the one on Here. *)

\* M and MP are the same master: they start in the same states ...
LEMMA SameInit == M!SDInit <=> MP!SDInit
BY DEF M!SDInit, MP!SDInit, M!Init, MP!Init, M!Extents, MP!Extents

\* ... and take the same steps, since their definitions unfold to the same formula ...
LEMMA SameNext == M!SDNext <=> MP!SDNext
BY DEF M!clientVars, M!connVars, M!loopVars, M!vars, M!Unread, M!Poll, M!Revents,
       M!FdsOf, M!Connect, M!Send, M!Recv, M!Close, M!EpollWait, M!Processed, M!Die,
       M!IsLowestFree, M!AcceptEvent, M!AcceptFails, M!HupEvent, M!InEvent,
       M!SwitchToOut, M!CallbackSends, M!CallbackIsSilent, M!CallbackThrows, M!Writable,
       M!OutEvent, M!SendFails, MP!clientVars, MP!connVars, MP!loopVars, MP!vars,
       MP!Unread, MP!Poll, MP!Revents, MP!FdsOf, MP!Connect, MP!Send, MP!Recv, MP!Close,
       MP!EpollWait, MP!Processed, MP!Die, MP!IsLowestFree, MP!AcceptEvent,
       MP!AcceptFails, MP!HupEvent, MP!InEvent, MP!SwitchToOut, MP!CallbackSends,
       MP!CallbackIsSilent, MP!CallbackThrows, MP!Writable, MP!OutEvent, MP!SendFails,
       M!sdVars, M!allVars, M!Registrars, M!SizeofSDPackage, M!OffsetOfServiceId,
       M!Arrived, M!Asker, M!InCallback, M!FindLocal, M!FindRemote, M!QueryFails,
       M!RemoteOffer, M!RemoteOther, M!OfferLocal, M!Respond, M!RespondFails,
       M!Outcomes, M!Receive, M!ProgramNext, M!ThreadNext, M!SDNext, MP!sdVars,
       MP!allVars, MP!Registrars, MP!SizeofSDPackage, MP!OffsetOfServiceId, MP!Arrived,
       MP!Asker, MP!InCallback, MP!FindLocal, MP!FindRemote, MP!QueryFails,
       MP!RemoteOffer, MP!RemoteOther, MP!OfferLocal, MP!Respond, MP!RespondFails,
       MP!Outcomes, MP!Receive, MP!ProgramNext, MP!ThreadNext, MP!SDNext

\* ... in the same variables.
LEMMA SameVars == M!allVars = MP!allVars /\ M!allVars' = MP!allVars'
BY DEF M!allVars, M!sdVars, M!vars, M!clientVars, M!connVars, M!loopVars, MP!allVars,
       MP!sdVars, MP!vars, MP!clientVars, MP!connVars, MP!loopVars

\* What the proofs of SDMaster assume is assumed of Here.
LEMMA MasterAssumptions == MP!UdsAssumption /\ MP!SDAssumption
BY DiscoveryAssumption DEF M!UdsAssumption, M!SDAssumption, MP!UdsAssumption, MP!SDAssumption

\* The specification all theorems of SDMasterProofs are about.
LEMMA WholeIsMaster == DSpec => MP!SDSpec
<1>1. M!SDInit => MP!SDInit
  BY SameInit
<1>2. [M!SDNext]_(M!allVars) => [MP!SDNext]_(MP!allVars)
  BY SameNext, SameVars
<1> QED
  BY <1>1, <1>2, WholeImplementsMaster, PTL DEF ImplementsMaster, M!SDSpec, MP!SDSpec

\* With a network behind it that loses and delays what it likes, and other
\* masters that answer or end, the master on Here is still a request/reply server
\* to its programs: it never blocks on one, loses no edge, tells nobody of a local
\* service before a registration, has stored what it is thought to have stored, and
\* ends for the reasons SDMaster gives.
THEOREM WholeKeepsMasterPromises ==
  DSpec => /\ MP!ImplementsRequestReply /\ MP!EventsCurrent /\ MP!DropsOnlyClosed
           /\ []MP!HandlersNeverBlock /\ []MP!NoLostWakeup
           /\ []MP!LocalAnswerIsRegistered /\ []MP!RegisteredIsLocal
           /\ []MP!EndsForAReason
BY MasterAssumptions, WholeIsMaster, MP!MasterImplementsRequestReply,
   MP!MasterNeverBlocksOnClients, MP!LocalAnswersAreRegistered, MP!RegistrationsTakeEffect,
   MP!MasterEndsWithReason, PTL

\* And with programs at its socket that come and go, and a thread that stands still
\* while it asks, Here is still one of the masters that implement Lookup: no step
\* of its programs drops a query or an offer, and its queries follow its answers.
THEOREM WholeKeepsNetworkPromises ==
  DSpec => ImplementsLookup /\ AnswerOnItsWay /\ QueriesFollowAnswers
BY WholeImplementsRemote, MastersImplementLookup, AnswersStayOnTheirWay,
   QueriesGoWhereAnswersCameFrom, PTL DEF ImplementsRemote

-----------------------------------------------------------------------------
\* What a node takes from the network is an answer, from the datagram's sender.
LEMMA ReceiveFinds ==
  ASSUME RDInv, NEW n \in Nodes, NEW d \in net, Receive(n, d)
  PROVE  /\ found'[n] # None /\ found'[n].from = d.from
         /\ \A m \in Nodes \ {n} : found'[m] = found[m]
BY TakenIsAnswer, ReceiveWrites

\* Offers are made by nodes that serve, and found[Here] is set from an offer.
LEMMA OffersServed ==
  ASSUME RDInv, DInv, [Next]_vars
  PROVE  /\ \A d \in net' : d.kind = "OFFER" => d.from \in Serving
         /\ found'[Here] # None => found'[Here].from \in Serving
         /\ found[Here] # None => found'[Here] # None
<1> USE DiscoveryAssumption DEF DInv
<1>1. ASSUME NEW n \in Nodes, NEW s \in Services, Query(n, s)
      PROVE  /\ \A d \in net' : d.kind = "OFFER" => d.from \in Serving
             /\ found' = found
  BY <1>1 DEF Query
<1>2. ASSUME NEW n \in Nodes, NEW d \in net, Receive(n, d)
      PROVE  /\ \A e \in net' : e.kind = "OFFER" => e.from \in Serving
             /\ found'[Here] # None => found'[Here].from \in Serving
             /\ found[Here] # None => found'[Here] # None
  <2>1. net' \subseteq net /\ d.from \in Serving
    BY <1>2 DEF Receive
  <2> QED
    BY <1>2, <2>1, ReceiveFinds
<1>3. ASSUME NEW m \in Nodes, NEW d \in net, Reply(m, d)
      PROVE  /\ \A e \in net' : e.kind = "OFFER" => e.from \in Serving
             /\ found' = found
  BY <1>3 DEF Reply, Hears
<1>4. \/ net' \subseteq net /\ found' = found
      \/ \E n \in Nodes, s \in Services : Query(n, s)
      \/ \E n \in Nodes, d \in net : Receive(n, d) \/ Reply(n, d)
  BY DEF Next, NodeNext, vars, Register, Ends, Handle, NoReply, HearsTooMuch, Lose
<1> QED
  BY <1>1, <1>2, <1>3, <1>4

\* A packet that is there to be received was sent, and is not the unset buffer.
LEMMA PacketsAreAnswers ==
  ASSUME MP!TypeOK, MP!SDTypeOK, MP!OnePacketEach, NEW c \in Clients, M!Receive(c)
  PROVE  answer[c] \in {"FIND", "LOCAL", "REMOTE"}
<1>1. got[c] < Len(replies[c])
  BY DEF M!Receive, M!Recv
<1>2. got[c] \in Nat /\ replies[c] # <<>>
  BY <1>1 DEF MP!TypeOK
<1> QED
  BY <1>2 DEF MP!SDTypeOK, MP!OnePacketEach

\* The buffer holds a remote address only after an answer was taken, what a
\* program is sent is what the buffer holds, and what it concludes from a whole
\* packet is what it was sent.
LEMMA AnswersStep ==
  ASSUME TypeOK, MP!SDTypeOK, MP!OnePacketEach, MP!TypeOK, RDInv, DInv, [DNext]_allVars,
         found[Here] # None => found'[Here] # None
  PROVE  /\ send_buffer_' = "REMOTE" => found'[Here] # None
         /\ \A c \in Clients : answer'[c] = "REMOTE" => found'[Here] # None
         /\ \A c \in Clients : outcome'[c] = "remote" /\ Length' = "whole" => found'[Here] # None
<1> USE DiscoveryAssumption DEF DInv
<1> DEFINE Goal ==
      /\ send_buffer_' = "REMOTE" => found'[Here] # None
      /\ \A c \in Clients : answer'[c] = "REMOTE" => found'[Here] # None
      /\ \A c \in Clients : outcome'[c] = "remote" /\ Length' = "whole" => found'[Here] # None
<1>1. ASSUME answer' = answer, outcome' = outcome, Length' = Length,
             send_buffer_' = send_buffer_ \/ send_buffer_' \in {"FIND", "LOCAL"}
      PROVE  Goal
  BY <1>1
<1>2. ASSUME NEW f \in Fds, M!Respond(f) PROVE Goal
  <2>1. /\ answer' = [answer EXCEPT ![peer[f]] = send_buffer_] /\ send_buffer_' = send_buffer_
        /\ outcome' = outcome /\ Length' = Length
    BY <1>2 DEF M!Respond
  <2>2. \A c \in Clients : answer'[c] = answer[c] \/ answer'[c] = send_buffer_
    BY <2>1 DEF MP!SDTypeOK
  <2> QED
    BY <2>1, <2>2
<1>3. ASSUME NEW c \in Clients, M!Receive(c) PROVE Goal
  <2>1. PICK o \in M!Outcomes(c) : outcome' = [outcome EXCEPT ![c] = o]
    BY <1>3 DEF M!Receive
  <2>2. answer' = answer /\ send_buffer_' = send_buffer_ /\ Length' = Length
    BY <1>3 DEF M!Receive
  <2>3. o = "remote" /\ Length = "whole" => answer[c] = "REMOTE"
    BY <1>3, PacketsAreAnswers DEF M!Outcomes
  <2>4. \A b \in Clients \ {c} : outcome'[b] = outcome[b]
    BY <2>1 DEF MP!SDTypeOK
  <2>5. outcome'[c] = o
    BY <2>1 DEF MP!SDTypeOK
  <2> QED
    BY <2>2, <2>3, <2>4, <2>5
<1>4. ASSUME NEW c \in Clients, Program(c) PROVE Goal
  <2>1. CASE M!Receive(c)
    BY <1>3, <2>1
  <2>2. CASE UNCHANGED M!sdVars
    BY <1>1, <2>2 DEF M!sdVars
  <2> QED
    BY <1>4, <2>1, <2>2 DEF Program, Locally, M!ProgramNext
<1>5. CASE Loop
  <2>1. \/ \E f \in Fds : M!Respond(f)
        \/ UNCHANGED M!sdVars
        \/ M!FindLocal \/ M!FindRemote \/ M!QueryFails \/ M!OfferLocal
    BY <1>5 DEF Loop, Locally, M!ThreadNext, M!RespondFails
  <2> QED
    BY <1>1, <1>2, <2>1 DEF M!sdVars, M!FindLocal, M!FindRemote, M!QueryFails, M!OfferLocal
<1>6. CASE Announce \/ Ask
  BY <1>1, <1>6 DEF Announce, Ask, M!OfferLocal, M!FindRemote
<1>7. CASE AskEnds
  <2>1. found'[Here] # None
    BY <1>7, ReceiveFinds DEF AskEnds
  <2> QED
    BY <2>1
<1>8. CASE Elsewhere
  BY <1>1, <1>8, ElsewhereIsNotHere DEF Elsewhere, masterVars
<1>9. CASE UNCHANGED allVars
  BY <1>1, <1>9 DEF allVars, vars, masterVars, Length
<1> QED
  BY <1>4, <1>5, <1>6, <1>7, <1>8, <1>9 DEF DNext

\* The invariant of the whole.
THEOREM DInvariance == DSpec => []DInv
<1>1. DInit => DInv
  BY DiscoveryAssumption DEF DInit, Init, M!SDInit, DInv
<1>2. /\ RDInv /\ MP!SDTypeOK /\ MP!OnePacketEach /\ MP!TypeOK
      /\ DInv /\ [DNext]_allVars
      => DInv'
  <2> SUFFICES ASSUME RDInv, MP!SDTypeOK, MP!OnePacketEach, MP!TypeOK, DInv, [DNext]_allVars
               PROVE  DInv'
    OBVIOUS
  <2>1. TypeOK
    BY DEF RDInv
  <2>2. /\ \A d \in net' : d.kind = "OFFER" => d.from \in Serving
        /\ found'[Here] # None => found'[Here].from \in Serving
        /\ found[Here] # None => found'[Here] # None
    BY StepIsRemoteStep, OffersServed
  <2> QED
    BY <2>1, <2>2, AnswersStep DEF DInv
<1>3. DSpec => []RDInv
  BY WholeImplementsRemote, RemoteInvariant, PTL DEF ImplementsRemote
<1>4. DSpec => [](MP!SDTypeOK /\ MP!OnePacketEach /\ MP!TypeOK)
  BY MasterAssumptions, WholeIsMaster, MP!SDTypeCorrect, MP!OnePacketInvariance,
     MP!MasterImplementsLoop, MP!TypeCorrect, PTL DEF MP!ImplementsLoop
<1> QED
  BY <1>1, <1>2, <1>3, <1>4, PTL DEF DSpec

\* From end to end: no program on Here is sent a remote address, or concludes
\* "remote" from a whole packet, that no other node earned by a registration, of a
\* service that was looked for on Here.
THEOREM RemoteAnswersAreEarned == DSpec => []RemoteAnswerIsEarned
<1>1. DInv /\ AnswersAreEarned => RemoteAnswerIsEarned
  BY DiscoveryAssumption DEF DInv, AnswersAreEarned, RemoteAnswerIsEarned
<1>2. DSpec => []AnswersAreEarned
  BY WholeImplementsRemote, Earned, PTL DEF ImplementsRemote
<1> QED
  BY <1>1, <1>2, DInvariance, PTL
=============================================================================
