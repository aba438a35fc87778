------------------------------- MODULE Discovery -------------------------------
(***************************************************************************)
(* Service discovery as a whole: the master of one node, Here, in the      *)
(* detail of SDMaster (epoll loop, local programs, callback), among the    *)
(* masters of RemoteDiscovery.  Here's map, the length of its buffer and   *)
(* its wait for a datagram are those of RemoteDiscovery; SDMaster sees     *)
(* them through the instance M.  A query is the body of the callback: the  *)
(* epoll thread sends it on behalf of a finder, and stands still until a   *)
(* datagram arrives.                                                       *)
(*                                                                         *)
(* Here does not serve: nothing calls its UpdServer::recv_data, which is   *)
(* how the program is.                                                     *)
(***************************************************************************)
EXTENDS RemoteDiscovery

CONSTANTS Here, Clients, Finders, ServiceId, Fds, sockfd, MaxReq

VARIABLES
  cstate, sent, got, backlog, peer, interest, ready, taken, replies,
  pc, events, trigfd, pack_, send_buffer_, answer, outcome

masterVars == <<cstate, sent, got, backlog, peer, interest, ready, taken, replies,
                pc, events, trigfd, pack_, send_buffer_, answer, outcome>>
allVars == <<vars, masterVars>>

\* The extents of RemoteDiscovery tell apart more than a local client does.
Phase == IF asking[Here] = None THEN "idle" ELSE "asking"
Length == IF data_size[Here] \in {"id", "address", "long"} THEN "whole" ELSE data_size[Here]

M == INSTANCE SDMaster WITH
       phase <- Phase, data_size <- Length, local_service_map_ <- local_service_map_[Here]

ASSUME DiscoveryAssumption ==
  /\ Here \in Nodes \ Serving
  /\ M!UdsAssumption /\ M!SDAssumption

DInit == Init /\ M!SDInit

----------------------------------------------------------------------------
\* A step that concerns the programs and the epoll thread on Here only; the
\* thread may end the process.
Locally(A) ==
  /\ UNCHANGED <<local_service_map_, data_size, server_addr_, recv_buffer_,
                 asking, asked, found, net, lost>>
  /\ A
  /\ up' = IF pc' = "dead" THEN up \ {Here} ELSE up

Program(c) == Locally(M!ProgramNext(c))
Loop == Locally(M!ThreadNext)

\* A registration reaches the map that later finds are looked up in.
Announce == Register(Here, M!Arrived(M!Asker)) /\ M!OfferLocal

\* Faulty variant: the query is not sent.
AskNobody ==
  /\ asking' = [asking EXCEPT ![Here] = M!Arrived(M!Asker)]
  /\ asked' = [asked EXCEPT ![Here] = Append(@, M!Arrived(M!Asker))]
  /\ UNCHANGED <<up, local_service_map_, data_size, server_addr_, recv_buffer_, found, net, lost>>
  /\ M!FindRemote

\* remote_find_service: the query goes out, and recvfrom blocks the thread.
Ask == Query(Here, M!Arrived(M!Asker)) /\ M!FindRemote

\* Faulty variants: recvfrom gives up, and the callback answers from whatever
\* recv_buffer_ holds; or what came is passed on as it is.
AskTimesOut ==
  /\ asking' = [asking EXCEPT ![Here] = None]
  /\ UNCHANGED <<up, local_service_map_, data_size, server_addr_, recv_buffer_,
                 asked, found, net, lost>>
  /\ M!RemoteOffer

AskForwards == \E d \in net : Receive(Here, d) /\ M!RemoteOfferForwarded

\* A datagram ends the wait, and the callback leaves its answer in the buffer.
AskEnds == \E d \in net : Receive(Here, d) /\ M!RemoteOffer

\* The other masters, and the network.
Elsewhere ==
  /\ UNCHANGED masterVars
  /\ (\E n \in Nodes \ {Here} : NodeNext(n)) \/ (\E d \in net : Lose(d))

DNext ==
  \/ \E c \in Clients : Program(c)
  \/ Loop \/ Announce \/ Ask \/ AskEnds
  \/ Elsewhere

DSpec == DInit /\ [][DNext]_allVars

\* The epoll thread of Here runs when it can, unless a client's socket may be
\* full, and so do the threads that handle queries elsewhere.  Nothing is assumed
\* of programs and network.
FairDSpec ==
  /\ DSpec
  /\ WF_allVars(~M!MayBlock /\ (Loop \/ Announce \/ Ask \/ AskEnds))
  /\ \A n \in Nodes \ {Here} : WF_allVars(UNCHANGED masterVars /\ \E d \in net : Handle(n, d))

(***************************************************************************)
(* Properties.                                                             *)
(***************************************************************************)
\* What happens on Here is what SDMaster says of a master, and what happens on
\* the network is what RemoteDiscovery says of masters, blocked or not: what is
\* proved of either holds of the whole.
ImplementsMaster == M!SDSpec
ImplementsRemote == Spec

\* From end to end: a program on Here that is sent a remote address, late and
\* through the one buffer as answers are, or that concludes "remote" from a whole
\* packet, owes it to a registration on another node, of a service that a program
\* on Here looked for.
RemoteAnswerIsEarned ==
  \A c \in Clients :
    answer[c] = "REMOTE" \/ (outcome[c] = "remote" /\ Length = "whole") =>
      \E n \in Serving : local_service_map_[n] \cap Wanted(Here) # {}

\* A finder whose query reaches, whole, a node that has the service gets a
\* reply: the offer comes back, the thread goes on, and no query it makes for
\* another finder in between, which goes to the node that answered last, holds
\* it up for good.  Excepted are lost datagrams, ended masters, and finders that
\* leave.
FinderAnswered ==
  \A c \in Finders : \A m \in Serving :
    (Phase = "asking" /\ M!Asker = c /\ Reaches(Here, m))
      ~> \/ answer[c] # "none" \/ cstate[c] = "closed" \/ pc = "dead"
         \/ lost \/ \E n \in Serving : n \notin up

(***************************************************************************)
(* The inductive invariant, on top of those of the two parts.              *)
(***************************************************************************)
\* Offers come from nodes that serve, and a remote address from an offer.
DInv ==
  /\ \A d \in net : d.kind = "OFFER" => d.from \in Serving
  /\ found[Here] # None => found[Here].from \in Serving
  /\ send_buffer_ = "REMOTE" => found[Here] # None
  /\ \A c \in Clients : answer[c] = "REMOTE" => found[Here] # None
  /\ \A c \in Clients : outcome[c] = "remote" /\ Length = "whole" => found[Here] # None
=============================================================================
