------------------------------- MODULE SDMaster -------------------------------
(***************************************************************************)
(* sd::ServiceDiscoveryMaster on top of the epoll loop of UdsServer, with  *)
(* the programs that talk to it: SDClient (a "finder") asks where a service *)
(* is, SDServer (a "registrar") announces one.  The callbacks of UdsServer *)
(* are replaced by process_local_find_service, which runs on the epoll     *)
(* thread: it answers from local_service_map_, or it sends a query by UDP  *)
(* and blocks in UdpClient::Recv until something arrives.                  *)
(*                                                                         *)
(* Every answer is built in the one send_buffer_, and Server::Send only    *)
(* keeps a pointer to it: what a client gets is what the buffer holds when *)
(* its descriptor turns writable.                                          *)
(***************************************************************************)
EXTENDS UdsServer

CONSTANTS
  Finders,     \* the processes that run SDClient
  ServiceId    \* the service each process needs, or offers

ASSUME SDAssumption ==
  /\ Finders \subseteq Clients
  /\ ServiceId \in [Clients -> Nat]
  /\ \A c \in Clients : MaxReq[c] = 1   \* SDClient::Run and SDServer::Run send one packet

VARIABLES
  phase,               \* "idle", or "asking" in UdpClient::Recv
  local_service_map_,  \* the keys of the map; its values are not looked at
  send_buffer_,        \* the packet in the buffer: "unset", "FIND", "LOCAL", "REMOTE"
  data_size,           \* how far header.data_size of the buffer reaches
  answer,              \* the packet sent to each client, or "none"
  outcome              \* what each program printed, or "none"

sdVars == <<phase, local_service_map_, send_buffer_, data_size, answer, outcome>>
allVars == <<vars, sdVars>>

Registrars == Clients \ Finders
Extents == {"header", "type", "whole", "beyond"}

(***************************************************************************)
(* SDPackage as the compiler lays it out: the two arrays have no elements, *)
(* so sizeof(SDPackage), which both programs put into data_size, covers    *)
(* the type only and the fields behind it are never sent.  The server      *)
(* clears its receive buffer and reads a zero.                             *)
(***************************************************************************)
SizeofSDPackage == 8
OffsetOfServiceId == 8
Arrived(c) == IF OffsetOfServiceId + 4 <= SizeofSDPackage THEN ServiceId[c] ELSE 0

\* Nothing sets header.data_size of send_buffer_ before it is used, so it has
\* whatever value the memory had: it may cover the header alone, the type, the
\* offer as well, or more than a packet can have.
SDInit ==
  /\ Init
  /\ phase = "idle"
  /\ local_service_map_ = {}
  /\ send_buffer_ = "unset"
  /\ data_size \in Extents
  /\ answer = [c \in Clients |-> "none"]
  /\ outcome = [c \in Clients |-> "none"]

----------------------------------------------------------------------------
(* process_local_find_service and what it calls. *)

Asker == peer[trigfd]

\* SDClient and SDServer only send packets that the callback has a case for: its
\* returns on any other type of header or package are never reached.
InCallback == pc = "callback" /\ phase = "idle"

\* Faulty variant: the map is not looked at.
FindLocalUnchecked ==
  /\ InCallback /\ Asker \in Finders
  /\ send_buffer_' = "LOCAL"
  /\ CallbackSends
  /\ UNCHANGED <<phase, local_service_map_, data_size, answer, outcome>>

\* The service is known: notify_local_service_info.
FindLocal ==
  /\ InCallback /\ Asker \in Finders
  /\ Arrived(Asker) \in local_service_map_
  /\ send_buffer_' = "LOCAL"
  /\ CallbackSends
  /\ UNCHANGED <<phase, local_service_map_, data_size, answer, outcome>>

\* Faulty variant: the query is sent and the callback returns to the loop
\* without its descriptor being switched to output.
FindRemoteAsync ==
  /\ InCallback /\ Asker \in Finders
  /\ Arrived(Asker) \notin local_service_map_
  /\ send_buffer_' = "FIND"
  /\ pc' = "loop"
  /\ UNCHANGED <<clientVars, connVars, ready, events, trigfd, pack_>>
  /\ UNCHANGED <<phase, local_service_map_, data_size, answer, outcome>>

\* It is not: remote_find_service overwrites the buffer with the query, sends
\* it and waits for a datagram.  Most lengths beyond a packet make sendto fail
\* (QueryFails); the last eight below 2^32 wrap the int total_pack_size round
\* to a length sendto takes.
FindRemote ==
  /\ InCallback /\ Asker \in Finders
  /\ Arrived(Asker) \notin local_service_map_
  /\ send_buffer_' = "FIND"
  /\ phase' = "asking"
  /\ UNCHANGED <<vars, local_service_map_, data_size, answer, outcome>>

\* UdpClient::Send throws: the datagram is too long, or there is no route.
QueryFails ==
  /\ InCallback /\ Asker \in Finders
  /\ Arrived(Asker) \notin local_service_map_
  /\ send_buffer_' = "FIND"
  /\ CallbackThrows
  /\ UNCHANGED <<phase, local_service_map_, data_size, answer, outcome>>

\* Faulty variant: the OFFER_SERVICE is passed on as it came.
RemoteOfferForwarded ==
  /\ pc = "callback" /\ phase = "asking"
  /\ send_buffer_' = "OFFER"
  /\ phase' = "idle"
  /\ CallbackSends
  /\ UNCHANGED <<local_service_map_, data_size, answer, outcome>>

\* An OFFER_SERVICE arrives: notify_remote_service_info.
RemoteOffer ==
  /\ pc = "callback" /\ phase = "asking"
  /\ send_buffer_' = "REMOTE"
  /\ phase' = "idle"
  /\ CallbackSends
  /\ UNCHANGED <<local_service_map_, data_size, answer, outcome>>

\* Any other datagram arrives: the callback returns without an answer.
RemoteOther ==
  /\ pc = "callback" /\ phase = "asking"
  /\ phase' = "idle"
  /\ CallbackIsSilent
  /\ UNCHANGED <<local_service_map_, send_buffer_, data_size, answer, outcome>>

\* Faulty variant: the registration is read and not stored.
OfferLocalForgotten ==
  /\ InCallback /\ Asker \in Registrars
  /\ CallbackIsSilent
  /\ UNCHANGED sdVars

\* A registration is stored, and not answered.
OfferLocal ==
  /\ InCallback /\ Asker \in Registrars
  /\ local_service_map_' = local_service_map_ \cup {Arrived(Asker)}
  /\ CallbackIsSilent
  /\ UNCHANGED <<phase, send_buffer_, data_size, answer, outcome>>

----------------------------------------------------------------------------
(* The rest of the loop, and the programs. *)

\* A length beyond the packet makes sendmsg take what lies behind the buffer: it
\* may send it all, come up short or fail (RespondFails), or block while the
\* client does not read, which is the thread standing before either.
MayBlock == data_size = "beyond" /\ \E f \in Fds : Writable(f)

\* pack_ points at send_buffer_, if it points anywhere.
Respond(f) ==
  /\ OutEvent(f)
  /\ answer' = [answer EXCEPT ![peer[f]] = send_buffer_]
  /\ UNCHANGED <<phase, local_service_map_, send_buffer_, data_size, outcome>>

RespondFails(f) ==
  /\ SendFails(f)
  /\ pack_ = None \/ cstate[peer[f]] = "closed" \/ data_size = "beyond"
  /\ UNCHANGED sdVars

\* SDClient::Run and SDServer::Run after Recv.  What the packet did not bring
\* is read from an uninitialized buffer.
Outcomes(c) ==
  IF c \in Registrars THEN {"registered"}
  ELSE IF data_size = "header" THEN {"local", "remote", "nothing"}
  ELSE IF answer[c] = "FIND" THEN {"nothing"}
  ELSE IF data_size = "type" THEN {"local", "remote"}
  ELSE IF answer[c] = "LOCAL" THEN {"local"}
  ELSE {"remote"}

Receive(c) ==
  /\ Recv(c)
  /\ \E o \in Outcomes(c) : outcome' = [outcome EXCEPT ![c] = o]
  /\ UNCHANGED <<phase, local_service_map_, send_buffer_, data_size, answer>>

ProgramNext(c) ==
  \/ Receive(c)
  \/ (Connect(c) \/ Send(c) \/ Close(c)) /\ UNCHANGED sdVars

\* The epoll thread, except for the arrival of a datagram.
ThreadNext ==
  \/ (EpollWait \/ AcceptEvent \/ AcceptFails) /\ UNCHANGED sdVars
  \/ \E f \in Fds :
       \/ (HupEvent(f) \/ InEvent(f)) /\ UNCHANGED sdVars
       \/ Respond(f) \/ RespondFails(f)
  \/ FindLocal \/ FindRemote \/ QueryFails \/ OfferLocal

SDNext ==
  \/ \E c \in Clients : ProgramNext(c)
  \/ ThreadNext
  \/ RemoteOffer \/ RemoteOther

SDSpec == SDInit /\ [][SDNext]_allVars

\* The thread runs whenever it can, unless its client's socket may be full.
\* Nobody has to answer a query.
FairSDSpec == SDSpec /\ WF_allVars(~MayBlock /\ ThreadNext)

(***************************************************************************)
(* Properties.                                                             *)
(***************************************************************************)
SDTypeOK ==
  /\ phase \in {"idle", "asking"}
  /\ local_service_map_ \subseteq Nat
  /\ send_buffer_ \in {"unset", "FIND", "LOCAL", "REMOTE"}
  /\ data_size \in Extents
  /\ answer \in [Clients -> {"none", "FIND", "LOCAL", "REMOTE"}]
  /\ outcome \in [Clients -> {"none", "local", "remote", "nothing", "registered"}]

\* A request of descriptor f has been read and its reply not sent; the callback
\* has not returned as long as the interest is still in input.
Unreplied(f) == peer[f] # None /\ taken[peer[f]] > Len(replies[peer[f]])

\* The master is one of the servers UdsServer describes: whatever is proved of
\* the loop holds with the master's callback in it, blocked or not.
ImplementsLoop == Spec

\* Although answers go through one buffer and reach clients late and in any
\* order, no client is sent a local address before a registration was read.
LocalAnswerIsRegistered ==
  \A c \in Clients : answer[c] = "LOCAL" => \E s \in Registrars : taken[s] > 0

\* "Register service success" is true when it is printed.  The master makes no
\* reply to a registration: SDServer takes for one whatever packet the shared
\* buffer holds when its descriptor turns writable, often another program's
\* answer.  All the same its service is in the map by then, and no find for it
\* goes to the network any more.
RegisteredIsLocal ==
  \A s \in Registrars : outcome[s] = "registered" =>
    /\ Arrived(s) \in local_service_map_
    /\ phase = "asking" => Arrived(Asker) # Arrived(s)

\* The master survives its programs: a client that leaves before its request is
\* read, or with its reply sent, never ends the process, whatever shares a round
\* with its hang-up.  It ends when no descriptor is left for a connection, when a
\* query cannot be sent, and over a reply that is due: if the client has gone, if
\* the length in the buffer is beyond a packet, or if no answer was ever made
\* (registrations get none of their own).
EndsForAReason ==
  pc = "dead" =>
    \/ backlog # <<>> /\ \A f \in Fds : peer[f] # None
    \/ \E f \in Fds : /\ Unreplied(f) /\ interest[f] = "IN"
                      /\ peer[f] \in Finders /\ Arrived(peer[f]) \notin local_service_map_
    \/ \E f \in Fds : /\ Unreplied(f) /\ interest[f] = "OUT"
                      /\ cstate[peer[f]] = "closed" \/ data_size = "beyond" \/ pack_ = None

\* If the network answers every query, and no send blocks for ever, then every
\* request the server has read is replied to, unless its client hangs up or the
\* process ends.
EveryRequestAnswered ==
  []<>(phase # "asking" /\ ~MayBlock) =>
    \A c \in Clients :
      (taken[c] = 1) ~> (answer[c] # "none" \/ cstate[c] = "closed" \/ pc = "dead")

\* The reply to a find is the answer made for that find.
OwnAnswer ==
  \A c \in Finders : \A i \in 1..Len(replies[c]) : replies[c][i] = <<c, i>>

\* A finder that is told a local address asked for a service that was announced.
RightService ==
  \A c \in Finders : outcome[c] = "local" /\ data_size = "whole" =>
    \E s \in Registrars : taken[s] > 0 /\ ServiceId[s] = ServiceId[c]

(***************************************************************************)
(* The inductive invariant, on top of IInv.                                *)
(***************************************************************************)
\* Some registration has been read.
Announced == \E s \in Registrars : taken[s] > 0

\* A registration that was read is in the map, or the callback is at it; one
\* whose program got a packet is in the map.
RegistrationsStored ==
  \A s \in Registrars :
    /\ taken[s] > 0 => Arrived(s) \in local_service_map_ \/ (pc = "callback" /\ Asker = s)
    /\ replies[s] # <<>> \/ outcome[s] = "registered" => Arrived(s) \in local_service_map_

SDInv ==
  /\ SDTypeOK
  /\ phase = "asking" =>
       pc = "callback" /\ Asker \in Finders /\ Arrived(Asker) \notin local_service_map_
  /\ local_service_map_ # {} => Announced
  /\ send_buffer_ = "LOCAL" => Announced
  /\ pack_ # None => send_buffer_ # "unset"
  /\ LocalAnswerIsRegistered
  /\ RegistrationsStored

\* Each program sends one packet and gets at most one; what it gets, or is about
\* to, was made for the one find of some finder, and came out of the buffer.
OnePacketEach ==
  /\ \A c \in Clients : sent[c] <= 1 /\ Len(replies[c]) <= taken[c]
  /\ \A c \in Clients : replies[c] # <<>> => answer[c] # "none"
  /\ pack_ # None => pack_ \in Finders \X {1}
  /\ \A c \in Clients : \A i \in 1..Len(replies[c]) : replies[c][i] \in Finders \X {1}

\* A finder that prints a local address from a whole packet was sent one.
PrintsRegistered ==
  \A c \in Finders : outcome[c] = "local" /\ data_size = "whole" => Announced
=============================================================================
