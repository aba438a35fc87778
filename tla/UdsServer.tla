------------------------------ MODULE UdsServer ------------------------------
(***************************************************************************)
(* The epoll loop of unix_domain::stream::Server                           *)
(* (src/unix_socket/stream/server.cpp): one thread accepts connections,    *)
(* reads one packet per readable event, hands it to the read callback,     *)
(* switches the descriptor to "writable", sends the packet the shared      *)
(* pointer pack_ points at, and switches the descriptor back.  Every       *)
(* descriptor, the listening one included, is edge triggered.              *)
(*                                                                         *)
(* The kernel (AF_UNIX stream sockets, the epoll interest and ready lists) *)
(* and the processes at the other end of the connections are modelled as   *)
(* far as the loop can observe them.  What the callback does is left open  *)
(* (it calls Server::Send or it does not); SDMaster puts the service       *)
(* discovery master's callback in its place.                               *)
(*                                                                         *)
(* A packet is the pair <<c, k>>, the k-th request of client c; a reply    *)
(* is named after the request whose callback put it into pack_.            *)
(***************************************************************************)
EXTENDS Naturals, Sequences

CONSTANTS
  Clients,   \* the client processes; each connects at most once
  Fds,       \* descriptor numbers accept() can hand out
  sockfd,    \* the listening descriptor, sockfd_ in the code
  MaxReq,    \* bound: requests each client sends on its connection
  None       \* no client, and the value of pack_ before the first Send

ASSUME UdsAssumption ==
  /\ Fds \subseteq Nat
  /\ sockfd \in Nat \ Fds
  /\ MaxReq \in [Clients -> Nat]
  /\ None \notin Clients
  /\ None \notin Clients \X Nat

VARIABLES
  cstate,    \* client end of the connection: "new", "open" or "closed"
  sent,      \* requests each client has sent
  got,       \* replies each client has received
  backlog,   \* connections completed by connect() and not yet accepted
  peer,      \* the client behind each accepted descriptor, or None
  interest,  \* the epoll interest of each descriptor: "IN" or "OUT"
  ready,     \* the epoll ready list
  taken,     \* requests the server has read from each client
  replies,   \* the packets sent to each client
  pc,        \* "wait" (in epoll_wait), "loop", "callback" or "dead"
  events,    \* what is left of the array epoll_wait filled
  trigfd,    \* the descriptor whose packet is in the callback
  pack_      \* the packet the next writable descriptor will be sent

clientVars == <<cstate, sent, got>>
connVars == <<backlog, peer, interest, taken, replies>>
loopVars == <<pc, events, trigfd, pack_>>
vars == <<clientVars, connVars, ready, loopVars>>

Conditions == {"IN", "OUT", "HUP"}
Requests == Clients \X Nat

Unread(c) == sent[c] - taken[c]

(***************************************************************************)
(* The kernel.  Poll is what ep_item_poll reports for a descriptor with    *)
(* interest i: HUP is reported whatever the interest, and a connection     *)
(* closed by its client is readable too (end of file).  The few packets of *)
(* a connection never fill a socket buffer, so it is always writable.      *)
(***************************************************************************)
Poll(c, i) ==
  (IF cstate[c] = "closed" THEN {"HUP"} ELSE {})
    \cup (IF i = "IN" /\ (Unread(c) > 0 \/ cstate[c] = "closed") THEN {"IN"} ELSE {})
    \cup (IF i = "OUT" THEN {"OUT"} ELSE {})

Revents(f) ==
  IF f = sockfd THEN (IF backlog # <<>> THEN {"IN"} ELSE {})
  ELSE IF peer[f] = None THEN {}
  ELSE Poll(peer[f], interest[f])

FdsOf(c) == {f \in Fds : peer[f] = c}

----------------------------------------------------------------------------
(***************************************************************************)
(* Socket, Bind, Listen and Start: the listening descriptor is the only    *)
(* member of the interest list when the loop starts.  The constructors     *)
(* leave pack_ uninitialized.                                              *)
(***************************************************************************)
Init ==
  /\ cstate = [c \in Clients |-> "new"]
  /\ sent = [c \in Clients |-> 0]
  /\ got = [c \in Clients |-> 0]
  /\ backlog = <<>>
  /\ peer = [f \in Fds |-> None]
  /\ interest = [f \in Fds |-> "IN"]
  /\ ready = {}
  /\ taken = [c \in Clients |-> 0]
  /\ replies = [c \in Clients |-> <<>>]
  /\ pc = "wait"
  /\ events = [f \in Fds \cup {sockfd} |-> {}]
  /\ trigfd = sockfd
  /\ pack_ = None

----------------------------------------------------------------------------
(* The clients: unix_domain::stream::Client. *)

\* Client::Socket and Client::Connect; the listening descriptor turns ready.
Connect(c) ==
  /\ pc # "dead"
  /\ cstate[c] = "new"
  /\ cstate' = [cstate EXCEPT ![c] = "open"]
  /\ backlog' = Append(backlog, c)
  /\ ready' = ready \cup {sockfd}
  /\ UNCHANGED <<sent, got, peer, interest, taken, replies, loopVars>>

\* Client::Send: the packet arrives whole, and wakes the server only if the
\* descriptor is waiting for input.  The connection need not be accepted yet.
Send(c) ==
  /\ pc # "dead"
  /\ cstate[c] = "open"
  /\ sent[c] < MaxReq[c]
  /\ sent' = [sent EXCEPT ![c] = @ + 1]
  /\ ready' = ready \cup {f \in FdsOf(c) : interest[f] = "IN"}
  /\ UNCHANGED <<cstate, got, connVars, loopVars>>

\* Client::Recv: it blocks until a reply has arrived.  Reading it frees
\* buffer space, which wakes a descriptor waiting for output.
Recv(c) ==
  /\ cstate[c] = "open"
  /\ got[c] < Len(replies[c])
  /\ got' = [got EXCEPT ![c] = @ + 1]
  /\ ready' = ready \cup {f \in FdsOf(c) : interest[f] = "OUT"}
  /\ UNCHANGED <<cstate, sent, connVars, loopVars>>

\* Client::~Client, or the end of the client process, at any point.
Close(c) ==
  /\ cstate[c] = "open"
  /\ cstate' = [cstate EXCEPT ![c] = "closed"]
  /\ ready' = ready \cup FdsOf(c)
  /\ UNCHANGED <<sent, got, connVars, loopVars>>

----------------------------------------------------------------------------
(* The server thread: Server::run. *)

\* epoll_wait returns every ready descriptor that has something to report
\* and, all being edge triggered, empties the ready list.
EpollWait ==
  /\ pc = "wait"
  /\ \E f \in ready : Revents(f) # {}
  /\ events' = [f \in DOMAIN events |-> IF f \in ready THEN Revents(f) ELSE {}]
  /\ ready' = {}
  /\ pc' = "loop"
  /\ UNCHANGED <<clientVars, connVars, trigfd, pack_>>

\* Faulty variant: the event is handled and stays in the array.
ProcessedKept(f) ==
  /\ UNCHANGED events
  /\ pc' = "loop"

\* The event of descriptor f has been dealt with; f may be the last of the array.
Processed(f) ==
  /\ events' = [events EXCEPT ![f] = {}]
  /\ pc' = IF \A g \in DOMAIN events \ {f} : events[g] = {} THEN "wait" ELSE "loop"

\* exit(1), a signal or an uncaught exception ends the process.
Die ==
  /\ pc' = "dead"
  /\ UNCHANGED <<clientVars, connVars, ready, events, trigfd, pack_>>

\* Faulty variant: the number of a descriptor that is still open.
IsLowestOfAll(f) == \A g \in Fds : f <= g

\* The lowest descriptor not in use, which is the one accept() returns.
IsLowestFree(f) ==
  /\ peer[f] = None
  /\ \A g \in Fds : peer[g] = None => f <= g

\* The listening descriptor is readable: ONE call of accept, whose descriptor
\* joins the interest list and is ready at once if it has anything to report.
AcceptEvent ==
  /\ pc = "loop"
  /\ events[sockfd] # {}
  /\ backlog # <<>>
  /\ \E f \in Fds :
       /\ IsLowestFree(f)
       /\ peer' = [peer EXCEPT ![f] = Head(backlog)]
       /\ interest' = [interest EXCEPT ![f] = "IN"]
       /\ ready' = IF Poll(Head(backlog), "IN") # {} THEN ready \cup {f} ELSE ready
  /\ backlog' = Tail(backlog)
  /\ Processed(sockfd)
  /\ UNCHANGED <<clientVars, taken, replies, trigfd, pack_>>

\* No descriptor is left: accept fails and Server::Accept calls exit(1).
AcceptFails ==
  /\ pc = "loop"
  /\ events[sockfd] # {}
  /\ \A f \in Fds : peer[f] # None
  /\ Die

\* Faulty variant: the descriptor is forgotten but not closed.
HupEventNoClose(f) ==
  /\ pc = "loop"
  /\ "HUP" \in events[f]
  /\ Processed(f)
  /\ UNCHANGED <<clientVars, connVars, ready, trigfd, pack_>>

\* Faulty variant: the mask that is tested for HUP includes EPOLLOUT.
HupEventOut(f) ==
  /\ pc = "loop"
  /\ events[f] \cap {"HUP", "OUT"} # {}
  /\ peer' = [peer EXCEPT ![f] = None]
  /\ ready' = ready \ {f}
  /\ Processed(f)
  /\ UNCHANGED <<clientVars, backlog, interest, taken, replies, trigfd, pack_>>

\* The connection was closed: leave the interest list, close the descriptor.
\* Requests that were never read are lost.
HupEvent(f) ==
  /\ pc = "loop"
  /\ "HUP" \in events[f]
  /\ peer' = [peer EXCEPT ![f] = None]
  /\ ready' = ready \ {f}
  /\ Processed(f)
  /\ UNCHANGED <<clientVars, backlog, interest, taken, replies, trigfd, pack_>>

\* Faulty variant: IN is looked at before HUP.
InEventBeforeHup(f) ==
  LET c == peer[f] IN
  /\ pc = "loop"
  /\ "IN" \in events[f]
  /\ IF Unread(c) = 0
     THEN cstate[c] = "closed" /\ Die
     ELSE /\ taken' = [taken EXCEPT ![c] = @ + 1]
          /\ trigfd' = f
          /\ pc' = "callback"
          /\ events' = [events EXCEPT ![f] = {}]
          /\ UNCHANGED <<clientVars, backlog, peer, interest, replies, ready, pack_>>

\* in_epoll_recvmsg, up to the call of the callback.  At end of file the peek
\* returns 0 and run() exits; with nothing to read recvmsgn would block.
InEvent(f) ==
  LET c == peer[f] IN
  /\ pc = "loop"
  /\ "IN" \in events[f] /\ "HUP" \notin events[f]
  /\ IF Unread(c) = 0
     THEN cstate[c] = "closed" /\ Die
     ELSE /\ taken' = [taken EXCEPT ![c] = @ + 1]
          /\ trigfd' = f
          /\ pc' = "callback"
          /\ events' = [events EXCEPT ![f] = {}]
          /\ UNCHANGED <<clientVars, backlog, peer, interest, replies, ready, pack_>>

\* Faulty variants: the interest stays as it was, or asks for both conditions.
SwitchForgotten ==
  /\ pc = "callback"
  /\ pc' = IF \A g \in DOMAIN events : events[g] = {} THEN "wait" ELSE "loop"
  /\ ready' = IF Poll(peer[trigfd], "IN") # {} THEN ready \cup {trigfd} ELSE ready
  /\ UNCHANGED <<clientVars, connVars, events, trigfd>>

SwitchToBoth ==
  /\ pc = "callback"
  /\ interest' = [interest EXCEPT ![trigfd] = "INOUT"]
  /\ ready' = ready \cup {trigfd}
  /\ pc' = IF \A g \in DOMAIN events : events[g] = {} THEN "wait" ELSE "loop"
  /\ UNCHANGED <<clientVars, backlog, peer, taken, replies, events, trigfd>>

\* run(), line 134 on: the callback has returned, wait for writability.
SwitchToOut ==
  /\ pc = "callback"
  /\ interest' = [interest EXCEPT ![trigfd] = "OUT"]
  /\ ready' = ready \cup {trigfd}
  /\ pc' = IF \A g \in DOMAIN events : events[g] = {} THEN "wait" ELSE "loop"
  /\ UNCHANGED <<clientVars, backlog, peer, taken, replies, events, trigfd>>

\* Faulty variant: the reply is made for the newest request, read or not.
CallbackSendsNewest ==
  /\ SwitchToOut
  /\ pack_' = <<peer[trigfd], sent[peer[trigfd]]>>

\* The callback called Server::Send, which stores its argument in pack_ ...
CallbackSends ==
  /\ SwitchToOut
  /\ pack_' = <<peer[trigfd], taken[peer[trigfd]]>>

\* ... or it did not (or no callback was set).
CallbackIsSilent ==
  /\ SwitchToOut
  /\ UNCHANGED pack_

\* The callback threw an exception, which nothing in run() catches.
CallbackThrows ==
  /\ pc = "callback"
  /\ Die

\* The descriptor is writable and nothing else.
Writable(f) == pc = "loop" /\ "OUT" \in events[f] /\ events[f] \cap {"HUP", "IN"} = {}

\* Faulty variant: the descriptor is not switched back to input.
OutEventNoRearm(f) ==
  LET c == peer[f] IN
  /\ Writable(f)
  /\ pack_ # None /\ cstate[c] = "open"
  /\ replies' = [replies EXCEPT ![c] = Append(@, pack_)]
  /\ Processed(f)
  /\ UNCHANGED <<clientVars, backlog, peer, interest, taken, ready, trigfd, pack_>>

\* in_epoll_sendmsg sent the packet; then back to waiting for input.
OutEvent(f) ==
  LET c == peer[f] IN
  /\ Writable(f)
  /\ pack_ # None /\ cstate[c] = "open"
  /\ replies' = [replies EXCEPT ![c] = Append(@, pack_)]
  /\ interest' = [interest EXCEPT ![f] = "IN"]
  /\ ready' = IF Poll(c, "IN") # {} THEN ready \cup {f} ELSE ready
  /\ Processed(f)
  /\ UNCHANGED <<clientVars, backlog, peer, taken, trigfd, pack_>>

\* It did not: pack_ was never set, the client has gone (SIGPIPE), or sendmsg
\* took less than the data_size the callback's packet claims, and run() exits.
SendFails(f) ==
  /\ Writable(f)
  /\ Die

----------------------------------------------------------------------------
ClientNext(c) == Connect(c) \/ Send(c) \/ Recv(c) \/ Close(c)

\* What the thread does outside the callback.
LoopNext ==
  \/ EpollWait
  \/ AcceptEvent
  \/ AcceptFails
  \/ \E f \in Fds : HupEvent(f) \/ InEvent(f) \/ OutEvent(f) \/ SendFails(f)

Next ==
  \/ \E c \in Clients : ClientNext(c)
  \/ LoopNext
  \/ CallbackSends
  \/ CallbackIsSilent
  \/ CallbackThrows

Spec == Init /\ [][Next]_vars

\* The thread is scheduled whenever it can run.  Nothing is assumed of the
\* clients, and nothing of the callback: it may block for ever.
FairSpec == Spec /\ WF_vars(LoopNext)

(***************************************************************************)
(* Properties.                                                             *)
(***************************************************************************)
TypeOK ==
  /\ cstate \in [Clients -> {"new", "open", "closed"}]
  /\ sent \in [Clients -> Nat]
  /\ got \in [Clients -> Nat]
  /\ backlog \in Seq(Clients)
  /\ peer \in [Fds -> Clients \cup {None}]
  /\ interest \in [Fds -> {"IN", "OUT"}]
  /\ ready \subseteq Fds \cup {sockfd}
  /\ taken \in [Clients -> Nat]
  /\ replies \in [Clients -> Seq(Requests)]
  /\ pc \in {"wait", "loop", "callback", "dead"}
  /\ events \in [Fds \cup {sockfd} -> SUBSET Conditions]
  /\ trigfd \in Fds \cup {sockfd}
  /\ pack_ \in Requests \cup {None}

\* The handlers of run() never block or misread, although every socket is
\* blocking: an event still in the array finds its condition true when it is
\* its turn.  accept has a connection to return; the packet that made a
\* descriptor readable is still there and is the descriptor's own.
HandlersNeverBlock ==
  /\ events[sockfd] # {} => backlog # <<>>
  /\ \A f \in Fds : "IN" \in events[f] /\ "HUP" \notin events[f]
                       => peer[f] # None /\ Unread(peer[f]) > 0

\* While events of one epoll_wait are being worked off, a descriptor whose
\* event is still to come keeps its connection and its interest: closing one
\* descriptor and accepting another (which may get the same number) in the
\* same round never redirects an event to a connection it was not raised for.
EventsCurrent ==
  [][\A f \in Fds : events[f] # {} /\ events'[f] # {}
        => peer'[f] = peer[f] /\ interest'[f] = interest[f]]_vars

\* A request the server never reads is lost to its own client's hang-up and to
\* nothing else: whatever events share a round, run() closes a descriptor only
\* if the client behind it has closed its end (HUP, looked at before IN).
DropsOnlyClosed ==
  [][\A f \in Fds : peer[f] # None /\ peer'[f] # peer[f]
        => cstate[peer[f]] = "closed"]_vars

\* Edge triggering loses no readiness of an accepted connection: if it has
\* something to report, then the ready list, the current array or the running
\* callback (whose return re-arms it) will bring it up.  This rests on the
\* two epoll_ctl(MOD) calls of run(), lines 137 and 153.
NoLostWakeup ==
  \A f \in Fds : Revents(f) # {} =>
     \/ f \in ready
     \/ events[f] # {}
     \/ pc = "callback" /\ trigfd = f
     \/ pc = "dead"

\* A reply may answer somebody else's request (SDMaster shows it does), but
\* the replies of a connection never go back in time: of the answers made for
\* one client the newer is never followed by the older, and no answer
\* overtakes the connection's own request count.
RepliesInOrder ==
  \A c \in Clients : \A i \in 1..Len(replies[c]) :
    /\ replies[c][i][1] = c => replies[c][i][2] <= i
    /\ \A j \in 1..i : replies[c][j][1] = replies[c][i][1]
                          => replies[c][j][2] <= replies[c][i][2]

\* The server's end of a connection, as RequestReply sees it.
Link(c) ==
  IF FdsOf(c) # {} THEN "up"
  ELSE IF cstate[c] = "new" \/ (\E i \in 1..Len(backlog) : backlog[i] = c) THEN "none"
  ELSE "down"

Links == [c \in Clients |-> Link(c)]
Answered == [c \in Clients |-> Len(replies[c])]
InService == IF pc = "callback" THEN peer[trigfd] ELSE None
Alive == pc # "dead"

RR == INSTANCE RequestReply WITH
        link <- Links, asked <- sent, accepted <- taken,
        answered <- Answered, serving <- InService, up <- Alive

\* The loop implements the request/reply server: a connection is owed at most
\* one reply at any time (interest alternates IN, OUT, IN), callbacks run one
\* after the other, and nothing is done for a dropped connection.
ImplementsRequestReply == RR!Spec

\* If callbacks return, then every request sent on an accepted connection is
\* read in the end, unless its client hangs up or the process ends.
RequestServed ==
  []<>(pc # "callback") =>
    \A c \in Clients : \A k \in 1..MaxReq[c] :
      (sent[c] >= k /\ FdsOf(c) # {})
        ~> (taken[c] >= k \/ cstate[c] = "closed" \/ pc = "dead")

\* Every client that connects is accepted in the end, if it stays and the
\* process lives.
EveryConnectionAccepted ==
  []<>(pc # "callback") =>
    \A c \in Clients :
      (cstate[c] = "open") ~> (FdsOf(c) # {} \/ cstate[c] = "closed" \/ pc = "dead")

(***************************************************************************)
(* The inductive invariant, by parts.                                      *)
(***************************************************************************)
\* A client is in at most one place: not connected, once in the backlog, or
\* behind one descriptor.
Placement ==
  /\ \A f, g \in Fds : peer[f] # None /\ peer[f] = peer[g] => f = g
  /\ \A i, j \in 1..Len(backlog) : backlog[i] = backlog[j] => i = j
  /\ \A i \in 1..Len(backlog) : cstate[backlog[i]] # "new"
  /\ \A f \in Fds : peer[f] # None =>
       /\ cstate[peer[f]] # "new"
       /\ \A i \in 1..Len(backlog) : backlog[i] # peer[f]

\* The server loses track of no connection its client still holds open.
OpenIsPlaced ==
  \A c \in Clients : cstate[c] = "open" =>
    (\E i \in 1..Len(backlog) : backlog[i] = c) \/ (\E f \in Fds : peer[f] = c)

\* A request of descriptor f has been read and its reply not yet sent.
Owes(f) == interest[f] = "OUT" \/ (pc = "callback" /\ trigfd = f)

\* The request and reply counts of each connection, against its interest.
HalfDuplex ==
  /\ \A c \in Clients : taken[c] <= sent[c]
  /\ \A c \in Clients : (cstate[c] = "new" \/ \E i \in 1..Len(backlog) : backlog[i] = c)
                           => taken[c] = 0 /\ replies[c] = <<>>
  /\ \A f \in Fds : peer[f] # None /\ pc # "dead" =>
       /\ Owes(f) => taken[peer[f]] = Len(replies[peer[f]]) + 1
       /\ ~Owes(f) => taken[peer[f]] = Len(replies[peer[f]])

\* An event still in the array is true of its descriptor.
EventsHold ==
  /\ pc = "wait" => \A f \in Fds \cup {sockfd} : events[f] = {}
  /\ pc = "callback" => /\ trigfd \in Fds /\ peer[trigfd] # None
                        /\ events[trigfd] = {} /\ interest[trigfd] = "IN"
  /\ \A f \in Fds : events[f] # {} =>
       /\ peer[f] # None
       /\ "IN" \in events[f] => interest[f] = "IN"
       /\ "OUT" \in events[f] => interest[f] = "OUT"
       /\ "HUP" \in events[f] => cstate[peer[f]] = "closed"

\* pack_ holds the latest answer made for its client.
LatestAnswer ==
  /\ \A c \in Clients : \A i \in 1..Len(replies[c]) :
       replies[c][i][2] <= taken[replies[c][i][1]]
  /\ pack_ # None =>
       /\ pack_[2] <= taken[pack_[1]]
       /\ \A c \in Clients : \A i \in 1..Len(replies[c]) :
            replies[c][i][1] = pack_[1] => replies[c][i][2] <= pack_[2]

\* The invariant that is preserved by every step.
IInv ==
  /\ TypeOK
  /\ Placement
  /\ OpenIsPlaced
  /\ HalfDuplex
  /\ EventsHold
  /\ HandlersNeverBlock
  /\ NoLostWakeup
  /\ LatestAnswer
  /\ RepliesInOrder
=============================================================================
