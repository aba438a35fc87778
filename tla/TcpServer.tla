------------------------------ MODULE TcpServer ------------------------------
(***************************************************************************)
(* tcp::Server (src/tcp/server.cpp) and the tcp::Client processes          *)
(* (src/tcp/client.cpp) that talk to it.  The loop is that of UdsServer in *)
(* outline, and differs where it matters: it only ever waits for input and *)
(* answers nobody, it sees the end of a connection as a readable event,    *)
(* all connections are read into the one packet_, and packets come in      *)
(* pieces.  in_epoll_recvmsg peeks the header of a packet four bytes off   *)
(* its place, so that the type is taken for the length.                    *)
(*                                                                         *)
(* A stream is the packets its client sent, each with the place of its     *)
(* first byte; Byte says what the server finds at a place.  Words are      *)
(* little endian.  A value that does not fit a byte is Huge, and so many   *)
(* bytes never arrive.                                                     *)
(***************************************************************************)
EXTENDS Naturals, Sequences

CONSTANTS
  Clients,    \* the client processes; each connects at most once
  Fds,        \* descriptor numbers accept() can hand out
  sock_,      \* the listening descriptor
  Packets,    \* what each client calls Client::Send with: records of type and size
  Hello,      \* the packet of Client::SendMsg
  MaxPackets, \* bound: packets each client sends
  Cuts,       \* for each client, how far into a packet a piece of it may end
  Faulty,     \* bound: the clients that may be cut off in a send, or be reset
  Slack,      \* payload bytes that fit into the smallest block malloc returns
  None        \* no client

Word == 4
Header == 2 * Word
Letter == 72
Huge == 256
Bytes == 0..(Huge - 1)

ASSUME TcpAssumption ==
  /\ Fds \subseteq Nat
  /\ sock_ \in Nat \ Fds
  /\ Packets \in [Clients -> SUBSET [type : Bytes, size : Bytes]]
  /\ Hello \in [type : {0}, size : Bytes \ {0}]
  /\ MaxPackets \in [Clients -> Nat]
  /\ Cuts \in [Clients -> SUBSET (Nat \ {0})]
  /\ Faulty \subseteq Clients
  /\ Slack \in Nat /\ Slack >= Word   \* a peek stores one word behind the header
  /\ None \notin Clients

VARIABLES
  cstate,   \* the client: "new", "open", "waiting" (in RecvMsg) or "closed"
  ended,    \* the connection at the server's end: "no", "fin" or "reset"
  sent,     \* the packets of each client: place in the stream, type and size
  written,  \* bytes the client has handed to its kernel
  arrived,  \* how many of them have reached the server's
  pos,      \* how many of those the server has read
  frames,   \* what each recvmsgn of the server took: place and length
  backlog,  \* connections completed and not yet accepted
  peer,     \* the client behind each accepted descriptor, or None
  ready,    \* the epoll ready list
  events,   \* what is left of the array epoll_wait filled
  pc,       \* "wait", "loop", "peek", "recv", "dead" or "stopped" by a signal
  curfd,    \* the descriptor in_epoll_recvmsg works on, or sock_
  peeked,   \* the bytes recvn has stored from header.data_size on
  header,   \* header.data_size of packet_
  room,     \* payload bytes packet_ was allocated with
  damaged   \* whether clearing packet_ has written behind its block

netVars == <<cstate, ended, sent, written, arrived>>
readVars == <<pos, frames>>
connVars == <<backlog, peer>>
loopVars == <<ready, events, pc, curfd>>
packVars == <<peeked, header, room, damaged>>
vars == <<netVars, readVars, connVars, loopVars, packVars>>

Least(m, n) == IF m <= n THEN m ELSE n
Most(m, n) == IF m <= n THEN n ELSE m

Size(p) == Header + p.size
End(p) == p.at + Size(p)
Avail(c) == arrived[c] - pos[c]
Alive == pc \notin {"dead", "stopped"}
FdsOf(c) == {f \in Fds : peer[f] = c}

\* The place behind the last packet of a client.
StreamEnd(c) == IF sent[c] = <<>> THEN 0 ELSE End(sent[c][Len(sent[c])])

\* The byte at place i of the stream, counted from 1: a type or a length (its
\* lowest byte, the other three are 0), or a letter of the payload.
Byte(c, i) ==
  LET p == sent[c][CHOOSE j \in 1..Len(sent[c]) : sent[c][j].at < i /\ i <= End(sent[c][j])]
      k == i - p.at
  IN IF k = 1 THEN p.type
     ELSE IF k = Word + 1 THEN p.size
     ELSE IF k <= Header THEN 0
     ELSE Letter

\* Four bytes as an unsigned integer.
Value(b1, b2, b3, b4) == IF b2 = 0 /\ b3 = 0 /\ b4 = 0 THEN b1 ELSE Huge

\* The word that starts behind place i.
WordAt(c, i) == Value(Byte(c, i + 1), Byte(c, i + 2), Byte(c, i + 3), Byte(c, i + 4))

\* What epoll reports of a connection with interest EPOLLIN: the end of the
\* stream is readable, a reset is HUP and ERR as well.
Poll(c) ==
  (IF ended[c] = "reset" THEN {"HUP"} ELSE {})
    \cup (IF Avail(c) > 0 \/ ended[c] # "no" THEN {"IN"} ELSE {})

Revents(f) ==
  IF f = sock_ THEN (IF backlog # <<>> THEN {"IN"} ELSE {})
  ELSE IF peer[f] = None THEN {}
  ELSE Poll(peer[f])

----------------------------------------------------------------------------
\* The constructor, Socket, Bind, Listen and Start; packet_ is a null pointer.
Init ==
  /\ cstate = [c \in Clients |-> "new"]
  /\ ended = [c \in Clients |-> "no"]
  /\ sent = [c \in Clients |-> <<>>]
  /\ written = [c \in Clients |-> 0]
  /\ arrived = [c \in Clients |-> 0]
  /\ pos = [c \in Clients |-> 0]
  /\ frames = [c \in Clients |-> <<>>]
  /\ backlog = <<>>
  /\ peer = [f \in Fds |-> None]
  /\ ready = {}
  /\ events = [f \in Fds \cup {sock_} |-> {}]
  /\ pc = "wait"
  /\ curfd = sock_
  /\ peeked = <<>>
  /\ header = 0
  /\ room = 0
  /\ damaged = FALSE

----------------------------------------------------------------------------
(* The clients. *)

\* Client::Socket and Client::Connect.
Connect(c) ==
  /\ Alive
  /\ cstate[c] = "new"
  /\ cstate' = [cstate EXCEPT ![c] = "open"]
  /\ backlog' = Append(backlog, c)
  /\ ready' = ready \cup {sock_}
  /\ UNCHANGED <<ended, sent, written, arrived, readVars, peer, events, pc, curfd, packVars>>

\* The packet goes to the kernel, all of it or its first n bytes.
Write(c, p, n) ==
  /\ Alive
  /\ cstate[c] = "open"
  /\ Len(sent[c]) < MaxPackets[c]
  /\ sent' = [sent EXCEPT ![c] =
                Append(@, [at |-> StreamEnd(c), type |-> p.type, size |-> p.size])]
  /\ written' = [written EXCEPT ![c] = @ + n]
  /\ UNCHANGED <<ended, arrived, readVars, connVars, loopVars, packVars>>

\* Client::Send.
Send(c, p) ==
  /\ Write(c, p, Size(p))
  /\ UNCHANGED cstate

\* Client::SendMsg: the packet, then RecvMsg, which blocks for the header of
\* an answer.
SendMsg(c) ==
  /\ Write(c, Hello, Size(Hello))
  /\ cstate' = [cstate EXCEPT ![c] = "waiting"]

\* The client is ended inside its send, or by the exit(1) after a short one.
SendCut(c, p) ==
  /\ c \in Faulty
  /\ \E n \in Cuts[c] : n < Size(p) /\ Write(c, p, n)
  /\ cstate' = [cstate EXCEPT ![c] = "closed"]

\* RecvMsg comes back when the server's process has gone, and not before:
\* nothing is ever sent to a client.
RecvMsgEnds(c) ==
  /\ ~Alive
  /\ cstate[c] = "waiting"
  /\ cstate' = [cstate EXCEPT ![c] = "closed"]
  /\ UNCHANGED <<ended, sent, written, arrived, readVars, connVars, loopVars, packVars>>

\* Client::~Client, or the end of the process, in RecvMsg as anywhere else.
Close(c) ==
  /\ cstate[c] \in {"open", "waiting"}
  /\ cstate' = [cstate EXCEPT ![c] = "closed"]
  /\ UNCHANGED <<ended, sent, written, arrived, readVars, connVars, loopVars, packVars>>

----------------------------------------------------------------------------
(* The network.  It keeps the order of a stream, delivers it in pieces, and *)
(* wakes the descriptor with each of them.                                  *)

\* Where a piece may end: behind a packet, or at a cut of one.
Stops(c) ==
  {n \in 0..written[c] : \E i \in 1..Len(sent[c]) :
     n = End(sent[c][i]) \/ \E k \in Cuts[c] : n = sent[c][i].at + k /\ n < End(sent[c][i])}

Deliver(c) ==
  /\ Alive /\ ended[c] = "no"
  /\ \E n \in Stops(c) : n > arrived[c] /\ arrived' = [arrived EXCEPT ![c] = n]
  /\ ready' = ready \cup FdsOf(c)
  /\ UNCHANGED <<cstate, ended, sent, written, readVars, connVars, events, pc, curfd, packVars>>

DeliverFin(c) ==
  /\ Alive /\ ended[c] = "no"
  /\ cstate[c] = "closed" /\ arrived[c] = written[c]
  /\ ended' = [ended EXCEPT ![c] = "fin"]
  /\ ready' = ready \cup FdsOf(c)
  /\ UNCHANGED <<cstate, sent, written, arrived, readVars, connVars, events, pc, curfd, packVars>>

\* The connection breaks for both ends; what was under way is lost.
Reset(c) ==
  /\ c \in Faulty
  /\ Alive /\ ended[c] = "no" /\ cstate[c] # "new"
  /\ ended' = [ended EXCEPT ![c] = "reset"]
  /\ cstate' = [cstate EXCEPT ![c] = "closed"]
  /\ ready' = ready \cup FdsOf(c)
  /\ UNCHANGED <<sent, written, arrived, readVars, connVars, events, pc, curfd, packVars>>

----------------------------------------------------------------------------
(* The server thread: Server::run. *)

EpollWait ==
  /\ pc = "wait"
  /\ \E f \in ready : Revents(f) # {}
  /\ events' = [f \in DOMAIN events |-> IF f \in ready THEN Revents(f) ELSE {}]
  /\ ready' = {}
  /\ pc' = "loop"
  /\ UNCHANGED <<netVars, readVars, connVars, curfd, packVars>>

\* Where the thread goes with the array at hand.
After(evs) == IF \A f \in DOMAIN evs : evs[f] = {} THEN "wait" ELSE "loop"

\* Faulty variants: the event stays in the array, or the rest of it is skipped.
ProcessedKept(f) ==
  /\ UNCHANGED events
  /\ pc' = "loop"

ProcessedLast(f) ==
  /\ events' = [g \in DOMAIN events |-> {}]
  /\ pc' = "wait"

\* The event of descriptor f has been dealt with.
Processed(f) ==
  /\ events' = [events EXCEPT ![f] = {}]
  /\ pc' = After(events')

\* in_epoll_recvmsg has returned.
Returned ==
  /\ curfd' = sock_
  /\ pc' = After(events)

\* exit(1), an uncaught exception or a corrupted heap ends the process.
Die ==
  /\ pc' = "dead"
  /\ UNCHANGED <<netVars, readVars, connVars, ready, events, curfd, packVars>>

\* A signal (stop and continue will do) makes epoll_wait fail, and run()
\* leaves its loop; recvmsgn returns a short count, and the exception that
\* follows ends the process.
SignalEnds ==
  /\ pc = "wait" \/ pc = "recv"
  /\ pc' = "stopped"
  /\ UNCHANGED <<netVars, readVars, connVars, ready, events, curfd, packVars>>

\* ONE accept per event; the descriptor is added for input, edge triggered.
AcceptEvent ==
  /\ pc = "loop"
  /\ events[sock_] # {}
  /\ backlog # <<>>
  /\ \E f \in Fds :
       /\ peer[f] = None /\ \A g \in Fds : peer[g] = None => f <= g
       /\ peer' = [peer EXCEPT ![f] = Head(backlog)]
       /\ ready' = IF Poll(Head(backlog)) # {} THEN ready \cup {f} ELSE ready
  /\ backlog' = Tail(backlog)
  /\ Processed(sock_)
  /\ UNCHANGED <<netVars, readVars, curfd, packVars>>

\* accept fails (the process or the system has no descriptor or memory left).
AcceptFails ==
  /\ pc = "loop"
  /\ events[sock_] # {}
  /\ Die

\* EPOLL_CTL_DEL and close.
Drop(f) ==
  /\ peer' = [peer EXCEPT ![f] = None]
  /\ ready' = ready \ {f}

HupEvent(f) ==
  /\ pc = "loop"
  /\ "HUP" \in events[f]
  /\ Drop(f)
  /\ Processed(f)
  /\ UNCHANGED <<netVars, readVars, backlog, curfd, packVars>>

\* The length in packet_ may reach further than its block.
Overrun == header > Most(room, Slack)

\* in_epoll_recvmsg: packet_ is allocated, or cleared as far as the length of
\* the packet last read in it says.
InEvent(f) ==
  /\ pc = "loop"
  /\ "IN" \in events[f] /\ "HUP" \notin events[f]
  /\ events' = [events EXCEPT ![f] = {}]
  /\ pc' = "peek"
  /\ curfd' = f
  /\ peeked' = <<>>
  /\ header' = 0
  /\ damaged' = (damaged \/ Overrun)
  /\ UNCHANGED <<netVars, readVars, connVars, ready, room>>

\* The memset runs into memory that is not there ...
ClearOverruns(f) ==
  /\ pc = "loop"
  /\ "IN" \in events[f] /\ "HUP" \notin events[f]
  /\ Overrun
  /\ Die

\* ... or realloc finds, for this packet or a later one, what it has damaged.
HeapFails ==
  /\ pc = "peek" /\ Len(peeked) = Header
  /\ damaged
  /\ Die

Current == IF curfd = sock_ THEN None ELSE peer[curfd]

\* One recv of recvn(socket_fd, &header.data_size, sizeof(Packet), MSG_PEEK):
\* the bytes stay in the stream, and the next round sees them again.
PeekSome ==
  LET n == Least(Header - Len(peeked), Avail(Current)) IN
  /\ pc = "peek" /\ n > 0
  /\ peeked' = peeked \o [i \in 1..n |-> Byte(Current, pos[Current] + i)]
  /\ UNCHANGED <<netVars, readVars, connVars, loopVars, header, room, damaged>>

\* Faulty variant: the length counts the header.
SizedTotal ==
  LET size == Value(peeked[1], peeked[2], peeked[3], peeked[4]) IN
  /\ pc = "peek" /\ Len(peeked) = Header
  /\ pc' = "recv"
  /\ peeked' = <<>>
  /\ header' = Header + size /\ room' = Header + size
  /\ UNCHANGED <<netVars, readVars, connVars, ready, events, curfd, damaged>>

\* The packet gets the room its header, as it was peeked, asks for.
Sized ==
  LET size == Value(peeked[1], peeked[2], peeked[3], peeked[4]) IN
  /\ pc = "peek" /\ Len(peeked) = Header
  /\ pc' = "recv"
  /\ peeked' = <<>>
  /\ header' = size /\ room' = size
  /\ UNCHANGED <<netVars, readVars, connVars, ready, events, curfd, damaged>>

\* realloc fails, and recvmsg with it.
NoMemory ==
  /\ pc = "peek" /\ Len(peeked) = Header
  /\ Value(peeked[1], peeked[2], peeked[3], peeked[4]) = Huge
  /\ Die

\* Faulty variants: the end of one connection ends the server, as it does in
\* unix_domain::stream::Server, or is acted on with data still unread.
PeekEndsExits ==
  /\ pc = "peek" /\ peeked = <<>>
  /\ Avail(Current) = 0 /\ ended[Current] # "no"
  /\ Die

PeekEndsEarly ==
  /\ pc = "peek" /\ peeked = <<>>
  /\ ended[Current] # "no"
  /\ Drop(curfd)
  /\ Returned
  /\ UNCHANGED <<netVars, readVars, backlog, events, packVars>>

\* The end of the stream: run() removes the descriptor and closes it.
PeekEnds ==
  /\ pc = "peek" /\ peeked = <<>>
  /\ Avail(Current) = 0 /\ ended[Current] = "fin"
  /\ Drop(curfd)
  /\ Returned
  /\ UNCHANGED <<netVars, readVars, backlog, events, packVars>>

\* Faulty variant: what has arrived is taken for the packet.
RecvPackEarly ==
  LET c == Current IN
  /\ pc = "recv" /\ Avail(c) > 0
  /\ pos' = [pos EXCEPT ![c] = @ + Header + header]
  /\ frames' = [frames EXCEPT ![c] = Append(@, [at |-> pos[c], len |-> Header + header])]
  /\ header' = WordAt(c, pos[c] + Word)
  /\ Returned
  /\ UNCHANGED <<netVars, connVars, ready, events, peeked, room, damaged>>

\* Faulty variant: the header that was peeked is not read again.
RecvDataOnly ==
  LET c == Current IN
  /\ pc = "recv" /\ header <= Avail(c)
  /\ pos' = [pos EXCEPT ![c] = @ + header]
  /\ frames' = [frames EXCEPT ![c] = Append(@, [at |-> pos[c], len |-> header])]
  /\ Returned
  /\ UNCHANGED <<netVars, connVars, ready, events, packVars>>

\* recvmsgn waits for all of it and takes it out of the stream; the header that
\* comes with it overwrites the one that was peeked.  The descriptor is left
\* as it was: what else has arrived on it is not looked at.
RecvPack ==
  LET c == Current IN
  /\ pc = "recv" /\ Header + header <= Avail(c)
  /\ header < Huge
  /\ pos' = [pos EXCEPT ![c] = @ + Header + header]
  /\ frames' = [frames EXCEPT ![c] = Append(@, [at |-> pos[c], len |-> Header + header])]
  /\ header' = WordAt(c, pos[c] + Word)
  /\ Returned
  /\ UNCHANGED <<netVars, connVars, ready, events, peeked, room, damaged>>

\* The connection ends before all of it came: the short count is an exception.
RecvShort ==
  /\ pc = "recv"
  /\ Avail(Current) < Header + header /\ ended[Current] # "no"
  /\ Die

----------------------------------------------------------------------------
ClientNext(c) ==
  \/ Connect(c) \/ SendMsg(c) \/ RecvMsgEnds(c) \/ Close(c)
  \/ \E p \in Packets[c] : Send(c, p)
  \/ \E p \in Packets[c] \cup {Hello} : SendCut(c, p)

Transport(c) == Deliver(c) \/ DeliverFin(c)

ServerNext ==
  \/ EpollWait \/ AcceptEvent \/ AcceptFails
  \/ \E f \in Fds : HupEvent(f) \/ InEvent(f) \/ ClearOverruns(f)
  \/ PeekSome \/ Sized \/ NoMemory \/ HeapFails \/ PeekEnds \/ RecvPack \/ RecvShort

Next ==
  \/ \E c \in Clients : ClientNext(c) \/ Transport(c) \/ Reset(c)
  \/ ServerNext
  \/ SignalEnds

Spec == Init /\ [][Next]_vars

\* The thread runs when it can.  Nothing is assumed of clients, network and
\* signals, so the thread may wait in recvmsgn for ever.
FairSpec == Spec /\ WF_vars(ServerNext)

(***************************************************************************)
(* Properties.                                                             *)
(***************************************************************************)
\* The server reads what has arrived, and only what was written arrives.
TypeOK ==
  /\ cstate \in [Clients -> {"new", "open", "waiting", "closed"}]
  /\ ended \in [Clients -> {"no", "fin", "reset"}]
  /\ sent \in [Clients -> Seq([at : Nat, type : Bytes, size : Bytes])]
  /\ written \in [Clients -> Nat]
  /\ arrived \in [Clients -> Nat]
  /\ pos \in [Clients -> Nat]
  /\ \A c \in Clients : pos[c] <= arrived[c] /\ arrived[c] <= written[c]
  /\ frames \in [Clients -> Seq([at : Nat, len : Nat])]
  /\ backlog \in Seq(Clients)
  /\ peer \in [Fds -> Clients \cup {None}]
  /\ ready \subseteq Fds \cup {sock_}
  /\ events \in [Fds \cup {sock_} -> SUBSET {"IN", "HUP"}]
  /\ pc \in {"wait", "loop", "peek", "recv", "dead", "stopped"}
  /\ curfd \in Fds \cup {sock_}
  /\ peeked \in Seq(Bytes) /\ Len(peeked) <= Header
  /\ header \in 0..Huge
  /\ room \in 0..Huge
  /\ damaged \in BOOLEAN

\* The streams in_epoll_recvmsg can read: each packet has its length for its
\* type, and no piece ends inside a word.
Agreeing(c) == \A i \in 1..Len(sent[c]) : sent[c][i].type = sent[c][i].size
WholeWords(c) == Cuts[c] \cap 1..(Word - 1) = {}
Readable(c) == Agreeing(c) /\ WholeWords(c)

\* The stream did not get all of its last packet.
CutShort(c) == written[c] # StreamEnd(c)

\* No call of accept or of the peek blocks the thread: the connection, the
\* bytes or the end of the stream that raised the event are still there, however
\* the other events of its round went.
HandlersNeverBlock ==
  /\ events[sock_] # {} => backlog # <<>>
  /\ \A f \in Fds : "IN" \in events[f] /\ "HUP" \notin events[f] =>
       peer[f] # None /\ (Avail(peer[f]) > 0 \/ ended[peer[f]] = "fin")
  /\ pc = "peek" => Current # None /\ (Avail(Current) > 0 \/ ended[Current] = "fin")

\* The packets of a readable stream are taken one by one and whole, in any
\* delivery and although all connections share packet_: peeking the type for
\* the length costs nothing as long as they are equal.
ReadableFramed ==
  \A c \in Clients : Readable(c) =>
    /\ Len(frames[c]) <= Len(sent[c])
    /\ \A i \in 1..Len(frames[c]) :
         frames[c][i] = [at |-> sent[c][i].at, len |-> Size(sent[c][i])]

\* recvmsgn, which stops the thread until it has all it asked for, never asks a
\* readable stream for bytes its client has not handed to the network.
NeverWaitsForMore ==
  pc = "recv" /\ Readable(Current) /\ ~CutShort(Current) =>
    pos[Current] + Header + header <= written[Current]

\* No readable connection that ends between two packets brings the server
\* down.  It goes when accept fails, when packet_ is or has been cleared further
\* than it reaches, which takes a frame of an unreadable stream, or on the
\* connection at hand if that is unreadable, cut short or reset.
EndsForAReason ==
  pc = "dead" =>
    \/ curfd = sock_ /\ events[sock_] # {}
    \/ (Overrun \/ damaged) /\ \E c \in Clients : frames[c] # <<>> /\ ~Readable(c)
    \/ Current # None /\ (~Readable(Current) \/ CutShort(Current) \/ ended[Current] = "reset")

\* Edge triggered and never re-armed, a descriptor can have something to read
\* and no event coming, but only behind a frame: the first packet of a
\* connection, or the end of one that sent none, is always brought up.
ForgottenBehindFrame ==
  \A f \in Fds : peer[f] # None /\ Poll(peer[f]) # {} =>
    \/ f \in ready
    \/ events[f] # {}
    \/ pc \in {"peek", "recv"} /\ curfd = f
    \/ frames[peer[f]] # <<>>
    \/ ~Alive

\* The server gives up a connection only when its stream has ended, and, unless
\* it was reset, with all of it read: HUP is not raised by a client's close
\* here, as it is on the Unix domain socket.
NoDataDropped ==
  [][\A f \in Fds : peer[f] # None /\ peer'[f] # peer[f] =>
       \/ ended[peer[f]] = "reset"
       \/ ended[peer[f]] = "fin" /\ pos[peer[f]] = written[peer[f]]]_vars

\* The connections, as PacketServer sees them: of a stream that cannot be read
\* nothing but its end.
Orderly == {c \in Clients : Readable(c)}
PutSizes == [c \in Clients |->
               [i \in 1..(IF Readable(c) THEN Len(sent[c]) ELSE 0) |-> Size(sent[c][i])]]
TakenSizes == [c \in Clients |->
                 [i \in 1..(IF Readable(c) THEN Len(frames[c]) ELSE 0) |-> frames[c][i].len]]
Link(c) ==
  IF FdsOf(c) # {} THEN "up"
  ELSE IF cstate[c] = "new" \/ (\E i \in 1..Len(backlog) : backlog[i] = c) THEN "none"
  ELSE "down"
Links == [c \in Clients |-> Link(c)]
PacketSizes == {Size(p) : p \in (UNION {Packets[c] : c \in Clients}) \cup {Hello}}

PS == INSTANCE PacketServer WITH
        Sizes <- PacketSizes, orderly <- Orderly, put <- PutSizes, taken <- TakenSizes,
        link <- Links, over <- ended, up <- Alive

\* The loop keeps the promise of PacketServer: peeks, pieces, the one buffer and
\* the events of other connections add, drop and reorder no packet of a readable
\* stream, and its connection is not given up before its packets are read.
ImplementsPacketServer == PS!Spec

\* As long as the thread keeps coming back to epoll_wait, something is read
\* from every accepted connection on which anything arrives.
FirstFrameRead ==
  []<>(pc = "wait" \/ ~Alive) =>
    \A c \in Clients :
      (FdsOf(c) # {} /\ arrived[c] > 0) ~> (pos[c] > 0 \/ ended[c] = "reset" \/ ~Alive)

\* "Remove the descriptor whose peer has disconnected from epoll, and close it."
DisconnectedRemoved ==
  []<>(pc = "wait" \/ ~Alive) =>
    \A c \in Clients :
      (FdsOf(c) # {} /\ ended[c] = "fin") ~> (FdsOf(c) = {} \/ ~Alive)

(***************************************************************************)
(* The inductive invariant, by parts.                                      *)
(***************************************************************************)
\* A client is in at most one place: not connected, once in the backlog, or
\* behind one descriptor.
Placement ==
  /\ \A f, g \in Fds : peer[f] # None /\ peer[f] = peer[g] => f = g
  /\ \A i, j \in 1..Len(backlog) : backlog[i] = backlog[j] => i = j
  /\ \A i \in 1..Len(backlog) : cstate[backlog[i]] # "new"
  /\ \A f \in Fds : peer[f] # None =>
       /\ cstate[peer[f]] # "new"
       /\ \A i \in 1..Len(backlog) : backlog[i] # peer[f]

\* The packets of a stream lie one behind the other and fill it.
Laid ==
  \A c \in Clients :
    /\ sent[c] # <<>> => sent[c][1].at = 0
    /\ \A i, j \in 1..Len(sent[c]) : i < j => End(sent[c][i]) <= sent[c][j].at
    /\ \A i \in 1..Len(sent[c]) - 1 : sent[c][i + 1].at = End(sent[c][i])
    /\ \A k \in 1..StreamEnd(c) :
         \E j \in 1..Len(sent[c]) : sent[c][j].at < k /\ k <= End(sent[c][j])

\* What has been written and what has arrived, against the packets.
Streamed ==
  \A c \in Clients :
    /\ written[c] <= StreamEnd(c)
    /\ cstate[c] # "closed" => written[c] = StreamEnd(c)
    /\ arrived[c] # 0 => arrived[c] \in Stops(c)
    /\ ended[c] = "fin" => arrived[c] = written[c]
    /\ ended[c] # "no" => cstate[c] = "closed"

\* An event still in the array is true of its descriptor.
EventsHold ==
  /\ pc = "wait" => \A f \in Fds \cup {sock_} : events[f] = {}
  /\ pc \in {"wait", "loop"} => curfd = sock_
  /\ pc \in {"peek", "recv"} => curfd \in Fds /\ events[curfd] = {}
  /\ curfd # sock_ => peer[curfd] # None
  /\ \A f \in Fds : events[f] # {} => peer[f] # None
  /\ \A f \in Fds : "HUP" \in events[f] => ended[peer[f]] = "reset"

\* Where the server is in a readable stream: behind the packets it has taken.
ReadPlace ==
  \A c \in Clients : Readable(c) =>
    pos[c] = IF frames[c] = <<>> THEN 0 ELSE End(sent[c][Len(frames[c])])

\* What it has peeked of the next packet, and what it waits for.
PeekPlace ==
  LET n == Len(frames[Current]) + 1 IN
  (Current # None /\ Readable(Current)) =>
    /\ pc = "peek" /\ peeked # <<>> =>
         /\ n <= Len(sent[Current])
         /\ Len(peeked) >= Word
         /\ peeked[1] = sent[Current][n].type
         /\ peeked[2] = 0 /\ peeked[3] = 0 /\ peeked[4] = 0
    /\ pc = "recv" =>
         /\ n <= Len(sent[Current])
         /\ header = sent[Current][n].size

\* packet_ holds what fits it, unless an unreadable stream was read into it.
RoomKept ==
  /\ pc = "recv" => room = header
  /\ Overrun \/ damaged => \E c \in Clients : frames[c] # <<>> /\ ~Readable(c)

\* The invariant that is preserved by every step.
IInv ==
  /\ TypeOK
  /\ Placement
  /\ Laid
  /\ Streamed
  /\ EventsHold
  /\ ReadPlace
  /\ PeekPlace
  /\ RoomKept
  /\ HandlersNeverBlock
  /\ ReadableFramed
  /\ EndsForAReason
  /\ ForgottenBehindFrame
=============================================================================
