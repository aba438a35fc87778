# socket_service_discovery in TLA+

A verification project for the service discovery demo in this repository: a
master per node answers "where is service N?" for local programs over a Unix
domain socket, and asks the other masters by UDP when it does not know.  The
TLA+ modules model the code, TLC checks small instances of them, and TLAPS
proves the main safety properties for every instance.

Paths below are relative to the repository root (`src/…` is the C++ code).

## 1. The system

| component | code | state it keeps | operations | talks to |
|---|---|---|---|---|
| `unix_domain::stream::Server` | `src/unix_socket/stream/server.cpp` | listening descriptor, epoll set (the interest of each descriptor), `pack_` (pointer to the packet the next writable descriptor is sent), `recv_buffer` | `Socket`, `Bind`, `Listen`, `Start` → `run` (one thread, edge triggered), `Accept`, `Send`, `BlockRead` | kernel; read callback on the same thread |
| `unix_domain::stream::Client` | `src/unix_socket/stream/client.cpp` | one connection | `Connect`, `Send`, `Recv` (blocking), demo `Start` | server |
| `sd::ServiceDiscoveryMaster` | `src/service_discovery/service_discovery_master.cpp` | `local_service_map_`, `remote_service_map_` (never written), one `send_buffer_`, one `recv_buffer_` | `process_local_find_service` (callback of the UDS server), `remote_find_service` (blocks in `recvfrom`), `notify_*`, `process_remote_find_service` (callback of the UDP server) | UDS server, UDP client, UDP server |
| `sd::SDClient`, `sd::SDServer` | `sd_client.cpp`, `sd_server.cpp` | what they were told | send one packet, receive one packet | master |
| `udp::UdpClient` | `src/udp/udp_client.cpp` | `server_addr_` | `Send`, `Recv` (overwrites `server_addr_`), demo `Start` | network |
| `udp::UpdServer` | `src/udp/udp_server.cpp` | `client_addr_`, buffers | `recv_data`, `Send`; `run` is empty | network, callback |
| transfer | `src/common/transfer.cpp` | loop variables | `recvn`, `sendn`, `recvmsgn` | kernel |
| `tcp::Server` | `src/tcp/server.cpp` | epoll set, one `packet_` for all connections | `Socket`, `Bind`, `Listen`, `Start` → `run` (one thread, edge triggered, input only); `in_epoll_recvmsg` | kernel |
| `tcp::Client` | `src/tcp/client.cpp` | one connection | `Connect`, `Send`, `SendMsg` → `RecvMsg` (waits for a reply) | server |
| packet layouts | `include/common/packet.h`, `include/service_discovery/sd_package/sd_package.h` | – | – | everybody |
| `main.cpp` | `src/main.cpp` | – | starts one demo server or client | – |

What is hard here, and what makes each part correct:

- **UDS server.**  Edge-triggered epoll with blocking sockets on one thread.
  Correct if an event is never lost, a handler never blocks, an event taken out
  of one `epoll_wait` is never applied to a later connection with the same
  descriptor number, and each request gets one reply, in order.  Clients connect,
  send, receive and hang up between any two steps of the thread.
- **Master.**  Answers go through one buffer and one pointer and leave late.
  Correct if a finder gets its own answer, about its own service; if nobody is
  told of services nobody registered; if a slow network does not break the loop.
- **UDP side.**  Loss, overtaking, late answers, no query numbers, a wait without
  timeout, and the answering and the asking side share `send_buffer_`.
- **transfer.**  Partial transfers, end of file, signals, `MSG_PEEK`.
- **TCP.**  A loop like that of the UDS server, on streams that arrive in pieces
  and end after their data; the length of a packet is peeked at the wrong place,
  and one buffer is cleared and filled for all connections.  Correct if packets
  keep their framing, if one connection neither stops nor ends the server for the
  others, and if nothing that arrived is dropped or forgotten.
- **The whole.**  A query is made by the one thread that serves all local programs.
  Correct if a remote address that reaches a program was earned by a registration
  on another node, and if an answer that comes back reaches the finder.

`PROJECT.json` lists the hazards at their lines, with the properties that would
catch each; where the code has the fault and no line of the repository promises
otherwise, a note says how it is modelled and which properties except it.

## 2. Modules

| module | what it is |
|---|---|
| `RequestReply` | abstract specification: what a request/reply server promises on each connection |
| `UdsServer` | the epoll loop, with the callback left open; `RR` is the refinement mapping to `RequestReply` |
| `MCUdsServer` | clients and their request counts for TLC |
| `UdsServerProofs` | the inductive invariant of the loop and its corollaries |
| `UdsServerRefinement` | the loop implements `RequestReply`; `EventsCurrent`, `DropsOnlyClosed` |
| `SDMaster` | extends `UdsServer`: the master's callback in place of the open one, finders and registrars as the clients |
| `MCSDMaster` | programs and their services for TLC |
| `SDMasterProofs` | extends `UdsServerRefinement`: `SDSpec` implements `UdsServer`'s `Spec`, and so what that implements; the master's own invariants |
| `Lookup` | abstract specification: what nodes that look services up from one another may be told |
| `RemoteDiscovery` | several masters, `UdpClient`, `UpdServer`, the network; `LU` is the refinement mapping to `Lookup` |
| `MCRemoteDiscovery` | node names and query counts for TLC |
| `RemoteDiscoveryProofs` | the inductive invariant of `RemoteDiscovery`; it implements `Lookup`; where queries go |
| `Discovery` | extends `RemoteDiscovery`: one of its nodes is the master of `SDMaster`, with its loop and its programs |
| `MCDiscovery` | nodes, programs and query counts for TLC |
| `DiscoveryProofs` | `Discovery` implements both of its parts and keeps their theorems; the end-to-end safety property |
| `PacketServer` | abstract specification: what a server that takes packets from streams promises their clients |
| `TcpServer` | the TCP loop, its clients, and the streams between them; `PS` is the refinement mapping to `PacketServer` |
| `MCTcpServer` | packets, and where they are cut into pieces, for TLC |
| `TcpServerProofs` | the inductive invariant of the TCP loop and its corollaries |
| `TcpServerRefinement` | the TCP loop implements `PacketServer` |
| `Transfer` | `recvn`, `sendn`, `recvmsgn` over one stream connection |
| `TransferProofs` | the inductive invariant of `Transfer` |

`SDMaster` composes the loop and the master: `EXTENDS UdsServer`, its actions are
the loop's actions conjoined with what the callback does, and `ImplementsLoop`
(`SDSpec => Spec`) states that nothing the master does leaves the loop's
specification.  So what is proved of the loop holds of the master.  `Discovery`
composes the master and the network in the same way, one level up: its steps on
the node `Here` are `SDMaster`'s, its steps elsewhere `RemoteDiscovery`'s, and
where the two touch (a registration, a query, an answer) one step is both.

Three abstract specifications say what is promised without saying how:
`RequestReply` (implemented by `UdsServer`, and so by `SDMaster` and the master of
`Discovery`), `Lookup` (by `RemoteDiscovery`, and so by `Discovery`) and
`PacketServer` (by `TcpServer`).

### UdsServer

One action per branch of `run()`: `EpollWait`, `AcceptEvent`/`AcceptFails`,
`HupEvent`, `InEvent` (up to the callback), `CallbackSends`/`CallbackIsSilent`/
`CallbackThrows` (the callback's return and the switch to output, lines
133-140), `OutEvent`/`SendFails`.  Between two of them clients `Connect`,
`Send`, `Recv` and `Close`.  The array filled by `epoll_wait` is `events`, the
set of conditions not yet worked off per descriptor; the thread may work it off
in any order.  A packet is `<<c, k>>`, the k-th request of client c; a reply is
named after the request whose callback put it into `pack_`.

What the model takes the kernel to do: a descriptor is put on the ready list by a
wake-up of the kind it is interested in, by `EPOLL_CTL_ADD`/`MOD` if its condition
holds, and by a hang-up whatever its interest; an edge-triggered descriptor leaves
the list when `epoll_wait` reports it; `accept` returns the lowest free number;
closing a descriptor removes it from the list; a packet of a few bytes on an
`AF_UNIX` stream arrives whole and never fills a socket buffer.  When a writable
event is handled after the client has gone, `sendmsg` raises `SIGPIPE`, and the
process ends (`SendFails`); so it does on `exit(1)` and on an exception of the
callback (`Die`).  A dead server accepts no connection and no request.

### SDMaster

`Asker` is the client behind the descriptor whose packet is being handled.  A
finder's request is answered from `local_service_map_` (`FindLocal`) or starts a
query (`FindRemote`, phase `"asking"`, ended by `RemoteOffer` or `RemoteOther`);
a registration is stored and not answered (`OfferLocal`).  `send_buffer_` is
which packet the buffer holds.  `data_size` is how far its `header.data_size`
reaches: no statement on these paths sets it, so every class of values is an
initial state.  `SDPackage` has two zero-length arrays: `sizeof(SDPackage)` is 8
and both programs send the type only, so `Arrived` is 0.  `Outcomes` is what
`SDClient::Run` and `SDServer::Run` conclude; where the packet was too short
they read uninitialized memory, and the outcome is open.

The two sides disagree about registrations.  `SDServer::Run` waits for a reply
(`sd_server.cpp:37-43`) and prints "Register service success" for any packet it
gets; the master never makes one (`service_discovery_master.cpp:90-97`).  What the
registrar gets is the packet the shared buffer holds when the loop has switched
its descriptor to output, and if no answer was ever made, `pack_` points nowhere
(`RespondFails`).  `RegisteredIsLocal` asks whether what is printed is true all the
same: the service is in the map by then, and is no longer asked for on the
network.

A length beyond the packet (`"beyond"`) makes `sendmsg` take what lies behind the
buffer: it may send all of it, come up short or fail, or block while the client
does not read.  All are in the model: `Respond`, `RespondFails`, and the thread not
moving (`MayBlock` says when that may be for ever).  The callback's returns on
packets of another type are left out: neither program sends one.

### RemoteDiscovery

Nobody calls `UpdServer::recv_data` at this commit: the loop in `run()` is
commented out, and the master does not start the UDP server.  `Serving` is the
set of nodes where something does; the program as it is has `Serving = {}`, and
then nobody answers and an asking thread waits for ever.  With `Serving = Nodes`
the module shows how the handlers as written work together.  A datagram carries
how far its `data_size` reaches (`Extents`): up to the header, the type, the
service id, the address, or past `MAX_UDP_DATA_SIZE`, which ends the node that
hears it (`HearsTooMuch`).  Multicast queries also come back to the sender:
`IP_MULTICAST_LOOP` is cleared on the server's socket, not on the one that sends.
Loss is an action, overtaking is `net` being a set, and the process of a master
may end at any point (`Ends`), in the middle of a wait included.  Finders of this module
send the whole package and any id, as the protocol's structures allow; with
`SDClient` as it is all ids are 0.

### Discovery

`M` is `SDMaster` with three of its variables read off `RemoteDiscovery`'s:
`local_service_map_[Here]`, `asking[Here]` (the phase) and `data_size[Here]` (the
length classes of `SDMaster` are coarser, `Length` maps them).  `Announce` is
`OfferLocal` and `Register`, `Ask` is `FindRemote` and `Query`, `AskEnds` is
`RemoteOffer` and `Receive`; every other step of a program or of the thread is
`Locally`, and takes `Here` out of `up` if it ends the process.  `Here` does not
serve, which is how the program is; the nodes that answer are the others.  Only
offers can reach `Here`'s `UdpClient`, so `RemoteOther` does not occur.

### TcpServer

A stream is the packets its client sent, each with its place (`at`), type and
size; `Byte` says what stands at a place, so that a peek at the wrong place reads
what the program would read.  A byte is 0..255 and everything above is `Huge`: a
length that never arrives.  `written`, `arrived` and `pos` are how far the client
has handed the stream to its kernel, how far it has got, and how far the server
has read it.  `PeekSome` is one `recv` of `recvn` with `MSG_PEEK`, which
leaves the bytes in the socket: the next round sees the same ones, so a type in
two pieces is peeked as its first piece twice (`RecvnInOrder` of `Transfer`
excepts the flag for this reason; the consequence is stated here).  `Sized` is the `realloc` by the length peeked, `RecvPack` the
`recvmsgn` that takes header and payload and overwrites the length; `InEvent` and
`ClearOverruns` are the `memset` of `packet_`, which reaches behind the block
(`Overrun`) if the last length exceeds the room the peeked one made.  The process
may end there, or go on with a heap that is `damaged` and end in a later `realloc`,
for this packet or another (`HeapFails`).

What is said of framing (`ReadableFramed`, `NeverWaitsForMore`, `PacketServer`'s
packets) is said of streams whose types equal their lengths.  The packet that
`SendMsg` writes, the one `main.cpp`'s client sends, has type 0 and is not in one:
its stream is modelled with the others, and loses its framing as the code does.
A client that sent it may be ended while it waits in `RecvMsg`, so that the packet
and the end of its stream arrive (`Close`).

The kernel: data wakes the descriptor whenever a piece arrives; the end of a
stream is readable and comes after all its data; a reset is `HUP`, may come at any
point, and leaves what has arrived readable; `accept` may fail at any time.  A
peek cannot fail: it is reached only without `HUP`, and a reset that comes later
finds data that has arrived (that it does is `HandlersNeverBlock`).  `"dead"` is a
process that ended by itself, `"stopped"` one whose loop was left because of a
signal (`SignalEnds`).

Bounds: `MaxPackets` per client, `Cuts` (where pieces end inside a packet),
`Faulty` (which clients may be cut off in a send or reset), `Slack` (how far a
write may go behind a small block without harm: `malloc`'s rounding).

### Transfer

A byte is named by its place in the sender's buffer.  `SendSome(k)` is one
`send` of which the kernel took k bytes, `RecvSome(n)` one `recv` that found n
bytes come through; those that came before a reset are still delivered.  `flag` is a
parameter of the call, chosen at the start: 0, `MSG_PEEK`, or `MSG_WAITALL` for
the overload without a loop and `recvmsgn`.  A blocking `send` returns early when
a signal (stop and continue) or the end of the connection interrupts it.

## 3. Runs

| run | bounds | shows |
|---|---|---|
| `UdsServer_safety` | 3 clients with 2, 1 and 0 requests, 2 descriptors | the safety properties, the inductive invariant, events and drops (`EventsCurrent`, `DropsOnlyClosed`), the refinement of `RequestReply`, and `RequestServed`, while numbers are reused and run out |
| `UdsServer_accept` | 2 clients | **violated**: connections that share an edge of the listening socket are not all accepted |
| `SDMaster_safety` | 2 finders, 1 registrar, 2 descriptors | the master's invariants, what can end its process (`EndsForAReason`), that a registration has taken effect when it is printed (`RegisteredIsLocal`), that it implements the loop, and that every request that was read is replied to if the network answers and no send blocks |
| `SDMaster_own` | 2 finders | **violated**: a finder is sent another finder's answer |
| `SDMaster_service` | 1 finder, 1 registrar, different services | **violated**: a finder is told the address of a service it did not ask for |
| `RemoteDiscovery_safety` | 2 nodes, 2 services, 2 queries each, every memory content | what an answer may say after loss, delay and overtaking; the refinement of `Lookup`; an answer stays on its way until it is taken or lost; a query that reaches a node with the service ends the wait |
| `RemoteDiscovery_multicast` | 3 nodes | **violated**: from the second query on, queries are unicast |
| `Discovery_safety` | 2 nodes, 2 finders and 1 registrar on one of them, 2 descriptors | the whole implements `SDMaster` and `RemoteDiscovery`; a remote address that is sent to a program, or concluded by one, is earned; a finder whose query arrives is replied to |
| `Tcp_safety` | 2 clients (2 packets and 1), pieces at words and inside one, the second client cut off or reset | framing, no blocking, no end without reason, nothing forgotten but behind a frame, nothing dropped, the refinement of `PacketServer`, and the first packet of a connection is read |
| `Tcp_disconnect` | 1 client | **violated**: the end of a stream that shares an edge with a packet is never noticed |
| `Transfer_loop` | 6 bytes sent, 5 asked for, 3 in flight | order, counts and termination for all flags |
| `Transfer_resend` | 4 bytes | **violated**: a partial send is continued from the start of the buffer |

Each violated property quotes, in `PROJECT.json`, the comment of the repository
it is taken from.  Each property of a passing run has a mutant: a faulty variant
of one definition (named in the module, marked "Faulty variant") with which TLC
finds the property violated.

**Why the bounds are enough to be interesting.**  A client with two requests next
to one with a single request reaches pipelining against replies and hang-ups of
others that share one `epoll_wait` round; the third client on two descriptors
reaches reuse within a round and exhaustion.  In `RemoteDiscovery` two nodes reach
two answers to one query, since a node also hears its own, and so late answers.
In `Discovery` two finders reach a query that holds up a reply already made, and a
second query that goes to the node that answered the first; with a third node,
and without the registrar, `FinderAnswered` was found to hold as well, in a run too
long to keep.  In `TcpServer` two packets of one client, whose stream can be read
unless it greets, and one of another, whose stream cannot, reach two frames behind
one edge, two connections that alternate in `packet_`, and a type that is peeked
in two pieces.  In `Transfer` six bytes over a capacity of
three cross in up to six pieces, and the receiver stops before the stream does.
The safety properties do not depend on the bounds: they are proved.

**Deadlock** is not checked (`CHECK_DEADLOCK FALSE`): clients stop after
`MaxReq` requests or `MaxPackets` packets, the process may have ended, and a
blocking `recvfrom` or `recvmsgn` really waits for ever.

**Fairness.**  `FairSpec` of `UdsServer` is weak fairness of the loop thread
outside the callback: the operating system runs a thread that can run.  Clients
may stop for ever, and the callback may block for ever, so `RequestServed` has
`[]<>(pc # "callback")` as its hypothesis.  `FairSDSpec` is the same for the
master, and leaves out the states in which `sendmsg` may block (`MayBlock`); nobody
has to answer a query, so `EveryRequestAnswered` has `[]<>(phase # "asking" /\
~MayBlock)`.  `RemoteDiscovery` and `Transfer` assume that a thread
runs when its `recvfrom` or `recv` can return, and `Discovery` both that and a
fair epoll thread, without the states of `MayBlock` again.  `Transfer` also takes
what one kernel holds to come through to the other.  No fairness is assumed of the
network between masters: `ReachedQueryEnds` and
`FinderAnswered` except behaviours that lose a datagram, and those in which a
master that could have answered ends.  `FairSpec` of `TcpServer` is weak fairness
of the server's thread only; clients and network may stop, so the thread may wait
in `recvmsgn` for ever, and `FirstFrameRead` and `DisconnectedRemoved` have
`[]<>(pc = "wait" \/ ~Alive)` as their hypothesis.

## 4. Proofs

All theorems hold for any number of clients, descriptors, requests, masters,
queries and bytes.
The assumptions are the named ASSUMEs of the modules: descriptor numbers are
naturals, the listening one is not among those `accept` returns, `None` is no
client, node, service or answer, sizes are positive, each program sends one packet
(`SDAssumption`), service 0 is a service (`RemoteAssumption`), the detailed node
does not serve and its programs and descriptors are those of a master
(`DiscoveryAssumption`, with the assumptions of `SDMaster`), and `SendMsg`'s packet
has type 0 and a payload (`TcpAssumption`).

**The loop** (`UdsServerProofs`).  `HandlersNeverBlock`, `NoLostWakeup` and
`RepliesInOrder` are not inductive.  `IInv` adds: `Placement` (a client is in at
most one of backlog and descriptors, once), `OpenIsPlaced`, `HalfDuplex` (a
descriptor owes a reply exactly if it waits for output or its callback runs, and
then `taken = replies + 1`), `EventsHold` (an event still in the array fits its
descriptor's interest) and `LatestAnswer` (`pack_` is the newest answer made for
its client).  `HandlersNeverBlock` needs `EventsHold` (an IN event means
interest IN, so the packet was not read since); `NoLostWakeup` needs the interest
to be re-armed at exactly the two `EPOLL_CTL_MOD` calls; `RepliesInOrder` needs
`LatestAnswer` and `HalfDuplex`.  One lemma per part and action, `Invariance`
puts them together, and `TypeCorrect`, `NeverBlocks`, `WakeupsKept` and
`RepliesOrdered` are its corollaries.  `EventsStayCurrent` and `DropsClosedOnly`
are action properties that need `EventsHold`: a descriptor leaves the interest
list for a `HUP` in the array, and that is still true when its turn comes.

**The refinement** (`UdsServerRefinement`).  Under `IInv` each step is one of
`RequestReply`'s or leaves the mapped state alone: `AcceptEvent` is `Establish`,
`HupEvent` is `Drop`, `InEvent` is `Take`, the return of the callback is
`Finish`, `OutEvent` is `Answer`, `Die` is `Crash`.  `OpenIsPlaced` is what makes
`Ask` possible (a client with an open connection has not been dropped).

**The master** (`SDMasterProofs`).  Every step of `SDSpec` is a step of the loop
or leaves its variables alone, so `SDSpec => Spec`.  `SDInv` relates the buffer,
the map and the request counts; `LocalAnswersAreRegistered` and
`RegistrationsTakeEffect` follow: `RegistrationsStored`, the part of `SDInv` behind
the second, says that a registration that was read is in the map or in the
callback's hands, and `SDInv` that a query is only out for a service the map does
not have.  `MasterImplementsRequestReply` takes the loop's
theorems over: the master with its callback and its blocking query still implements
`RequestReply`.  `MasterEndsWithReason` lists what can end the process.  `Deaths`
says by which steps it can: a failed `accept`, query or reply, but not by an end of
file taken for a packet, which `HandlersNeverBlock` excludes (`HUP` is looked at
before `IN`); `EventsHold` and `HalfDuplex` tell what each of those steps found, and
`DeadStays` that it is still to be seen afterwards.

**Lookup** (`RemoteDiscoveryProofs`).  `MastersImplementLookup`: `Register` is
`Provide`, `Query` is `LookUp`, `Receive` is `Tell`, `Ends` and `HearsTooMuch` are
`End`; loss, answering and the network's order are stutters.  `Tell` is possible
because of `AnswersAreEarned`: the node that `recv_buffer_` names offers something
its reader has looked for.  `AnswersStayOnTheirWay` is the step behind
`ReachedQueryEnds`: a query that has reached a node with the service, or the offer
it became, is there until it is taken, lost, or one of the two nodes ends.

**Where queries go.**  `QueriesAreMulticast` is violated; what holds instead is
`QueriesGoWhereAnswersCameFrom`: a query goes to the whole group before the first
answer, and after it to the one node whose answer was taken last (`found`, which
`TakenIsAnswer` ties to the address `recvfrom` left).

**Remote discovery** (`RemoteDiscoveryProofs`).  `AnswersAreEarned` and
`FirstAnswerRight` speak of what a node has taken, which is only as right as the
datagrams on their way: `QueriesKnown` (a query in the network is one its sender
appended to `asked`) gives `OffersKnown` when `Reply` turns it into an offer, and
`OffersKnown` gives both properties when `Receive` takes it.  `AskedGrows` and
`MapGrows` carry all of it over the other steps.  `FirstAnswerRight` also needs
`WaitsForLatest` and `NothingBeforeFirst`: with nothing in `recv_buffer_` yet, an
answer can have an address only if the offer brought one.

**The whole** (`DiscoveryProofs`).  A step of `DSpec` is a step of
`RemoteDiscovery` or leaves it alone (`StepIsRemoteStep`), and, with
`RemoteDiscovery`'s type invariant, a step of `SDMaster` on `Here` or leaves what
it sees of `Here` alone (`StepIsMasterStep`); so the whole implements both, and
their theorems hold of it: `WholeKeepsMasterPromises` instantiates the proofs of
`SDMaster` for the node `Here` (`MP`, the same module with the same substitutions
as `M`, which `SameInit`, `SameNext` and `SameVars` say), `WholeKeepsNetworkPromises`
takes over those of `RemoteDiscovery`.  `DInv` joins the two sides: a buffer or an answer
`"REMOTE"` means that an answer was taken (`found[Here]`), and offers come from
nodes that serve.  With `Earned` this gives `RemoteAnswersAreEarned`, which speaks
of what a program on one node was sent, or concluded from a whole packet, and a
registration on another.

**The TCP loop** (`TcpServerProofs`).  `Laid` and `Streamed` say that packets fill
a stream without gap and that what arrives ends at a cut or a packet; `ReadPlace`
and `PeekPlace` say where the server is in a readable stream: behind a packet, with
the type of the next one peeked, and waiting for as many bytes as that packet has.
Readable is a stream whose packets have their length for their type, so that
reading one for the other does no harm, and that is not cut inside a word: then
the four bytes of the type are peeked in one `recv`.  `FramesRight` and
`WaitsForWritten` follow.  `RoomKept` ties the length in `packet_` to its room, so
that `Overrun`, and a heap `damaged` by one earlier, take a frame of an unreadable
stream; with `EventsHold` and
`Placement` this gives `EndsWithReason` and `NeverBlocks`.  `FirstNotForgotten`
is preserved because a descriptor without a frame was never read since its last
wake-up, and `DropsNoData` because a descriptor is removed only where the peek
found the stream at its end, or for a reset.

**The packet server** (`TcpServerRefinement`).  The abstract server sees of each
connection the sizes of the packets put and taken, as long as the stream can be
read; the write that makes it unreadable is `Spoil`.  A `Write` is `Put`, a
`RecvPack` is `Take` (by `ReadPlace` and `PeekPlace` the frame is the next packet),
`AcceptEvent` is `Establish`, the end of a stream or a reset is `Finish`, `HupEvent`
and `PeekEnds` are `Drop`, and peeks, pieces and everything on unreadable streams
are stutters.  `Drop` after a close requires that every packet was taken.  That is
more than having read all that was written, if a client could end in a packet of
which nothing was written; `LastBegun`, a second inductive invariant, excludes it.

**Transfer** (`TransferProofs`).  `IInv` ties `taken`, `nleft` and the buffer to
the stream byte by byte; the theorems say what a count means.

**What is left of the violated properties.**  Where TLC refutes a property, a
theorem isolates the cause by proving the property without it: `LoneFinderGetsOwn`
(with a single finder nobody gets another one's answer; it rests on
`OnePacketInvariance`), `OneServiceIsRight` (if all programs speak of one service no
answer is about another), `WholeSendsAreRight` (if the kernel takes each buffer
whole, `sendn` sends it; with it `WholePacketsArrive` follows a byte from one buffer
to the other) and `QueriesGoWhereAnswersCameFrom`, above.  Their hypotheses are not
assumptions about the code: they are the cases the violated runs leave.

Model-checked only: the liveness properties (`RequestServed`,
`EveryRequestAnswered`, `ReachedQueryEnds`, `FinderAnswered`, `FirstFrameRead`,
`RecvnReturns`), which are beyond the prover, and the violated ones.  Of
`ReachedQueryEnds` and `RequestServed` the safety part is proved
(`AnswersStayOnTheirWay`, `WakeupsKept`): what must happen stays possible; that it
happens needs fairness.

## 5. Not modelled, and the plan

Left out for good:

- `main.cpp` (argument switch), empty files, build files, docs and captures;
  wording of log messages; contents of addresses.
- The kernel's rarer refusals: `epoll_ctl` failing on a valid descriptor, more
  than 6666 events in one round.
- A cache of remote services: `remote_service_map_` is never written, each lookup
  queries the network.
- The UDS client's demo pair `send_data`/`recv_data`, which frees a member array
  and aborts on every run: for the server it is a `Send` followed by a `Close`.
- `UdpClient::Start`, the hello demo: one datagram and one blocking `recvfrom`,
  to a server whose loop is empty.
- What nothing calls or reaches in `src/tcp`: `Server::Accept`, `Recv`, `Send`,
  `in_epoll_recv` and `in_epoll_send`, `Client::Recv`; the `EPOLLOUT` branch with
  `in_epoll_sendmsg`, since no statement asks for output.  `RecvMsg` gets as far
  as its first `recv`, which nothing answers.  The resend of a partial `send` in
  `tcp::Client` is `sendn`'s, in `Transfer`.
- A master whose UDP server's thread runs next to its epoll thread, at the level
  of `SDMaster`: the two would share `local_service_map_` and `send_buffer_`
  without a lock, but no line of the program starts the second.  `RemoteDiscovery`
  takes their handlers as atomic.

Order of work, the most important behaviour first; all of it is done:

1. `UdsServer`, `RequestReply`, their proofs.
2. `SDMaster` on top, its proofs.
3. `Transfer` and `RemoteDiscovery`, their proofs.
4. `TcpServer`, with the framing (the peek into `header.data_size`,
   `tcp/server.cpp:247`) and the connections in one module, its proofs.
5. `Discovery`, the composition of the master and the network, its proofs.
6. `Lookup` and `PacketServer`, the refinements of them, and the theorems of the
   parts carried over to the whole.

What would be worth adding: a model of the two-threaded master, if the program ever
starts its UDP server.
