--------------------------- MODULE TcpServerProofs ---------------------------
(***************************************************************************)
(* Proofs about TcpServer, for any clients, descriptors, packets, ways of  *)
(* cutting the streams and faults.  IInv is inductive; its parts are       *)
(* preserved one lemma per part, and the properties follow from it.        *)
(***************************************************************************)
EXTENDS TcpServer, SequenceTheorems, TLAPS

\* A packet a client writes, whole or cut short.
Writes(c) ==
  \E p \in Packets[c] \cup {Hello} :
    \/ /\ Write(c, p, Size(p))
       /\ UNCHANGED cstate \/ cstate' = [cstate EXCEPT ![c] = "waiting"]
    \/ \E n \in Cuts[c] :
         /\ n < Size(p) /\ Write(c, p, n)
         /\ cstate' = [cstate EXCEPT ![c] = "closed"]

\* A client leaves, of itself or because the server has.
Leaves(c) ==
  /\ cstate[c] \in {"open", "waiting"}
  /\ cstate' = [cstate EXCEPT ![c] = "closed"]
  /\ UNCHANGED <<ended, sent, written, arrived, readVars, connVars, loopVars, packVars>>

\* The server process ends.
Ends ==
  /\ pc' \in {"dead", "stopped"}
  /\ UNCHANGED <<netVars, readVars, connVars, ready, events, curfd, packVars>>

\* The ways to end in "dead".
Dies ==
  \/ AcceptFails \/ NoMemory \/ HeapFails \/ RecvShort
  \/ \E f \in Fds : ClearOverruns(f)

\* The steps, one by one, so that each lemma below can split on them.
LEMMA StepCases ==
  ASSUME [Next]_vars
  PROVE  \/ \E c \in Clients : Connect(c) \/ Writes(c) \/ Leaves(c)
         \/ \E c \in Clients : Deliver(c) \/ DeliverFin(c) \/ Reset(c)
         \/ EpollWait \/ AcceptEvent
         \/ \E f \in Fds : HupEvent(f) \/ InEvent(f)
         \/ PeekSome \/ Sized \/ PeekEnds \/ RecvPack
         \/ Ends /\ (pc' = "dead" => Dies)
         \/ UNCHANGED vars
<1>1. ASSUME NEW c \in Clients, Close(c) \/ RecvMsgEnds(c) PROVE Leaves(c)
  BY <1>1 DEF Close, RecvMsgEnds, Leaves
<1>2. ASSUME NEW c \in Clients, NEW p \in Packets[c], Send(c, p) PROVE Writes(c)
  BY <1>2 DEF Send, Writes
<1>3. ASSUME NEW c \in Clients, SendMsg(c) PROVE Writes(c)
  BY <1>3 DEF SendMsg, Writes
<1>4. ASSUME NEW c \in Clients, NEW p \in Packets[c] \cup {Hello}, SendCut(c, p) PROVE Writes(c)
  BY <1>4 DEF SendCut, Writes
<1>5. ASSUME Dies PROVE Ends
  BY <1>5 DEF Dies, AcceptFails, NoMemory, HeapFails, RecvShort, ClearOverruns, Die, Ends
<1>6. ASSUME SignalEnds PROVE Ends /\ pc' # "dead"
  BY <1>6 DEF SignalEnds, Ends
<1> QED
  BY <1>1, <1>2, <1>3, <1>4, <1>5, <1>6 DEF Next, ClientNext, Transport, ServerNext, Dies

-----------------------------------------------------------------------------
(* The streams. *)

\* A packet takes a natural number of bytes, and lies where its place says.
LEMMA PacketSize ==
  ASSUME TypeOK, NEW c \in Clients
  PROVE  /\ Len(sent[c]) \in Nat
         /\ \A i \in 1..Len(sent[c]) :
              /\ sent[c][i] \in [at : Nat, type : Bytes, size : Bytes]
              /\ Size(sent[c][i]) \in Nat /\ Size(sent[c][i]) >= Header
              /\ End(sent[c][i]) \in Nat
              /\ End(sent[c][i]) = sent[c][i].at + Header + sent[c][i].size
<1>1. sent[c] \in Seq([at : Nat, type : Bytes, size : Bytes])
  BY DEF TypeOK
<1>2. Len(sent[c]) \in Nat
  BY <1>1, LenProperties
<1>3. ASSUME NEW i \in 1..Len(sent[c])
      PROVE  sent[c][i] \in [at : Nat, type : Bytes, size : Bytes]
  BY <1>1, ElementOfSeq
<1>4. ASSUME NEW p \in [at : Nat, type : Bytes, size : Bytes]
      PROVE  /\ Size(p) \in Nat /\ Size(p) >= Header
             /\ End(p) \in Nat
             /\ End(p) = p.at + Header + p.size
  <2>1. p.at \in Nat /\ p.size \in Nat
    BY DEF Bytes, Huge
  <2> QED
    BY <2>1 DEF Size, End, Header, Word
<1> QED
  BY <1>2, <1>3, <1>4

\* The end of a stream is that of its last packet.
LEMMA StreamEndType ==
  ASSUME TypeOK, NEW c \in Clients
  PROVE  /\ StreamEnd(c) \in Nat
         /\ Len(sent[c]) = 0 => StreamEnd(c) = 0
         /\ Len(sent[c]) # 0 => StreamEnd(c) = End(sent[c][Len(sent[c])])
<1>1. sent[c] = <<>> <=> Len(sent[c]) = 0
  BY DEF TypeOK
<1>2. Len(sent[c]) # 0 => Len(sent[c]) \in 1..Len(sent[c])
  BY PacketSize
<1> QED
  BY <1>1, <1>2, PacketSize DEF StreamEnd

\* The bytes of the j-th packet, at their places in the stream.
LEMMA ByteOf ==
  ASSUME TypeOK, Laid, NEW c \in Clients, NEW j \in 1..Len(sent[c]), NEW i \in Nat,
         sent[c][j].at < i, i <= End(sent[c][j])
  PROVE  Byte(c, i) = IF i = sent[c][j].at + 1 THEN sent[c][j].type
                      ELSE IF i = sent[c][j].at + Word + 1 THEN sent[c][j].size
                      ELSE IF i <= sent[c][j].at + Header THEN 0
                      ELSE Letter
<1> DEFINE In(k) == sent[c][k].at < i /\ i <= End(sent[c][k])
<1> DEFINE m == CHOOSE k \in 1..Len(sent[c]) : In(k)
<1>1. m \in 1..Len(sent[c]) /\ In(m)
  <2>1. In(j)
    OBVIOUS
  <2> HIDE DEF In
  <2> QED
    BY <2>1
<1>2. \A k \in 1..Len(sent[c]) : sent[c][k].at \in Nat /\ End(sent[c][k]) \in Nat
  BY PacketSize
<1> HIDE DEF m
<1>3. m = j
  <2>1. ~(m < j)
    BY <1>1, <1>2 DEF Laid
  <2>2. ~(j < m)
    BY <1>1, <1>2 DEF Laid
  <2> QED
    BY <1>1, <2>1, <2>2, PacketSize
<1>4. LET p == sent[c][m]
          k == i - p.at
      IN Byte(c, i) = IF k = 1 THEN p.type
                      ELSE IF k = Word + 1 THEN p.size
                      ELSE IF k <= Header THEN 0
                      ELSE Letter
  BY DEF Byte, m
<1>5. LET k == i - sent[c][j].at
      IN  Byte(c, i) = IF k = 1 THEN sent[c][j].type
                       ELSE IF k = Word + 1 THEN sent[c][j].size
                       ELSE IF k <= Header THEN 0
                       ELSE Letter
  BY <1>3, <1>4
<1>6. ASSUME NEW a \in Nat
      PROVE  /\ (i - a = 1) = (i = a + 1)
             /\ (i - a = Word + 1) = (i = a + Word + 1)
             /\ (i - a <= Header) = (i <= a + Header)
  BY DEF Word, Header
<1> QED
  BY <1>2, <1>5, <1>6

\* Every byte that was written is a byte.
LEMMA ByteType ==
  ASSUME TypeOK, Laid, Streamed, NEW c \in Clients, NEW i \in 1..written[c]
  PROVE  Byte(c, i) \in Bytes
<1>0. written[c] \in Nat /\ written[c] <= StreamEnd(c) /\ StreamEnd(c) \in Nat
  BY StreamEndType DEF Streamed, TypeOK
<1>1. i \in 1..StreamEnd(c)
  BY <1>0
<1>2. PICK j \in 1..Len(sent[c]) : sent[c][j].at < i /\ i <= End(sent[c][j])
  BY <1>1 DEF Laid
<1>3. sent[c][j].type \in Bytes /\ sent[c][j].size \in Bytes
  BY PacketSize
<1>4. i \in Nat
  BY <1>0
<1>5. 0 \in Bytes /\ Letter \in Bytes
  BY DEF Bytes, Huge, Letter
<1> QED
  BY <1>2, <1>3, <1>4, <1>5, ByteOf

\* Four bytes make a value that header.data_size can have in the model.
LEMMA ValueType ==
  ASSUME NEW b1 \in Bytes, NEW b2, NEW b3, NEW b4
  PROVE  Value(b1, b2, b3, b4) \in 0..Huge
<1>1. b1 \in 0..Huge /\ Huge \in 0..Huge
  BY DEF Bytes, Huge
<1> QED
  BY <1>1 DEF Value

\* The connection at hand.
LEMMA CurrentType ==
  ASSUME TypeOK, EventsHold
  PROVE  /\ Current # None => curfd \in Fds /\ Current = peer[curfd] /\ Current \in Clients
         /\ pc \in {"peek", "recv"} => Current # None
<1>1. sock_ \notin Fds
  BY TcpAssumption
<1>2. curfd \in Fds \cup {sock_}
  BY DEF TypeOK
<1>3. curfd # sock_ => peer[curfd] # None
  BY DEF EventsHold
<1>4. curfd # sock_ => peer[curfd] \in Clients \cup {None}
  BY <1>2 DEF TypeOK
<1>5. pc \in {"peek", "recv"} => curfd \in Fds
  BY DEF EventsHold
<1> QED
  BY <1>1, <1>2, <1>3, <1>4, <1>5 DEF Current

-----------------------------------------------------------------------------
(* Types. *)

\* A stop lies in what was written.
LEMMA StopsWritten ==
  ASSUME NEW c \in Clients, NEW n \in Stops(c)
  PROVE  n \in 0..written[c]
BY DEF Stops

\* What a write adds to a stream.
LEMMA WriteAppends ==
  ASSUME TypeOK, NEW c \in Clients, Writes(c)
  PROVE  \E p \in [at : Nat, type : Bytes, size : Bytes], n \in Nat :
           /\ p.at = StreamEnd(c)
           /\ sent' = [sent EXCEPT ![c] = Append(@, p)]
           /\ written' = [written EXCEPT ![c] = @ + n]
           /\ n <= Size(p)
           /\ cstate[c] = "open"
           /\ \/ n = Size(p) /\ cstate' \in {cstate, [cstate EXCEPT ![c] = "waiting"]}
              \/ cstate' = [cstate EXCEPT ![c] = "closed"]
           /\ UNCHANGED <<ended, arrived, readVars, connVars, loopVars, packVars>>
<1>1. PICK p \in Packets[c] \cup {Hello} :
        \/ /\ Write(c, p, Size(p))
           /\ UNCHANGED cstate \/ cstate' = [cstate EXCEPT ![c] = "waiting"]
        \/ \E n \in Cuts[c] :
             /\ n < Size(p) /\ Write(c, p, n)
             /\ cstate' = [cstate EXCEPT ![c] = "closed"]
  BY DEF Writes
<1> DEFINE q == [at |-> StreamEnd(c), type |-> p.type, size |-> p.size]
<1>2. p.type \in Bytes /\ p.size \in Bytes
  BY TcpAssumption DEF Bytes, Huge
<1>3. /\ q \in [at : Nat, type : Bytes, size : Bytes]
      /\ q.at = StreamEnd(c)
      /\ Size(q) = Size(p)
  BY <1>2, StreamEndType DEF Size
<1>4. Size(p) \in Nat /\ \A n \in Cuts[c] : n \in Nat
  BY <1>2, TcpAssumption DEF Size, Header, Word, Bytes, Huge
<1>5. ASSUME NEW n, Write(c, p, n)
      PROVE  /\ sent' = [sent EXCEPT ![c] = Append(@, q)]
             /\ written' = [written EXCEPT ![c] = @ + n]
             /\ cstate[c] = "open"
             /\ UNCHANGED <<ended, arrived, readVars, connVars, loopVars, packVars>>
  BY <1>5 DEF Write
<1> HIDE DEF q
<1>6. CASE Write(c, p, Size(p)) /\ (UNCHANGED cstate \/ cstate' = [cstate EXCEPT ![c] = "waiting"])
  BY <1>3, <1>4, <1>5, <1>6
<1>7. ASSUME NEW n \in Cuts[c], n < Size(p), Write(c, p, n),
             cstate' = [cstate EXCEPT ![c] = "closed"]
      PROVE  n \in Nat /\ n <= Size(q)
  BY <1>3, <1>4, <1>7
<1> QED
  BY <1>1, <1>3, <1>5, <1>6, <1>7

\* What epoll can report.
LEMMA ReventsType ==
  ASSUME NEW f
  PROVE  Revents(f) \in SUBSET {"IN", "HUP"}
BY DEF Revents, Poll

\* Where the thread goes next.
LEMMA AfterType ==
  ASSUME NEW evs
  PROVE  After(evs) \in {"wait", "loop"}
BY DEF After

\* A finite piece of bytes is a sequence of bytes.
LEMMA BytesSeq ==
  ASSUME NEW n \in Nat, NEW g \in [1..n -> Bytes]
  PROVE  g \in Seq(Bytes) /\ Len(g) = n
BY SeqDef

\* What one recv of the peek stores.
LEMMA PeekSomeEffect ==
  ASSUME IInv, PeekSome
  PROVE  LET c == Current
             n == Least(Header - Len(peeked), Avail(c))
         IN  /\ c \in Clients /\ n \in 1..Header /\ n <= Header - Len(peeked) /\ n <= Avail(c)
             /\ Len(peeked) \in 0..Header
             /\ peeked' \in Seq(Bytes)
             /\ Len(peeked') = Len(peeked) + n
             /\ \A i \in 1..Len(peeked) : peeked'[i] = peeked[i]
             /\ \A i \in 1..n : peeked'[Len(peeked) + i] = Byte(c, pos[c] + i)
<1> DEFINE c == Current
<1> DEFINE n == Least(Header - Len(peeked), Avail(c))
<1> DEFINE g == [i \in 1..n |-> Byte(c, pos[c] + i)]
<1>1. c \in Clients
  BY CurrentType DEF IInv, PeekSome
<1>2. peeked \in Seq(Bytes) /\ Len(peeked) \in Nat /\ Len(peeked) <= Header
  BY LenProperties DEF IInv, TypeOK
<1>3. /\ pos[c] \in Nat /\ arrived[c] \in Nat /\ written[c] \in Nat
      /\ pos[c] <= arrived[c] /\ arrived[c] <= written[c]
  BY <1>1 DEF IInv, TypeOK
<1>4. n \in Nat /\ n <= Header - Len(peeked) /\ n <= Avail(c)
  BY <1>2, <1>3 DEF Least, Avail, Header, Word
<1>0. n > 0
  BY DEF PeekSome
<1>5. peeked' = peeked \o g
  BY DEF PeekSome
<1>6. \A i \in 1..n : Byte(c, pos[c] + i) \in Bytes
  <2> TAKE i \in 1..n
  <2>1. pos[c] + i \in 1..written[c]
    BY <1>3, <1>4 DEF Avail
  <2> QED
    BY <1>1, <2>1, ByteType DEF IInv
<1>7. g \in Seq(Bytes) /\ Len(g) = n
  BY <1>4, <1>6, BytesSeq
<1>8. \A i \in 1..n : g[i] = Byte(c, pos[c] + i)
  OBVIOUS
<1> HIDE DEF g
<1>9. /\ peeked' \in Seq(Bytes)
      /\ Len(peeked') = Len(peeked) + n
      /\ \A i \in 1..Len(peeked) + n :
           peeked'[i] = IF i <= Len(peeked) THEN peeked[i] ELSE g[i - Len(peeked)]
  BY <1>2, <1>5, <1>7, ConcatProperties
<1> HIDE DEF n, c
<1>10. \A i \in 1..Len(peeked) : peeked'[i] = peeked[i]
  BY <1>2, <1>4, <1>9
<1>11. \A i \in 1..n : peeked'[Len(peeked) + i] = g[i]
  BY <1>2, <1>4, <1>9
<1>12. n \in 1..Header /\ Len(peeked) \in 0..Header
  <2>1. ASSUME NEW l \in Nat, l <= Header, NEW k \in Nat, k <= Header - l, k > 0
        PROVE  k \in 1..Header /\ l \in 0..Header
    BY <2>1 DEF Header, Word
  <2> QED
    BY <1>0, <1>2, <1>4, <2>1
<1> QED
  BY <1>1, <1>4, <1>8, <1>9, <1>10, <1>11, <1>12 DEF n, c

\* The length that in_epoll_recvmsg takes from what it peeked.
LEMMA SizedEffect ==
  ASSUME IInv, Sized
  PROVE  /\ Current \in Clients
         /\ header' = Value(peeked[1], peeked[2], peeked[3], peeked[4])
         /\ header' \in 0..Huge
<1>1. peeked \in Seq(Bytes) /\ Len(peeked) = Header /\ 1 \in 1..Header
  BY DEF IInv, TypeOK, Sized, Header, Word
<1>2. peeked[1] \in Bytes
  BY <1>1, ElementOfSeq
<1> QED
  BY <1>2, ValueType, CurrentType DEF IInv, Sized

\* What recvmsgn takes.
LEMMA RecvPackEffect ==
  ASSUME IInv, RecvPack
  PROVE  LET c == Current
             n == Header + header
         IN  /\ c \in Clients /\ header \in Nat /\ n \in Nat /\ n <= Avail(c)
             /\ pos' = [pos EXCEPT ![c] = @ + n]
             /\ pos[c] \in Nat /\ pos[c] + n \in Nat /\ pos[c] + n <= arrived[c]
             /\ frames' = [frames EXCEPT ![c] = Append(@, [at |-> pos[c], len |-> n])]
             /\ frames[c] \in Seq([at : Nat, len : Nat])
             /\ [at |-> pos[c], len |-> n] \in [at : Nat, len : Nat]
             /\ header' = WordAt(c, pos[c] + Word)
             /\ header' \in 0..Huge
<1> DEFINE c == Current
<1> DEFINE n == Header + header
<1>1. c \in Clients
  BY CurrentType DEF IInv, RecvPack
<1>2. header \in Nat /\ n \in Nat /\ n >= Header
  BY DEF IInv, TypeOK, Header, Word
<1>3. /\ pos[c] \in Nat /\ arrived[c] \in Nat /\ written[c] \in Nat
      /\ pos[c] <= arrived[c] /\ arrived[c] <= written[c]
      /\ frames[c] \in Seq([at : Nat, len : Nat])
  BY <1>1 DEF IInv, TypeOK
<1>4. n <= Avail(c) /\ pos[c] + n <= arrived[c]
  BY <1>2, <1>3 DEF RecvPack, Avail
<1>5. pos[c] + Word + 1 \in 1..written[c]
  BY <1>2, <1>3, <1>4 DEF Header, Word
<1>6. Byte(c, pos[c] + Word + 1) \in Bytes
  BY <1>1, <1>5, ByteType DEF IInv
<1>7. WordAt(c, pos[c] + Word) \in 0..Huge
  BY <1>6, ValueType DEF WordAt
<1>8. /\ pos' = [pos EXCEPT ![c] = @ + n]
      /\ frames' = [frames EXCEPT ![c] = Append(@, [at |-> pos[c], len |-> n])]
      /\ header' = WordAt(c, pos[c] + Word)
  <2>0. ASSUME NEW k \in Nat, NEW h \in Nat PROVE k + Header + h = k + (Header + h)
    BY DEF Header, Word
  <2>1. pos[c] + Header + header = pos[c] + n
    BY <1>2, <1>3, <2>0
  <2>2. /\ pos' = [pos EXCEPT ![c] = pos[c] + Header + header]
        /\ frames' = [frames EXCEPT ![c] = Append(frames[c], [at |-> pos[c], len |-> n])]
        /\ header' = WordAt(c, pos[c] + Word)
    BY DEF RecvPack
  <2> QED
    BY <2>1, <2>2
<1> QED
  BY <1>1, <1>2, <1>3, <1>4, <1>7, <1>8

\* Each step keeps the types, and the counts of a stream in order.
LEMMA TypeStep == IInv /\ [Next]_vars => TypeOK'
<1> SUFFICES ASSUME IInv, [Next]_vars PROVE TypeOK'
  OBVIOUS
<1>0. TypeOK
  BY DEF IInv
<1>1. ASSUME NEW c \in Clients, Connect(c) PROVE TypeOK'
  <2>1. Append(backlog, c) \in Seq(Clients)
    BY <1>0, AppendProperties DEF TypeOK
  <2> QED
    BY <1>0, <1>1, <2>1 DEF TypeOK, Connect, readVars, packVars
<1>2. ASSUME NEW c \in Clients, Writes(c) PROVE TypeOK'
  <2>1. PICK p \in [at : Nat, type : Bytes, size : Bytes], n \in Nat :
          /\ sent' = [sent EXCEPT ![c] = Append(@, p)]
          /\ written' = [written EXCEPT ![c] = @ + n]
          /\ cstate' \in {cstate, [cstate EXCEPT ![c] = "waiting"], [cstate EXCEPT ![c] = "closed"]}
          /\ UNCHANGED <<ended, arrived, readVars, connVars, loopVars, packVars>>
    BY <1>0, <1>2, WriteAppends
  <2>2. Append(sent[c], p) \in Seq([at : Nat, type : Bytes, size : Bytes])
    BY <1>0, AppendProperties DEF TypeOK
  <2>3. sent' \in [Clients -> Seq([at : Nat, type : Bytes, size : Bytes])]
    BY <1>0, <2>1, <2>2 DEF TypeOK
  <2>4. /\ written' \in [Clients -> Nat]
        /\ \A d \in Clients : written'[d] >= written[d]
    <3>1. written \in [Clients -> Nat] /\ written' = [written EXCEPT ![c] = written[c] + n]
      BY <1>0, <2>1 DEF TypeOK
    <3> QED
      BY <3>1
  <2>5. cstate' \in [Clients -> {"new", "open", "waiting", "closed"}]
    BY <1>0, <2>1 DEF TypeOK
  <2>6. \A d \in Clients : pos'[d] <= arrived'[d] /\ arrived'[d] <= written'[d]
    BY <1>0, <2>1, <2>4 DEF TypeOK, readVars
  <2>7. UNCHANGED <<ended, arrived, pos, frames, backlog, peer, ready, events, pc,
                    curfd, peeked, header, room, damaged>>
    BY <2>1 DEF readVars, connVars, loopVars, packVars
  <2> QED
    BY <1>0, <2>3, <2>4, <2>5, <2>6, <2>7 DEF TypeOK
<1>3. ASSUME NEW c \in Clients, Leaves(c) PROVE TypeOK'
  BY <1>0, <1>3 DEF TypeOK, Leaves, readVars, connVars, loopVars, packVars
<1>4. ASSUME NEW c \in Clients, Deliver(c) PROVE TypeOK'
  <2>1. PICK n \in Stops(c) : n > arrived[c] /\ arrived' = [arrived EXCEPT ![c] = n]
    BY <1>4 DEF Deliver
  <2>2. n \in 0..written[c] /\ written[c] \in Nat /\ arrived[c] \in Nat /\ pos[c] \in Nat
        /\ pos[c] <= arrived[c]
    BY <1>0, StopsWritten DEF TypeOK
  <2>3. n \in Nat /\ n <= written[c] /\ pos[c] <= n
    BY <2>1, <2>2
  <2>4. UNCHANGED <<cstate, ended, sent, written, pos, frames, backlog, peer, events, pc,
                    curfd, peeked, header, room, damaged>>
        /\ ready' = ready \cup FdsOf(c)
    BY <1>4 DEF Deliver, readVars, connVars, packVars
  <2>5. /\ arrived' \in [Clients -> Nat]
        /\ \A d \in Clients : pos'[d] <= arrived'[d] /\ arrived'[d] <= written'[d]
    BY <1>0, <2>1, <2>3, <2>4 DEF TypeOK
  <2> QED
    BY <1>0, <2>4, <2>5 DEF TypeOK, FdsOf
<1>5. ASSUME NEW c \in Clients, DeliverFin(c) \/ Reset(c) PROVE TypeOK'
  BY <1>0, <1>5 DEF TypeOK, DeliverFin, Reset, FdsOf, readVars, connVars, packVars
<1>6. CASE EpollWait
  BY <1>0, <1>6, ReventsType DEF TypeOK, EpollWait, netVars, readVars, connVars, packVars
<1>7. CASE AcceptEvent
  <2>1. Head(backlog) \in Clients /\ Tail(backlog) \in Seq(Clients)
    BY <1>0, <1>7, HeadTailProperties DEF AcceptEvent, TypeOK
  <2>2. PICK f \in Fds :
          /\ peer' = [peer EXCEPT ![f] = Head(backlog)]
          /\ ready' \in {ready, ready \cup {f}}
    BY <1>7 DEF AcceptEvent
  <2>3. /\ backlog' = Tail(backlog)
        /\ events' = [events EXCEPT ![sock_] = {}]
        /\ pc' \in {"wait", "loop"}
        /\ UNCHANGED <<cstate, ended, sent, written, arrived, pos, frames, curfd, peeked, header, room,
                      damaged>>
    BY <1>7, AfterType DEF AcceptEvent, Processed, netVars, readVars, packVars
  <2> QED
    BY <1>0, <2>1, <2>2, <2>3 DEF TypeOK
<1>8. ASSUME NEW f \in Fds, HupEvent(f) PROVE TypeOK'
  BY <1>0, <1>8, AfterType DEF TypeOK, HupEvent, Drop, Processed, netVars, readVars, packVars
<1>9. ASSUME NEW f \in Fds, InEvent(f) PROVE TypeOK'
  <2>1. <<>> \in Seq(Bytes) /\ Len(<<>>) <= Header /\ 0 \in 0..Huge
    BY EmptySeq DEF Header, Word, Huge
  <2> QED
    BY <1>0, <1>9, <2>1 DEF TypeOK, InEvent, netVars, readVars, connVars
<1>10. CASE PeekSome
  <2>1. peeked' \in Seq(Bytes) /\ Len(peeked') <= Header
    <3>1. ASSUME NEW l \in 0..Header, NEW n \in 1..Header, n <= Header - l
          PROVE  l + n <= Header
      BY <3>1 DEF Header, Word
    <3> QED
      BY <1>10, <3>1, PeekSomeEffect
  <2> QED
    BY <1>0, <1>10, <2>1 DEF TypeOK, PeekSome, netVars, readVars, connVars, loopVars
<1>11. CASE Sized
  <2>1. <<>> \in Seq(Bytes) /\ Len(<<>>) <= Header
    BY EmptySeq DEF Header, Word
  <2>2. header' \in 0..Huge /\ room' \in 0..Huge
    BY <1>11, SizedEffect DEF Sized
  <2> QED
    BY <1>0, <1>11, <2>1, <2>2 DEF TypeOK, Sized, netVars, readVars, connVars
<1>12. CASE PeekEnds
  BY <1>0, <1>12, AfterType DEF TypeOK, PeekEnds, Drop, Returned, netVars, readVars, packVars
<1>13. CASE RecvPack
  <2> DEFINE c == Current
  <2> DEFINE n == Header + header
  <2>1. /\ c \in Clients /\ n \in Nat
        /\ pos' = [pos EXCEPT ![c] = @ + n]
        /\ pos[c] + n \in Nat /\ pos[c] + n <= arrived[c]
        /\ frames' = [frames EXCEPT ![c] = Append(@, [at |-> pos[c], len |-> n])]
        /\ Append(frames[c], [at |-> pos[c], len |-> n]) \in Seq([at : Nat, len : Nat])
        /\ header' \in 0..Huge
    BY <1>13, RecvPackEffect, AppendProperties
  <2>2. /\ UNCHANGED <<cstate, ended, sent, written, arrived, backlog, peer, ready, events, peeked, room,
                      damaged>>
        /\ curfd' = sock_ /\ pc' \in {"wait", "loop"}
    BY <1>13, AfterType DEF RecvPack, Returned, netVars, connVars
  <2> HIDE DEF c, n
  <2>3. /\ pos' \in [Clients -> Nat]
        /\ \A d \in Clients : pos'[d] <= arrived[d]
    BY <1>0, <2>1 DEF TypeOK
  <2>4. frames' \in [Clients -> Seq([at : Nat, len : Nat])]
    BY <1>0, <2>1 DEF TypeOK
  <2> QED
    BY <1>0, <2>1, <2>2, <2>3, <2>4 DEF TypeOK
<1>14. CASE Ends
  BY <1>0, <1>14 DEF TypeOK, Ends, netVars, readVars, connVars, packVars
<1>15. CASE UNCHANGED vars
  BY <1>0, <1>15 DEF TypeOK, vars, netVars, readVars, connVars, loopVars, packVars
<1> QED
  BY <1>1, <1>2, <1>3, <1>4, <1>5, <1>6, <1>7, <1>8, <1>9, <1>10, <1>11,
     <1>12, <1>13, <1>14, <1>15, StepCases

-----------------------------------------------------------------------------
(* Placement. *)

\* A client that has started stays started.
LEMMA StartedStays ==
  ASSUME IInv, [Next]_vars, NEW c \in Clients, cstate[c] # "new"
  PROVE  cstate'[c] # "new"
<1>0. TypeOK
  BY DEF IInv
<1>1. ASSUME NEW d \in Clients, Connect(d) PROVE cstate'[c] # "new"
  BY <1>0, <1>1 DEF Connect, TypeOK
<1>2. ASSUME NEW d \in Clients, Writes(d) PROVE cstate'[c] # "new"
  <2>1. cstate' \in {cstate, [cstate EXCEPT ![d] = "waiting"], [cstate EXCEPT ![d] = "closed"]}
    BY <1>0, <1>2, WriteAppends
  <2> QED
    BY <1>0, <2>1 DEF TypeOK
<1>3. ASSUME NEW d \in Clients, Leaves(d) \/ Deliver(d) \/ DeliverFin(d) \/ Reset(d)
      PROVE  cstate'[c] # "new"
  BY <1>0, <1>3 DEF TypeOK, Leaves, Deliver, DeliverFin, Reset
<1>4. ASSUME UNCHANGED netVars PROVE cstate'[c] # "new"
  BY <1>4 DEF netVars
<1>5. CASE EpollWait \/ AcceptEvent \/ PeekSome \/ Sized \/ PeekEnds \/ RecvPack \/ Ends
  BY <1>4, <1>5 DEF EpollWait, AcceptEvent, PeekSome, Sized, PeekEnds, RecvPack, Ends
<1>6. ASSUME NEW f \in Fds, HupEvent(f) \/ InEvent(f) PROVE cstate'[c] # "new"
  BY <1>4, <1>6 DEF HupEvent, InEvent
<1>7. CASE UNCHANGED vars
  BY <1>4, <1>7 DEF vars
<1> QED
  BY <1>1, <1>2, <1>3, <1>5, <1>6, <1>7, StepCases

\* Connect appends a client that was nowhere, AcceptEvent moves the first one.
LEMMA PlacementStep == IInv /\ [Next]_vars => Placement'
<1> SUFFICES ASSUME IInv, [Next]_vars PROVE Placement'
  OBVIOUS
<1>0. TypeOK /\ Placement /\ None \notin Clients
  BY TcpAssumption DEF IInv
<1>a. \A i \in 1..Len(backlog) : backlog[i] \in Clients
  BY <1>0, ElementOfSeq DEF TypeOK
<1>b. \A f \in Fds : peer[f] # None => peer[f] \in Clients
  BY <1>0 DEF TypeOK
<1>c. \A c \in Clients : cstate[c] # "new" => cstate'[c] # "new"
  BY StartedStays
<1>1. ASSUME UNCHANGED connVars PROVE Placement'
  BY <1>0, <1>1, <1>a, <1>b, <1>c DEF Placement, connVars
<1>2. ASSUME NEW g \in Fds, Drop(g), UNCHANGED backlog PROVE Placement'
  <2>1. /\ peer' = [peer EXCEPT ![g] = None] /\ backlog' = backlog
        /\ \A f \in Fds : peer'[f] # None => peer'[f] = peer[f]
    BY <1>0, <1>2 DEF Drop, TypeOK
  <2> QED
    BY <1>0, <2>1, <1>a, <1>b, <1>c DEF Placement
<1>3. ASSUME NEW c \in Clients, Connect(c) PROVE Placement'
  <2>1. /\ cstate[c] = "new" /\ cstate'[c] = "open" /\ backlog' = Append(backlog, c)
        /\ peer' = peer
    BY <1>0, <1>3 DEF Connect, TypeOK
  <2>2. /\ Len(backlog) \in Nat /\ Len(backlog') = Len(backlog) + 1
        /\ \A i \in 1..Len(backlog) : backlog'[i] = backlog[i]
        /\ backlog'[Len(backlog) + 1] = c
    BY <1>0, <2>1, AppendProperties, LenProperties DEF TypeOK
  <2>3. \A i \in 1..Len(backlog') : i \in 1..Len(backlog) \/ i = Len(backlog) + 1
    BY <2>2
  <2>4. \A i \in 1..Len(backlog) : backlog[i] # c
    BY <1>0, <2>1 DEF Placement
  <2>5. \A f \in Fds : peer[f] # c
    BY <1>0, <2>1 DEF Placement
  <2>6. \A i \in 1..Len(backlog') : cstate'[backlog'[i]] # "new"
    BY <1>0, <2>1, <2>2, <2>3, <1>a, <1>c DEF Placement
  <2>7. \A i, j \in 1..Len(backlog') : backlog'[i] = backlog'[j] => i = j
    BY <1>0, <2>2, <2>3, <2>4 DEF Placement
  <2>8. \A f \in Fds : peer'[f] # None =>
          /\ cstate'[peer'[f]] # "new"
          /\ \A i \in 1..Len(backlog') : backlog'[i] # peer'[f]
    BY <1>0, <2>1, <2>2, <2>3, <2>5, <1>b, <1>c DEF Placement
  <2> QED
    BY <1>0, <2>1, <2>6, <2>7, <2>8 DEF Placement
<1>4. CASE AcceptEvent
  <2>1. PICK g \in Fds : peer[g] = None /\ peer' = [peer EXCEPT ![g] = Head(backlog)]
    BY <1>4 DEF AcceptEvent
  <2>2. /\ backlog # <<>> /\ backlog' = Tail(backlog)
    BY <1>4 DEF AcceptEvent
  <2>3. /\ Len(backlog) \in Nat \ {0}
        /\ Head(backlog) = backlog[1] /\ Len(backlog') = Len(backlog) - 1
        /\ \A i \in 1..Len(backlog') : backlog'[i] = backlog[i + 1]
    BY <1>0, <2>2, HeadTailProperties, LenProperties DEF TypeOK
  <2>4. 1 \in 1..Len(backlog) /\ \A i \in 1..Len(backlog') : i + 1 \in 1..Len(backlog) /\ i + 1 # 1
    BY <2>3
  <2>5. \A i \in 1..Len(backlog') : backlog'[i] # backlog[1]
    BY <1>0, <2>3, <2>4 DEF Placement
  <2>6. \A f \in Fds : peer'[f] = IF f = g THEN backlog[1] ELSE peer[f]
    BY <1>0, <2>1, <2>3 DEF TypeOK
  <2>7. \A f \in Fds : peer[f] # backlog[1]
    BY <1>0, <1>a, <2>4 DEF Placement
  <2>8. \A f, h \in Fds : peer'[f] # None /\ peer'[f] = peer'[h] => f = h
    BY <1>0, <2>6, <2>7 DEF Placement
  <2>9. \A i, j \in 1..Len(backlog') : backlog'[i] = backlog'[j] => i = j
    <3> SUFFICES ASSUME NEW i \in 1..Len(backlog'), NEW j \in 1..Len(backlog'),
                        backlog'[i] = backlog'[j]
                 PROVE  i = j
      OBVIOUS
    <3>1. i + 1 = j + 1
      BY <1>0, <2>3, <2>4 DEF Placement
    <3> QED
      BY <2>3, <3>1
  <2>10. \A i \in 1..Len(backlog') : cstate'[backlog'[i]] # "new"
    BY <1>0, <1>a, <1>c, <2>3, <2>4 DEF Placement
  <2>11. \A f \in Fds : peer'[f] # None =>
           /\ cstate'[peer'[f]] # "new"
           /\ \A i \in 1..Len(backlog') : backlog'[i] # peer'[f]
    BY <1>0, <1>a, <1>b, <1>c, <2>3, <2>4, <2>5, <2>6 DEF Placement
  <2> QED
    BY <2>8, <2>9, <2>10, <2>11 DEF Placement
<1>5. ASSUME NEW f \in Fds, HupEvent(f) PROVE Placement'
  BY <1>2, <1>5 DEF HupEvent
<1>6. CASE PeekEnds
  <2>1. curfd \in Fds
    BY <1>6, CurrentType DEF PeekEnds, IInv, EventsHold
  <2> QED
    BY <1>2, <1>6, <2>1 DEF PeekEnds
<1>7. ASSUME NEW c \in Clients, Writes(c) PROVE Placement'
  BY <1>0, <1>1, <1>7, WriteAppends
<1>8. ASSUME NEW c \in Clients, Leaves(c) \/ Deliver(c) \/ DeliverFin(c) \/ Reset(c) PROVE Placement'
  BY <1>1, <1>8 DEF Leaves, Deliver, DeliverFin, Reset
<1>9. ASSUME NEW f \in Fds, InEvent(f) PROVE Placement'
  BY <1>1, <1>9 DEF InEvent
<1>10. CASE EpollWait \/ PeekSome \/ Sized \/ RecvPack \/ Ends \/ UNCHANGED vars
  BY <1>1, <1>10 DEF EpollWait, PeekSome, Sized, RecvPack, Ends, vars
<1> QED
  BY <1>3, <1>4, <1>5, <1>6, <1>7, <1>8, <1>9, <1>10, StepCases

-----------------------------------------------------------------------------
(* Streams grow. *)

\* A write, spelled out for the client that writes and for the others.
LEMMA WriteFacts ==
  ASSUME IInv, NEW c \in Clients, Writes(c)
  PROVE  \E p \in [at : Nat, type : Bytes, size : Bytes], n \in Nat :
           /\ p.at = StreamEnd(c) /\ Size(p) \in Nat /\ Size(p) >= Header
           /\ End(p) \in Nat /\ End(p) = StreamEnd(c) + Size(p)
           /\ Len(sent[c]) \in Nat /\ Len(sent'[c]) = Len(sent[c]) + 1
           /\ \A i \in 1..Len(sent[c]) : i \in 1..Len(sent'[c]) /\ sent'[c][i] = sent[c][i]
           /\ Len(sent[c]) + 1 \in 1..Len(sent'[c])
           /\ sent'[c][Len(sent[c]) + 1] = p
           /\ \A i \in 1..Len(sent'[c]) : i \in 1..Len(sent[c]) \/ i = Len(sent[c]) + 1
           /\ StreamEnd(c)' = End(p)
           /\ written'[c] = written[c] + n
           /\ n <= Size(p)
           /\ cstate[c] = "open"
           /\ n = Size(p) \/ cstate'[c] = "closed"
           /\ \A d \in Clients : d # c =>
                /\ sent'[d] = sent[d] /\ written'[d] = written[d] /\ cstate'[d] = cstate[d]
                /\ StreamEnd(d)' = StreamEnd(d)
           /\ UNCHANGED <<ended, arrived, readVars, connVars, loopVars, packVars>>
<1>0. TypeOK
  BY DEF IInv
<1>1. PICK p \in [at : Nat, type : Bytes, size : Bytes], n \in Nat :
        /\ p.at = StreamEnd(c)
        /\ sent' = [sent EXCEPT ![c] = Append(@, p)]
        /\ written' = [written EXCEPT ![c] = @ + n]
        /\ n <= Size(p)
        /\ cstate[c] = "open"
        /\ \/ n = Size(p) /\ cstate' \in {cstate, [cstate EXCEPT ![c] = "waiting"]}
           \/ cstate' = [cstate EXCEPT ![c] = "closed"]
        /\ UNCHANGED <<ended, arrived, readVars, connVars, loopVars, packVars>>
  BY <1>0, WriteAppends
<1>2. /\ sent'[c] = Append(sent[c], p)
      /\ \A d \in Clients : d # c => sent'[d] = sent[d]
  BY <1>0, <1>1 DEF TypeOK
<1>3. sent[c] \in Seq([at : Nat, type : Bytes, size : Bytes])
  BY <1>0 DEF TypeOK
<1>4. /\ Len(sent[c]) \in Nat /\ Len(sent'[c]) = Len(sent[c]) + 1
      /\ sent'[c] # <<>>
      /\ \A i \in 1..Len(sent[c]) : sent'[c][i] = sent[c][i]
      /\ sent'[c][Len(sent[c]) + 1] = p
  BY <1>2, <1>3, AppendProperties, LenProperties
<1>5. /\ \A i \in 1..Len(sent[c]) : i \in 1..Len(sent'[c])
      /\ Len(sent[c]) + 1 \in 1..Len(sent'[c])
      /\ \A i \in 1..Len(sent'[c]) : i \in 1..Len(sent[c]) \/ i = Len(sent[c]) + 1
  BY <1>4
<1>6. StreamEnd(c)' = End(p)
  BY <1>4 DEF StreamEnd
<1>7. \A d \in Clients : d # c => StreamEnd(d)' = StreamEnd(d)
  BY <1>2 DEF StreamEnd
<1>8. /\ Size(p) \in Nat /\ Size(p) >= Header /\ End(p) \in Nat
      /\ End(p) = StreamEnd(c) + Size(p)
  <2>1. p.at \in Nat /\ p.size \in Nat
    BY DEF Bytes, Huge
  <2>2. Size(p) \in Nat /\ Size(p) >= Header
    BY <2>1 DEF Size, Header, Word
  <2> QED
    BY <1>1, <2>1, <2>2 DEF End
<1>9. /\ written'[c] = written[c] + n
      /\ n = Size(p) \/ cstate'[c] = "closed"
      /\ \A d \in Clients : d # c => written'[d] = written[d] /\ cstate'[d] = cstate[d]
  BY <1>0, <1>1 DEF TypeOK
<1> QED
  BY <1>1, <1>2, <1>4, <1>5, <1>6, <1>7, <1>8, <1>9

\* No packet ends behind the end of its stream.
LEMMA EndsWithin ==
  ASSUME TypeOK, Laid, NEW c \in Clients, NEW i \in 1..Len(sent[c])
  PROVE  End(sent[c][i]) <= StreamEnd(c)
<1> DEFINE l == Len(sent[c])
<1>1. l \in Nat /\ l \in 1..l /\ StreamEnd(c) = End(sent[c][l])
  BY PacketSize, StreamEndType
<1>2. CASE i = l
  BY <1>1, <1>2, PacketSize
<1>3. CASE i # l
  <2>1. i < l
    BY <1>1, <1>3
  <2>2. End(sent[c][i]) <= sent[c][l].at
    BY <1>1, <2>1 DEF Laid
  <2>3. /\ sent[c][l].at \in Nat /\ Size(sent[c][l]) \in Nat
        /\ End(sent[c][l]) = sent[c][l].at + Size(sent[c][l])
        /\ End(sent[c][i]) \in Nat
    BY <1>1, PacketSize DEF End
  <2> QED
    BY <1>1, <2>2, <2>3
<1> QED
  BY <1>2, <1>3

\* Outside of writes nothing is sent or written.
LEMMA SentKept ==
  ASSUME [Next]_vars, \A c \in Clients : ~Writes(c)
  PROVE  UNCHANGED <<sent, written>>
<1>1. ASSUME NEW d \in Clients, Connect(d) \/ Leaves(d) \/ Deliver(d) \/ DeliverFin(d) \/ Reset(d)
      PROVE  UNCHANGED <<sent, written>>
  BY <1>1 DEF Connect, Leaves, Deliver, DeliverFin, Reset
<1>2. ASSUME UNCHANGED netVars PROVE UNCHANGED <<sent, written>>
  BY <1>2 DEF netVars
<1>3. CASE EpollWait \/ AcceptEvent \/ PeekSome \/ Sized \/ PeekEnds \/ RecvPack \/ Ends
  BY <1>2, <1>3 DEF EpollWait, AcceptEvent, PeekSome, Sized, PeekEnds, RecvPack, Ends
<1>4. ASSUME NEW f \in Fds, HupEvent(f) \/ InEvent(f) PROVE UNCHANGED <<sent, written>>
  BY <1>2, <1>4 DEF HupEvent, InEvent
<1>5. CASE UNCHANGED vars
  BY <1>2, <1>5 DEF vars
<1> QED
  BY <1>1, <1>3, <1>4, <1>5, StepCases

\* A new packet is laid behind the last one.
LEMMA LaidStep == IInv /\ [Next]_vars => Laid'
<1> SUFFICES ASSUME IInv, [Next]_vars PROVE Laid'
  OBVIOUS
<1>0. TypeOK /\ Laid
  BY DEF IInv
<1>1. CASE \A c \in Clients : ~Writes(c)
  <2>1. sent' = sent
    BY <1>1, SentKept
  <2>2. \A c \in Clients : StreamEnd(c)' = StreamEnd(c)
    BY <2>1 DEF StreamEnd
  <2> QED
    BY <1>0, <2>1, <2>2 DEF Laid
<1>2. ASSUME NEW c \in Clients, Writes(c) PROVE Laid'
  <2> DEFINE l == Len(sent[c])
  <2>1. PICK p \in [at : Nat, type : Bytes, size : Bytes] :
          /\ p.at = StreamEnd(c) /\ Size(p) \in Nat /\ Size(p) >= Header
          /\ End(p) \in Nat /\ End(p) = StreamEnd(c) + Size(p)
          /\ l \in Nat /\ Len(sent'[c]) = l + 1
          /\ \A i \in 1..l : i \in 1..Len(sent'[c]) /\ sent'[c][i] = sent[c][i]
          /\ l + 1 \in 1..Len(sent'[c])
          /\ sent'[c][l + 1] = p
          /\ \A i \in 1..Len(sent'[c]) : i \in 1..l \/ i = l + 1
          /\ StreamEnd(c)' = End(p)
          /\ \A d \in Clients : d # c => sent'[d] = sent[d] /\ StreamEnd(d)' = StreamEnd(d)
    BY <1>2, WriteFacts
  <2>0. /\ StreamEnd(c) \in Nat
        /\ l = 0 => StreamEnd(c) = 0
        /\ l # 0 => StreamEnd(c) = End(sent[c][l])
    BY <1>0, StreamEndType
  <2>2. sent'[c][1].at = 0
    <3>1. CASE l = 0
      BY <2>0, <2>1, <3>1
    <3>2. CASE l # 0
      <4>1. 1 \in 1..l /\ sent[c] # <<>>
        BY <1>0, <2>1, <3>2, EmptySeq DEF TypeOK
      <4> QED
        BY <1>0, <2>1, <4>1 DEF Laid
    <3> QED
      BY <3>1, <3>2
  <2>3. ASSUME NEW i \in 1..Len(sent'[c]), NEW j \in 1..Len(sent'[c]), i < j
        PROVE  End(sent'[c][i]) <= sent'[c][j].at
    <3>1. i \in 1..l
      BY <2>1, <2>3
    <3>2. CASE j \in 1..l
      BY <1>0, <2>1, <2>3, <3>1, <3>2 DEF Laid
    <3>3. CASE j = l + 1
      BY <1>0, <2>1, <3>1, <3>3, EndsWithin
    <3> QED
      BY <2>1, <3>2, <3>3
  <2>4. ASSUME NEW i \in 1..Len(sent'[c]) - 1
        PROVE  sent'[c][i + 1].at = End(sent'[c][i])
    <3>1. i \in 1..l
      BY <2>1
    <3>2. CASE i = l
      <4>1. sent'[c][i] = sent[c][l] /\ sent'[c][i + 1] = p
        BY <2>1, <3>1, <3>2
      <4>2. p.at = End(sent[c][l])
        BY <2>0, <2>1, <3>1, <3>2
      <4> QED
        BY <4>1, <4>2
    <3>3. CASE i # l
      <4>1. i \in 1..l - 1 /\ i + 1 \in 1..l
        BY <2>1, <3>1, <3>3
      <4> QED
        BY <1>0, <2>1, <3>1, <4>1 DEF Laid
    <3> QED
      BY <3>2, <3>3
  <2>5. ASSUME NEW k \in 1..StreamEnd(c)'
        PROVE  \E j \in 1..Len(sent'[c]) : sent'[c][j].at < k /\ k <= End(sent'[c][j])
    <3>1. CASE k <= StreamEnd(c)
      <4>1. k \in 1..StreamEnd(c)
        BY <2>0, <2>1, <3>1
      <4>2. PICK j \in 1..l : sent[c][j].at < k /\ k <= End(sent[c][j])
        BY <1>0, <4>1 DEF Laid
      <4> QED
        BY <2>1, <4>2
    <3>2. CASE ~(k <= StreamEnd(c))
      <4>1. p.at < k /\ k <= End(p)
        BY <2>0, <2>1, <3>2
      <4> QED
        BY <2>1, <4>1
    <3> QED
      BY <3>1, <3>2
  <2> DEFINE At(d) ==
        /\ sent'[d] # <<>> => sent'[d][1].at = 0
        /\ \A i, j \in 1..Len(sent'[d]) : i < j => End(sent'[d][i]) <= sent'[d][j].at
        /\ \A i \in 1..Len(sent'[d]) - 1 : sent'[d][i + 1].at = End(sent'[d][i])
        /\ \A k \in 1..StreamEnd(d)' :
             \E j \in 1..Len(sent'[d]) : sent'[d][j].at < k /\ k <= End(sent'[d][j])
  <2>6. ASSUME NEW d \in Clients, d # c PROVE At(d)
    <3>1. /\ sent[d] # <<>> => sent[d][1].at = 0
          /\ \A i, j \in 1..Len(sent[d]) : i < j => End(sent[d][i]) <= sent[d][j].at
          /\ \A i \in 1..Len(sent[d]) - 1 : sent[d][i + 1].at = End(sent[d][i])
          /\ \A k \in 1..StreamEnd(d) :
               \E j \in 1..Len(sent[d]) : sent[d][j].at < k /\ k <= End(sent[d][j])
      BY <1>0 DEF Laid
    <3>2. sent'[d] = sent[d] /\ StreamEnd(d)' = StreamEnd(d)
      BY <2>1, <2>6
    <3> QED
      BY <3>1, <3>2
  <2>7. At(c)
    BY <2>2, <2>3, <2>4, <2>5
  <2> HIDE DEF At
  <2>8. \A d \in Clients : At(d)
    BY <2>6, <2>7
  <2> QED
    BY <2>8 DEF Laid, At
<1> QED
  BY <1>1, <1>2

\* What has arrived ends at a stop, and no write takes a stop away.
LEMMA StreamedStep == IInv /\ [Next]_vars => Streamed'
<1> SUFFICES ASSUME IInv, [Next]_vars PROVE Streamed'
  OBVIOUS
<1>0. TypeOK /\ Laid /\ Streamed
  BY DEF IInv
<1>a. \A c \in Clients :
        /\ StreamEnd(c) \in Nat /\ written[c] \in Nat /\ arrived[c] \in Nat
        /\ written[c] <= StreamEnd(c)
        /\ cstate[c] # "closed" => written[c] = StreamEnd(c)
        /\ arrived[c] # 0 => arrived[c] \in Stops(c)
        /\ ended[c] = "fin" => arrived[c] = written[c]
        /\ ended[c] # "no" => cstate[c] = "closed"
  BY <1>0, StreamEndType DEF Streamed, TypeOK
<1>b. ASSUME UNCHANGED <<sent, written>>
      PROVE  \A c \in Clients : StreamEnd(c)' = StreamEnd(c) /\ Stops(c)' = Stops(c)
  BY <1>b DEF StreamEnd, Stops
<1>1. ASSUME UNCHANGED netVars PROVE Streamed'
  BY <1>a, <1>b, <1>1 DEF Streamed, netVars
<1>2. ASSUME NEW c \in Clients, Connect(c) \/ Leaves(c) PROVE Streamed'
  <2>1. UNCHANGED <<ended, sent, written, arrived>>
    BY <1>2 DEF Connect, Leaves
  <2>2. \A d \in Clients : \/ cstate'[d] = cstate[d]
                           \/ cstate[d] # "closed" /\ ended[d] = "no"
    BY <1>0, <1>2, <1>a DEF Connect, Leaves, TypeOK
  <2>3. \A d \in Clients : cstate'[d] # "closed" => cstate[d] # "closed"
    BY <1>0, <1>2 DEF Connect, Leaves, TypeOK
  <2> QED
    BY <1>a, <1>b, <2>1, <2>2, <2>3 DEF Streamed
<1>3. ASSUME NEW c \in Clients, Writes(c) PROVE Streamed'
  <2> DEFINE l == Len(sent[c])
  <2>1. PICK p \in [at : Nat, type : Bytes, size : Bytes], n \in Nat :
          /\ Size(p) \in Nat /\ End(p) = StreamEnd(c) + Size(p)
          /\ \A i \in 1..l : i \in 1..Len(sent'[c]) /\ sent'[c][i] = sent[c][i]
          /\ StreamEnd(c)' = End(p)
          /\ written'[c] = written[c] + n
          /\ n <= Size(p)
          /\ cstate[c] = "open"
          /\ n = Size(p) \/ cstate'[c] = "closed"
          /\ \A d \in Clients : d # c =>
               /\ sent'[d] = sent[d] /\ written'[d] = written[d] /\ cstate'[d] = cstate[d]
               /\ StreamEnd(d)' = StreamEnd(d)
          /\ UNCHANGED <<ended, arrived>>
    BY <1>3, WriteFacts
  <2>2. /\ written[c] = StreamEnd(c) /\ ended[c] = "no"
    BY <1>a, <2>1
  <2>3. /\ written'[c] <= StreamEnd(c)'
        /\ cstate'[c] # "closed" => written'[c] = StreamEnd(c)'
        /\ written'[c] \in Nat /\ written[c] <= written'[c]
    BY <1>a, <2>1, <2>2
  <2>4. ASSUME arrived[c] # 0 PROVE arrived[c] \in Stops(c)'
    <3> DEFINE m == arrived[c]
    <3>1. m \in 0..written[c]
      BY <1>a, <2>4, StopsWritten
    <3>2. PICK i \in 1..l :
            m = End(sent[c][i]) \/ \E k \in Cuts[c] : m = sent[c][i].at + k /\ m < End(sent[c][i])
      BY <1>a, <2>4 DEF Stops
    <3>3. m \in 0..written'[c]
      BY <1>a, <2>3, <3>1
    <3>4. i \in 1..Len(sent'[c]) /\ sent'[c][i] = sent[c][i]
      BY <2>1
    <3> QED
      BY <3>2, <3>3, <3>4 DEF Stops
  <2>5. \A d \in Clients : d # c => Stops(d)' = Stops(d)
    BY <2>1 DEF Stops
  <2>6. ASSUME NEW d \in Clients
        PROVE  /\ written'[d] <= StreamEnd(d)'
               /\ cstate'[d] # "closed" => written'[d] = StreamEnd(d)'
               /\ arrived'[d] # 0 => arrived'[d] \in Stops(d)'
               /\ ended'[d] = "fin" => arrived'[d] = written'[d]
               /\ ended'[d] # "no" => cstate'[d] = "closed"
    <3>1. CASE d = c
      BY <2>1, <2>2, <2>3, <2>4, <3>1
    <3>2. CASE d # c
      BY <1>a, <2>1, <2>5, <3>2
    <3> QED
      BY <3>1, <3>2
  <2> QED
    BY <2>6 DEF Streamed
<1>4. ASSUME NEW c \in Clients, Deliver(c) PROVE Streamed'
  <2>1. PICK n \in Stops(c) : arrived' = [arrived EXCEPT ![c] = n]
    BY <1>4 DEF Deliver
  <2>2. ended[c] = "no" /\ UNCHANGED <<cstate, ended, sent, written>>
    BY <1>4 DEF Deliver
  <2>3. \A d \in Clients : arrived'[d] = IF d = c THEN n ELSE arrived[d]
    BY <1>0, <2>1 DEF TypeOK
  <2> QED
    BY <1>a, <1>b, <2>1, <2>2, <2>3 DEF Streamed
<1>5. ASSUME NEW c \in Clients, DeliverFin(c) \/ Reset(c) PROVE Streamed'
  <2>1. UNCHANGED <<sent, written, arrived>>
    BY <1>5 DEF DeliverFin, Reset
  <2>2. /\ \A d \in Clients : d # c => ended'[d] = ended[d] /\ cstate'[d] = cstate[d]
        /\ cstate'[c] = "closed"
        /\ ended'[c] = "fin" => arrived[c] = written[c]
    BY <1>0, <1>5 DEF DeliverFin, Reset, TypeOK
  <2> QED
    BY <1>a, <1>b, <2>1, <2>2 DEF Streamed
<1>6. CASE EpollWait \/ AcceptEvent \/ PeekSome \/ Sized \/ PeekEnds \/ RecvPack \/ Ends
  BY <1>1, <1>6 DEF EpollWait, AcceptEvent, PeekSome, Sized, PeekEnds, RecvPack, Ends
<1>7. ASSUME NEW f \in Fds, HupEvent(f) \/ InEvent(f) PROVE Streamed'
  BY <1>1, <1>7 DEF HupEvent, InEvent
<1>8. CASE UNCHANGED vars
  BY <1>1, <1>8 DEF vars
<1> QED
  BY <1>2, <1>3, <1>4, <1>5, <1>6, <1>7, <1>8, StepCases

-----------------------------------------------------------------------------
(* Events. *)

\* What becomes of the end of a connection, and of what has arrived.
LEMMA NetGrows ==
  ASSUME IInv, [Next]_vars, NEW c \in Clients
  PROVE  /\ ended'[c] = ended[c] \/ (ended[c] = "no" /\ ended'[c] \in {"fin", "reset"})
         /\ arrived'[c] >= arrived[c]
<1>0. TypeOK
  BY DEF IInv
<1>a. arrived[c] \in Nat
  BY <1>0 DEF TypeOK
<1> DEFINE Goal == /\ ended'[c] = ended[c] \/ (ended[c] = "no" /\ ended'[c] \in {"fin", "reset"})
                   /\ arrived'[c] >= arrived[c]
<1>1. ASSUME UNCHANGED <<ended, arrived>> PROVE Goal
  BY <1>1, <1>a
<1>2. ASSUME NEW d \in Clients, Deliver(d) PROVE Goal
  <2>1. PICK n \in Stops(d) : n > arrived[d] /\ arrived' = [arrived EXCEPT ![d] = n]
    BY <1>2 DEF Deliver
  <2>2. n \in 0..written[d]
    BY StopsWritten
  <2>3. ended' = ended
    BY <1>2 DEF Deliver
  <2>4. arrived'[c] = IF c = d THEN n ELSE arrived[c]
    BY <1>0, <2>1 DEF TypeOK
  <2>5. n \in Nat
    BY <1>0, <2>2 DEF TypeOK
  <2> QED
    BY <1>a, <2>1, <2>3, <2>4, <2>5
<1>3. ASSUME NEW d \in Clients, DeliverFin(d) \/ Reset(d) PROVE Goal
  BY <1>0, <1>3, <1>a DEF DeliverFin, Reset, TypeOK
<1>4. ASSUME NEW d \in Clients, Connect(d) \/ Leaves(d) \/ Writes(d) PROVE Goal
  <2>1. UNCHANGED <<ended, arrived>>
    BY <1>0, <1>4, WriteAppends DEF Connect, Leaves
  <2> QED
    BY <1>1, <2>1
<1>5. CASE EpollWait \/ AcceptEvent \/ PeekSome \/ Sized \/ PeekEnds \/ RecvPack \/ Ends
  BY <1>1, <1>5 DEF EpollWait, AcceptEvent, PeekSome, Sized, PeekEnds, RecvPack, Ends, netVars
<1>6. ASSUME NEW f \in Fds, HupEvent(f) \/ InEvent(f) PROVE Goal
  BY <1>1, <1>6 DEF HupEvent, InEvent, netVars
<1>7. CASE UNCHANGED vars
  BY <1>1, <1>7 DEF vars, netVars
<1> QED
  BY <1>2, <1>3, <1>4, <1>5, <1>6, <1>7, StepCases

\* The thread waits only with nothing left in the array.
LEMMA AfterWait ==
  ASSUME NEW evs, After(evs) = "wait"
  PROVE  \A f \in DOMAIN evs : evs[f] = {}
BY DEF After

\* No two descriptors have the connection at hand.
LEMMA CurrentOnce ==
  ASSUME IInv, pc \in {"peek", "recv"}
  PROVE  /\ curfd \in Fds /\ Current = peer[curfd] /\ Current \in Clients /\ Current # None
         /\ events[curfd] = {}
         /\ \A f \in Fds : peer[f] = Current => f = curfd
<1>1. curfd \in Fds /\ Current = peer[curfd] /\ Current \in Clients /\ Current # None
  BY CurrentType DEF IInv
<1>2. events[curfd] = {}
  BY DEF IInv, EventsHold
<1> QED
  BY <1>1, <1>2 DEF IInv, Placement

\* Events are read off connections, and a handler ends before its connection.
LEMMA EventsHoldStep == IInv /\ [Next]_vars => EventsHold'
<1> SUFFICES ASSUME IInv, [Next]_vars PROVE EventsHold'
  OBVIOUS
<1>0. TypeOK /\ EventsHold /\ sock_ \notin Fds
  BY TcpAssumption DEF IInv
<1>a. \A f \in Fds : peer[f] # None => peer[f] \in Clients
  BY <1>0 DEF TypeOK
<1>b. \A c \in Clients : ended[c] = "reset" => ended'[c] = "reset"
  BY NetGrows
<1>1. ASSUME UNCHANGED <<peer, events, pc, curfd>> PROVE EventsHold'
  <2>1. \A f \in Fds : "HUP" \in events[f] => ended'[peer[f]] = "reset"
    BY <1>0, <1>a, <1>b DEF EventsHold
  <2> QED
    BY <1>0, <1>1, <2>1 DEF EventsHold
<1>2. ASSUME NEW c \in Clients,
             Connect(c) \/ Writes(c) \/ Leaves(c) \/ Deliver(c) \/ DeliverFin(c) \/ Reset(c)
      PROVE  EventsHold'
  <2>1. UNCHANGED <<peer, events, pc, curfd>>
    BY <1>0, <1>2, WriteAppends DEF Connect, Leaves, Deliver, DeliverFin, Reset, connVars, loopVars
  <2> QED
    BY <1>1, <2>1
<1>3. CASE EpollWait
  <2>1. /\ events' = [f \in Fds \cup {sock_} |-> IF f \in ready THEN Revents(f) ELSE {}]
        /\ pc' = "loop" /\ curfd' = sock_ /\ UNCHANGED <<peer, ended>>
    BY <1>0, <1>3 DEF EpollWait, EventsHold, TypeOK, netVars, connVars
  <2>2. ASSUME NEW f \in Fds, events'[f] # {}
        PROVE  peer[f] # None /\ ("HUP" \in events'[f] => ended[peer[f]] = "reset")
    BY <1>0, <2>1, <2>2 DEF Revents, Poll
  <2>3. pc' \notin {"wait", "peek", "recv"} /\ UNCHANGED <<peer, ended>> /\ curfd' = sock_
    BY <2>1
  <2> QED
    BY <2>2, <2>3 DEF EventsHold
<1>4. CASE AcceptEvent
  <2>1. PICK g \in Fds : peer[g] = None /\ peer' = [peer EXCEPT ![g] = Head(backlog)]
    BY <1>4 DEF AcceptEvent
  <2>2. Head(backlog) # None
    <3>1. backlog \in Seq(Clients) /\ backlog # <<>>
      BY <1>0, <1>4 DEF AcceptEvent, TypeOK
    <3>2. Head(backlog) \in Clients
      BY <3>1, HeadTailProperties
    <3> QED
      BY <3>2, TcpAssumption
  <2>3. /\ events' = [events EXCEPT ![sock_] = {}] /\ pc' = After(events')
        /\ curfd' = sock_ /\ UNCHANGED <<ended>>
    BY <1>0, <1>4 DEF AcceptEvent, Processed, EventsHold, netVars
  <2>4. events[g] = {} /\ DOMAIN events' = Fds \cup {sock_}
    BY <1>0, <2>1, <2>3 DEF EventsHold, TypeOK
  <2>5. \A f \in Fds : events'[f] = events[f] /\ (f # g => peer'[f] = peer[f]) /\ peer'[g] # None
    BY <1>0, <2>1, <2>2, <2>3 DEF TypeOK
  <2>6. pc' = "wait" => \A f \in Fds \cup {sock_} : events'[f] = {}
    BY <2>3, <2>4, AfterWait
  <2>7. pc' \in {"wait", "loop"}
    BY <2>3, AfterType
  <2> QED
    BY <1>0, <2>1, <2>3, <2>4, <2>5, <2>6, <2>7 DEF EventsHold
<1>5. ASSUME NEW g \in Fds, HupEvent(g) PROVE EventsHold'
  <2>1. /\ events' = [events EXCEPT ![g] = {}] /\ pc' = After(events')
        /\ peer' = [peer EXCEPT ![g] = None]
        /\ curfd' = sock_ /\ UNCHANGED <<ended>>
    BY <1>0, <1>5 DEF HupEvent, Drop, Processed, EventsHold, netVars
  <2>2. /\ DOMAIN events' = Fds \cup {sock_} /\ events'[g] = {}
        /\ \A f \in Fds : f # g => events'[f] = events[f] /\ peer'[f] = peer[f]
    BY <1>0, <2>1 DEF TypeOK
  <2>3. pc' = "wait" => \A f \in Fds \cup {sock_} : events'[f] = {}
    BY <2>1, <2>2, AfterWait
  <2>4. pc' \in {"wait", "loop"}
    BY <2>1, AfterType
  <2> QED
    BY <1>0, <2>1, <2>2, <2>3, <2>4 DEF EventsHold
<1>6. ASSUME NEW g \in Fds, InEvent(g) PROVE EventsHold'
  <2>1. /\ events[g] # {} /\ events' = [events EXCEPT ![g] = {}]
        /\ pc' = "peek" /\ curfd' = g /\ UNCHANGED <<peer, ended>>
    BY <1>6 DEF InEvent, netVars, connVars
  <2>2. events'[g] = {} /\ \A f \in Fds : f # g => events'[f] = events[f]
    BY <1>0, <2>1 DEF TypeOK
  <2>3. peer[g] # None
    BY <1>0, <2>1 DEF EventsHold
  <2> QED
    BY <1>0, <2>1, <2>2, <2>3 DEF EventsHold
<1>7. CASE PeekSome \/ UNCHANGED vars
  BY <1>1, <1>7 DEF PeekSome, vars, connVars, loopVars
<1>8. CASE Sized
  BY <1>0, <1>8 DEF Sized, EventsHold, netVars, connVars
<1>9. CASE PeekEnds
  <2>1. /\ pc = "peek" /\ UNCHANGED <<ended, events>> /\ curfd' = sock_ /\ pc' = After(events)
        /\ peer' = [peer EXCEPT ![curfd] = None]
    BY <1>9 DEF PeekEnds, Drop, Returned, netVars
  <2>2. curfd \in Fds /\ events[curfd] = {}
    BY <2>1, CurrentOnce
  <2>3. \A f \in Fds : f # curfd => peer'[f] = peer[f]
    BY <1>0, <2>1 DEF TypeOK
  <2>4. pc' = "wait" => \A f \in Fds \cup {sock_} : events[f] = {}
    BY <1>0, <2>1, AfterWait DEF TypeOK
  <2>5. pc' \in {"wait", "loop"}
    BY <2>1, AfterType
  <2> QED
    BY <1>0, <2>1, <2>2, <2>3, <2>4, <2>5 DEF EventsHold
<1>10. CASE RecvPack
  <2>1. UNCHANGED <<ended, peer, events>> /\ curfd' = sock_ /\ pc' = After(events)
    BY <1>10 DEF RecvPack, Returned, netVars, connVars
  <2>2. pc' = "wait" => \A f \in Fds \cup {sock_} : events[f] = {}
    BY <1>0, <2>1, AfterWait DEF TypeOK
  <2>3. pc' \in {"wait", "loop"}
    BY <2>1, AfterType
  <2> QED
    BY <1>0, <2>1, <2>2, <2>3 DEF EventsHold
<1>11. CASE Ends
  BY <1>0, <1>11 DEF Ends, EventsHold, netVars, connVars
<1> QED
  BY <1>2, <1>3, <1>4, <1>5, <1>6, <1>7, <1>8, <1>9, <1>10, <1>11, StepCases

\* What makes a connection readable stays until the thread reads it.
LEMMA HandlersNeverBlockStep == IInv /\ [Next]_vars => HandlersNeverBlock'
<1> SUFFICES ASSUME IInv, [Next]_vars PROVE HandlersNeverBlock'
  OBVIOUS
<1>0. TypeOK /\ EventsHold /\ HandlersNeverBlock /\ sock_ \notin Fds
  BY TcpAssumption DEF IInv
<1> DEFINE Full(c) == arrived[c] - pos[c] > 0 \/ ended[c] = "fin"
<1> DEFINE Full1(c) == arrived'[c] - pos'[c] > 0 \/ ended'[c] = "fin"
<1>a. /\ \A f \in Fds : peer[f] # None => peer[f] \in Clients
      /\ \A c \in Clients : pos[c] \in Nat /\ arrived[c] \in Nat
      /\ \A c \in Clients : arrived'[c] \in Nat
  BY <1>0, TypeStep DEF TypeOK
<1>b. ASSUME NEW c \in Clients, pos'[c] = pos[c], Full(c) PROVE Full1(c)
  BY <1>a, <1>b, NetGrows
<1>c. /\ events[sock_] # {} => backlog # <<>>
      /\ \A f \in Fds : "IN" \in events[f] /\ "HUP" \notin events[f] =>
           peer[f] # None /\ Full(peer[f])
      /\ pc = "peek" => Current # None /\ Full(Current)
  BY <1>0 DEF HandlersNeverBlock, Avail
<1>d. pc = "peek" => Current \in Clients
  BY CurrentOnce
<1> HIDE DEF Full, Full1
<1>e. ASSUME events'[sock_] # {} => backlog' # <<>>,
             \A f \in Fds : "IN" \in events'[f] /\ "HUP" \notin events'[f] =>
               peer'[f] # None /\ Full1(peer'[f]),
             pc' = "peek" => Current' # None /\ Full1(Current')
      PROVE  HandlersNeverBlock'
  BY <1>e DEF HandlersNeverBlock, Full1, Avail
<1>1. ASSUME UNCHANGED <<pos, peer, events, pc, curfd>>, backlog # <<>> => backlog' # <<>>
      PROVE  HandlersNeverBlock'
  <2>1. Current' = Current
    BY <1>1 DEF Current
  <2>2. \A f \in Fds : "IN" \in events'[f] /\ "HUP" \notin events'[f] =>
          peer'[f] # None /\ Full1(peer'[f])
    BY <1>1, <1>a, <1>b, <1>c
  <2>3. pc' = "peek" => Current' # None /\ Full1(Current')
    BY <1>1, <1>b, <1>c, <1>d, <2>1
  <2> QED
    BY <1>1, <1>c, <1>e, <2>2, <2>3
<1>2. ASSUME NEW c \in Clients,
             Connect(c) \/ Writes(c) \/ Leaves(c) \/ Deliver(c) \/ DeliverFin(c) \/ Reset(c)
      PROVE  HandlersNeverBlock'
  <2>1. CASE Connect(c)
    <3>0. backlog \in Seq(Clients) /\ backlog' = Append(backlog, c)
      BY <1>0, <2>1 DEF Connect, TypeOK
    <3>1. backlog' # <<>>
      BY <3>0, AppendProperties
    <3> QED
      BY <1>1, <2>1, <3>1 DEF Connect, readVars
  <2>2. CASE Writes(c)
    BY <1>0, <1>1, <2>2, WriteAppends DEF readVars, connVars, loopVars
  <2>3. CASE Leaves(c) \/ Deliver(c) \/ DeliverFin(c) \/ Reset(c)
    BY <1>1, <2>3 DEF Leaves, Deliver, DeliverFin, Reset, readVars, connVars, loopVars
  <2> QED
    BY <1>2, <2>1, <2>2, <2>3
<1>3. CASE EpollWait
  <2>1. /\ events' = [f \in Fds \cup {sock_} |-> IF f \in ready THEN Revents(f) ELSE {}]
        /\ pc' = "loop" /\ UNCHANGED <<peer, ended, arrived, pos, backlog>>
    BY <1>0, <1>3 DEF EpollWait, TypeOK, netVars, readVars, connVars
  <2>2. ASSUME NEW f \in Fds, "IN" \in events'[f] /\ "HUP" \notin events'[f]
        PROVE  peer[f] # None /\ Full(peer[f])
    <3>1. peer[f] # None /\ "IN" \in Poll(peer[f]) /\ "HUP" \notin Poll(peer[f])
      BY <1>0, <2>1, <2>2 DEF Revents
    <3>2. ended[peer[f]] \in {"no", "fin", "reset"}
      BY <1>0, <1>a, <3>1 DEF TypeOK
    <3> QED
      BY <3>1, <3>2 DEF Poll, Full, Avail
  <2>3. events'[sock_] # {} => backlog # <<>>
    BY <2>1 DEF Revents
  <2> QED
    BY <1>a, <1>b, <1>e, <2>1, <2>2, <2>3
<1>4. CASE AcceptEvent
  <2>1. PICK g \in Fds : peer[g] = None /\ peer' = [peer EXCEPT ![g] = Head(backlog)]
    BY <1>4 DEF AcceptEvent
  <2>2. /\ events' = [events EXCEPT ![sock_] = {}] /\ pc' \in {"wait", "loop"}
        /\ UNCHANGED pos
    BY <1>4, AfterType DEF AcceptEvent, Processed, readVars
  <2>3. /\ events'[sock_] = {} /\ events[g] = {}
        /\ \A f \in Fds : events'[f] = events[f] /\ (f # g => peer'[f] = peer[f])
    BY <1>0, <2>1, <2>2 DEF TypeOK, EventsHold
  <2> QED
    BY <1>a, <1>b, <1>c, <1>e, <2>2, <2>3
<1>5. ASSUME NEW g \in Fds, HupEvent(g) PROVE HandlersNeverBlock'
  <2>1. /\ events' = [events EXCEPT ![g] = {}] /\ pc' \in {"wait", "loop"}
        /\ peer' = [peer EXCEPT ![g] = None] /\ UNCHANGED <<pos, backlog>>
    BY <1>5, AfterType DEF HupEvent, Drop, Processed, readVars
  <2>2. /\ events'[g] = {} /\ events'[sock_] = events[sock_]
        /\ \A f \in Fds : f # g => events'[f] = events[f] /\ peer'[f] = peer[f]
    BY <1>0, <2>1 DEF TypeOK
  <2> QED
    BY <1>a, <1>b, <1>c, <1>e, <2>1, <2>2
<1>6. ASSUME NEW g \in Fds, InEvent(g) PROVE HandlersNeverBlock'
  <2>1. /\ "IN" \in events[g] /\ "HUP" \notin events[g]
        /\ events' = [events EXCEPT ![g] = {}]
        /\ curfd' = g /\ UNCHANGED <<pos, peer, backlog>>
    BY <1>6 DEF InEvent, readVars, connVars
  <2>2. /\ events'[g] = {} /\ events'[sock_] = events[sock_]
        /\ \A f \in Fds : f # g => events'[f] = events[f]
    BY <1>0, <2>1 DEF TypeOK
  <2>3. Current' = peer[g]
    BY <1>0, <2>1 DEF Current
  <2>4. peer[g] # None /\ peer[g] \in Clients /\ Full(peer[g])
    BY <1>a, <1>c, <2>1
  <2>5. Full1(Current')
    BY <1>b, <2>1, <2>3, <2>4
  <2> QED
    BY <1>a, <1>b, <1>c, <1>e, <2>1, <2>2, <2>3, <2>4, <2>5
<1>7. CASE PeekSome \/ UNCHANGED vars
  BY <1>1, <1>7 DEF PeekSome, vars, readVars, connVars, loopVars
<1>8. CASE Sized
  <2>1. pc' = "recv" /\ UNCHANGED <<pos, peer, events, backlog>>
    BY <1>8 DEF Sized, readVars, connVars
  <2> QED
    BY <1>a, <1>b, <1>c, <1>e, <2>1
<1>9. CASE PeekEnds
  <2>1. /\ pc = "peek" /\ UNCHANGED <<pos, events, backlog>> /\ pc' \in {"wait", "loop"}
        /\ peer' = [peer EXCEPT ![curfd] = None]
    BY <1>9, AfterType DEF PeekEnds, Drop, Returned, readVars
  <2>2. curfd \in Fds /\ events[curfd] = {}
    BY <2>1, CurrentOnce
  <2>3. \A f \in Fds : f # curfd => peer'[f] = peer[f]
    BY <1>0, <2>1 DEF TypeOK
  <2> QED
    BY <1>a, <1>b, <1>c, <1>e, <2>1, <2>2, <2>3
<1>10. CASE RecvPack
  <2>1. /\ UNCHANGED <<peer, events, backlog>> /\ pc' \in {"wait", "loop"} /\ pc = "recv"
    BY <1>10, AfterType DEF RecvPack, Returned, netVars, connVars
  <2>2. \A c \in Clients : c # Current => pos'[c] = pos[c]
    BY <1>0, <1>10, RecvPackEffect DEF TypeOK
  <2>3. \A f \in Fds : events[f] # {} => peer[f] # Current
    BY <2>1, CurrentOnce
  <2> QED
    BY <1>a, <1>b, <1>c, <1>e, <2>1, <2>2, <2>3
<1>11. CASE Ends
  <2>1. pc' # "peek" /\ UNCHANGED <<pos, peer, events, backlog>>
    BY <1>11 DEF Ends, readVars, connVars
  <2> QED
    BY <1>a, <1>b, <1>c, <1>e, <2>1
<1> QED
  BY <1>2, <1>3, <1>4, <1>5, <1>6, <1>7, <1>8, <1>9, <1>10, <1>11, StepCases

\* Each wake-up puts a descriptor on the ready list, and only a frame that is
\* read takes it off with the connection still readable.
LEMMA ForgottenBehindFrameStep == IInv /\ [Next]_vars => ForgottenBehindFrame'
<1> SUFFICES ASSUME IInv, [Next]_vars PROVE ForgottenBehindFrame'
  OBVIOUS
<1>0. TypeOK /\ EventsHold /\ ForgottenBehindFrame /\ sock_ \notin Fds
  BY TcpAssumption DEF IInv
<1> DEFINE Up(c) == arrived[c] - pos[c] > 0 \/ ended[c] # "no"
<1> DEFINE Up1(c) == arrived'[c] - pos'[c] > 0 \/ ended'[c] # "no"
<1>a. \A f \in Fds : peer[f] # None => peer[f] \in Clients
  BY <1>0 DEF TypeOK
<1>b. ASSUME NEW c \in Clients, pos'[c] = pos[c], arrived'[c] = arrived[c], ended'[c] = ended[c]
      PROVE  Up1(c) => Up(c)
  BY <1>b
<1>d. \A c \in Clients : Poll(c) # {} <=> Up(c)
  BY DEF Poll, Avail
<1>c. \A f \in Fds : peer[f] # None /\ Up(peer[f]) =>
        \/ f \in ready \/ events[f] # {} \/ (pc \in {"peek", "recv"} /\ curfd = f)
        \/ frames[peer[f]] # <<>> \/ pc \in {"dead", "stopped"}
  <2> HIDE DEF Up
  <2> QED
    BY <1>0, <1>a, <1>d DEF ForgottenBehindFrame, Alive
<1>e. ASSUME \A f \in Fds : peer'[f] # None /\ Up1(peer'[f]) =>
               \/ f \in ready' \/ events'[f] # {} \/ (pc' \in {"peek", "recv"} /\ curfd' = f)
               \/ frames'[peer'[f]] # <<>> \/ pc' \in {"dead", "stopped"}
      PROVE  ForgottenBehindFrame'
  <2>1. \A f \in Fds : Poll(peer[f])' # {} => Up1(peer'[f])
    BY DEF Poll, Avail
  <2> QED
    BY <1>e, <2>1 DEF ForgottenBehindFrame, Alive
<1> HIDE DEF Up, Up1
<1>1. ASSUME UNCHANGED <<peer, events, pc, curfd, frames, pos>>, ready \subseteq ready',
             \A f \in Fds : peer[f] # None =>
               \/ f \in ready'
               \/ arrived'[peer[f]] = arrived[peer[f]] /\ ended'[peer[f]] = ended[peer[f]]
      PROVE  ForgottenBehindFrame'
  BY <1>1, <1>a, <1>b, <1>c, <1>e
<1>2. ASSUME NEW c \in Clients, Connect(c) \/ Writes(c) \/ Leaves(c) PROVE ForgottenBehindFrame'
  <2>1. /\ UNCHANGED <<peer, events, pc, curfd, frames, pos, arrived, ended>>
        /\ ready \subseteq ready'
    BY <1>0, <1>2, WriteAppends DEF Connect, Leaves, readVars, connVars, loopVars
  <2> QED
    BY <1>1, <2>1
<1>3. ASSUME NEW c \in Clients, Deliver(c) \/ DeliverFin(c) \/ Reset(c)
      PROVE  ForgottenBehindFrame'
  <2>1. /\ UNCHANGED <<peer, events, pc, curfd, frames, pos>>
        /\ ready' = ready \cup FdsOf(c)
    BY <1>3 DEF Deliver, DeliverFin, Reset, readVars, connVars
  <2>2. \A d \in Clients : d # c => arrived'[d] = arrived[d] /\ ended'[d] = ended[d]
    BY <1>0, <1>3 DEF Deliver, DeliverFin, Reset, TypeOK
  <2>3. \A f \in Fds : peer[f] = c => f \in ready'
    BY <2>1 DEF FdsOf
  <2> QED
    BY <1>1, <1>a, <2>1, <2>2, <2>3
<1>4. CASE EpollWait
  <2>1. /\ events' = [f \in Fds \cup {sock_} |-> IF f \in ready THEN Revents(f) ELSE {}]
        /\ pc = "wait" /\ UNCHANGED <<peer, ended, arrived, pos, frames>>
    BY <1>0, <1>4 DEF EpollWait, TypeOK, netVars, readVars, connVars
  <2>2. \A f \in Fds : events[f] = {}
    BY <1>0, <2>1 DEF EventsHold
  <2>3. ASSUME NEW f \in Fds, peer[f] # None, Up(peer[f]), f \in ready PROVE events'[f] # {}
    BY <1>0, <1>a, <1>d, <2>1, <2>3 DEF Revents
  <2> QED
    BY <1>a, <1>b, <1>c, <1>e, <2>1, <2>2, <2>3
<1>5. CASE AcceptEvent
  <2>1. PICK g \in Fds :
          /\ peer' = [peer EXCEPT ![g] = Head(backlog)]
          /\ ready' = IF Poll(Head(backlog)) # {} THEN ready \cup {g} ELSE ready
    BY <1>5 DEF AcceptEvent
  <2>2. /\ events' = [events EXCEPT ![sock_] = {}] /\ pc = "loop"
        /\ UNCHANGED <<ended, arrived, pos, frames>>
    BY <1>5 DEF AcceptEvent, Processed, netVars, readVars
  <2>3. Head(backlog) \in Clients
    BY <1>0, <1>5, HeadTailProperties DEF AcceptEvent, TypeOK
  <2>4. /\ peer'[g] = Head(backlog) /\ ready \subseteq ready'
        /\ Up(Head(backlog)) => g \in ready'
        /\ \A f \in Fds : events'[f] = events[f] /\ (f # g => peer'[f] = peer[f])
    BY <1>0, <1>d, <2>1, <2>2, <2>3 DEF TypeOK
  <2> QED
    BY <1>a, <1>b, <1>c, <1>e, <2>2, <2>3, <2>4
<1>6. ASSUME NEW g \in Fds, HupEvent(g) PROVE ForgottenBehindFrame'
  <2>1. /\ events' = [events EXCEPT ![g] = {}] /\ pc = "loop"
        /\ peer' = [peer EXCEPT ![g] = None] /\ ready' = ready \ {g}
        /\ UNCHANGED <<ended, arrived, pos, frames>>
    BY <1>6 DEF HupEvent, Drop, Processed, netVars, readVars
  <2>2. /\ peer'[g] = None
        /\ \A f \in Fds : f # g => events'[f] = events[f] /\ peer'[f] = peer[f]
    BY <1>0, <2>1 DEF TypeOK
  <2> QED
    BY <1>a, <1>b, <1>c, <1>e, <2>1, <2>2
<1>7. ASSUME NEW g \in Fds, InEvent(g) PROVE ForgottenBehindFrame'
  <2>1. /\ events' = [events EXCEPT ![g] = {}] /\ pc = "loop" /\ pc' = "peek" /\ curfd' = g
        /\ UNCHANGED <<peer, ready, ended, arrived, pos, frames>>
    BY <1>7 DEF InEvent, netVars, readVars, connVars
  <2>2. \A f \in Fds : f # g => events'[f] = events[f]
    BY <1>0, <2>1 DEF TypeOK
  <2> QED
    BY <1>a, <1>b, <1>c, <1>e, <2>1, <2>2
<1>8. CASE PeekSome \/ UNCHANGED vars
  BY <1>1, <1>8 DEF PeekSome, vars, netVars, readVars, connVars, loopVars
<1>9. CASE Sized
  <2>1. /\ pc' = "recv"
        /\ UNCHANGED <<peer, ready, events, curfd, ended, arrived, pos, frames>>
    BY <1>9 DEF Sized, netVars, readVars, connVars
  <2>2. pc = "peek"
    BY <1>9 DEF Sized
  <2> QED
    BY <1>a, <1>b, <1>c, <1>e, <2>1, <2>2
<1>10. CASE PeekEnds
  <2>1. /\ pc = "peek" /\ ready' = ready \ {curfd} /\ peer' = [peer EXCEPT ![curfd] = None]
        /\ UNCHANGED <<events, ended, arrived, pos, frames>>
    BY <1>10 DEF PeekEnds, Drop, Returned, netVars, readVars
  <2>2. curfd \in Fds
    BY <2>1, CurrentOnce
  <2>3. peer'[curfd] = None /\ \A f \in Fds : f # curfd => peer'[f] = peer[f]
    BY <1>0, <2>1, <2>2 DEF TypeOK
  <2> QED
    BY <1>a, <1>b, <1>c, <1>e, <2>1, <2>2, <2>3
<1>11. CASE RecvPack
  <2>1. pc = "recv" /\ UNCHANGED <<peer, ready, events, ended, arrived>>
    BY <1>11 DEF RecvPack, netVars, connVars
  <2>2. /\ Current \in Clients /\ Current = peer[curfd] /\ curfd \in Fds
        /\ \A f \in Fds : peer[f] = Current => f = curfd
    BY <2>1, CurrentOnce
  <2>3. /\ \A c \in Clients : c # Current => pos'[c] = pos[c] /\ frames'[c] = frames[c]
        /\ frames'[Current] # <<>>
    BY <1>0, <1>11, RecvPackEffect, AppendProperties DEF TypeOK
  <2> QED
    BY <1>a, <1>b, <1>c, <1>e, <2>1, <2>2, <2>3
<1>12. CASE Ends
  BY <1>12, <1>e DEF Ends
<1> QED
  BY <1>2, <1>3, <1>4, <1>5, <1>6, <1>7, <1>8, <1>9, <1>10, <1>11, <1>12, StepCases

-----------------------------------------------------------------------------
(* Reading. *)

\* A stream only gets longer.
LEMMA SentLonger ==
  ASSUME IInv, [Next]_vars, NEW c \in Clients
  PROVE  \A i \in 1..Len(sent[c]) : i \in 1..Len(sent'[c]) /\ sent'[c][i] = sent[c][i]
<1>1. CASE \A d \in Clients : ~Writes(d)
  BY <1>1, SentKept
<1>2. ASSUME NEW d \in Clients, Writes(d)
      PROVE  \A i \in 1..Len(sent[c]) : i \in 1..Len(sent'[c]) /\ sent'[c][i] = sent[c][i]
  BY <1>2, WriteFacts
<1> QED
  BY <1>1, <1>2

\* A packet that disagrees with itself stays in the stream.
LEMMA ReadableBefore ==
  ASSUME IInv, [Next]_vars, NEW c \in Clients, Readable(c)'
  PROVE  Readable(c)
<1>1. /\ \A i \in 1..Len(sent'[c]) : sent'[c][i].type = sent'[c][i].size
      /\ WholeWords(c)
  BY DEF Readable, Agreeing, WholeWords
<1> QED
  BY <1>1, SentLonger DEF Readable, Agreeing

\* Only recvmsgn reads.
LEMMA ReadsOnce ==
  ASSUME IInv, [Next]_vars, ~RecvPack
  PROVE  UNCHANGED readVars
<1>0. TypeOK
  BY DEF IInv
<1>1. ASSUME NEW c \in Clients,
             Connect(c) \/ Writes(c) \/ Leaves(c) \/ Deliver(c) \/ DeliverFin(c) \/ Reset(c)
      PROVE  UNCHANGED readVars
  BY <1>0, <1>1, WriteAppends DEF Connect, Leaves, Deliver, DeliverFin, Reset
<1>2. CASE EpollWait \/ AcceptEvent \/ PeekSome \/ Sized \/ PeekEnds \/ Ends \/ UNCHANGED vars
  BY <1>2 DEF EpollWait, AcceptEvent, PeekSome, Sized, PeekEnds, Ends, vars
<1>3. ASSUME NEW f \in Fds, HupEvent(f) \/ InEvent(f) PROVE UNCHANGED readVars
  BY <1>3 DEF HupEvent, InEvent
<1> QED
  BY <1>1, <1>2, <1>3, StepCases

\* The server stands at the start of the next packet, if there is one, and
\* there is one if anything is left to read.
LEMMA NextPlace ==
  ASSUME IInv, NEW c \in Clients, Readable(c)
  PROVE  LET n == Len(frames[c]) + 1
         IN  /\ Len(frames[c]) \in Nat
             /\ frames[c] = <<>> <=> Len(frames[c]) = 0
             /\ n <= Len(sent[c]) => n \in 1..Len(sent[c]) /\ pos[c] = sent[c][n].at
             /\ arrived[c] > pos[c] => n <= Len(sent[c])
<1> DEFINE m == Len(frames[c])
<1>0. TypeOK /\ Laid /\ Streamed
  BY DEF IInv
<1>1. /\ m \in Nat /\ (frames[c] = <<>> <=> m = 0)
      /\ Len(sent[c]) \in Nat /\ (sent[c] = <<>> <=> Len(sent[c]) = 0)
  BY <1>0, LenProperties, EmptySeq DEF TypeOK
<1>2. m <= Len(sent[c]) /\ pos[c] = IF frames[c] = <<>> THEN 0 ELSE End(sent[c][m])
  BY DEF IInv, ReadableFramed, ReadPlace
<1>3. ASSUME m + 1 <= Len(sent[c])
      PROVE  m + 1 \in 1..Len(sent[c]) /\ pos[c] = sent[c][m + 1].at
  <2>1. m + 1 \in 1..Len(sent[c])
    BY <1>1, <1>3
  <2>2. CASE m = 0
    BY <1>0, <1>1, <1>2, <2>1, <2>2 DEF Laid
  <2>3. CASE m # 0
    <3>1. m \in 1..Len(sent[c]) - 1
      BY <1>1, <1>3, <2>3
    <3> QED
      BY <1>0, <1>1, <1>2, <2>1, <2>3, <3>1 DEF Laid
  <2> QED
    BY <2>1, <2>2, <2>3
<1>4. ASSUME arrived[c] > pos[c] PROVE m + 1 <= Len(sent[c])
  <2>1. /\ pos[c] \in Nat /\ arrived[c] \in Nat /\ written[c] \in Nat /\ StreamEnd(c) \in Nat
        /\ arrived[c] <= written[c] /\ written[c] <= StreamEnd(c)
    BY <1>0, StreamEndType DEF TypeOK, Streamed
  <2>2. StreamEnd(c) > pos[c]
    BY <1>4, <2>1
  <2>3. m # Len(sent[c])
    <3> SUFFICES ASSUME m = Len(sent[c]) PROVE FALSE
      OBVIOUS
    <3>1. StreamEnd(c) = pos[c]
      BY <1>0, <1>1, <1>2, StreamEndType
    <3> QED
      BY <2>1, <2>2, <3>1
  <2> QED
    BY <1>1, <1>2, <2>3
<1> QED
  BY <1>1, <1>3, <1>4

\* A piece of a readable stream that ends in a packet ends behind its first word.
LEMMA WordHasArrived ==
  ASSUME IInv, NEW c \in Clients, Readable(c), arrived[c] > pos[c]
  PROVE  Avail(c) >= Word
<1> DEFINE n == Len(frames[c]) + 1
<1>0. TypeOK /\ Laid /\ Streamed
  BY DEF IInv
<1>1. n \in 1..Len(sent[c]) /\ pos[c] = sent[c][n].at
  BY NextPlace
<1>2. pos[c] \in Nat /\ arrived[c] \in Nat
  BY <1>0 DEF TypeOK
<1>3. PICK i \in 1..Len(sent[c]) :
        arrived[c] = End(sent[c][i])
          \/ \E k \in Cuts[c] : arrived[c] = sent[c][i].at + k /\ arrived[c] < End(sent[c][i])
  BY <1>0, <1>2 DEF Streamed, Stops
<1> HIDE DEF n
<1>4. /\ End(sent[c][i]) \in Nat /\ sent[c][i].at \in Nat
      /\ End(sent[c][i]) >= sent[c][i].at + Header
      /\ End(sent[c][n]) \in Nat
      /\ End(sent[c][n]) >= sent[c][n].at + Header
  <2>1. \A j \in 1..Len(sent[c]) :
          /\ End(sent[c][j]) \in Nat /\ sent[c][j].at \in Nat
          /\ End(sent[c][j]) >= sent[c][j].at + Header
    <3> TAKE j \in 1..Len(sent[c])
    <3>1. /\ sent[c][j].at \in Nat /\ Size(sent[c][j]) \in Nat /\ Size(sent[c][j]) >= Header
      BY <1>0, PacketSize
    <3>2. ASSUME NEW a \in Nat, NEW z \in Nat, z >= Header
          PROVE  a + z \in Nat /\ a + z >= a + Header
      BY <3>2 DEF Header, Word
    <3> QED
      BY <3>1, <3>2 DEF End
  <2> QED
    BY <1>1, <2>1
<1>5. \A k \in Cuts[c] : k \in Nat /\ k >= Word
  BY TcpAssumption DEF Readable, WholeWords, Word
<1>6. /\ arrived[c] <= End(sent[c][i]) /\ arrived[c] >= sent[c][i].at + Word
  <2>1. CASE arrived[c] = End(sent[c][i])
    <3>1. ASSUME NEW a \in Nat, NEW b \in Nat, b >= a + Header PROVE b <= b /\ b >= a + Word
      BY <3>1 DEF Header, Word
    <3> QED
      BY <1>4, <2>1, <3>1
  <2>2. ASSUME NEW k \in Cuts[c], arrived[c] = sent[c][i].at + k, arrived[c] < End(sent[c][i])
        PROVE  arrived[c] <= End(sent[c][i]) /\ arrived[c] >= sent[c][i].at + Word
    <3>1. ASSUME NEW a \in Nat, NEW b \in Nat, NEW l \in Nat, l >= Word, a + l < b
          PROVE  a + l <= b /\ a + l >= a + Word
      BY <3>1 DEF Word
    <3> QED
      BY <1>4, <1>5, <2>2, <3>1
  <2> QED
    BY <1>3, <2>1, <2>2
<1>7. Header = 8 /\ Word = 4
  BY DEF Header, Word
<1>8. CASE i < n
  <2>1. End(sent[c][i]) <= sent[c][n].at
    BY <1>0, <1>1, <1>8 DEF Laid
  <2> QED
    BY <1>1, <1>2, <1>4, <1>6, <2>1
<1>9. CASE i = n
  BY <1>1, <1>2, <1>6, <1>7, <1>9 DEF Avail
<1>10. CASE n < i
  <2>1. End(sent[c][n]) <= sent[c][i].at
    BY <1>0, <1>1, <1>10 DEF Laid
  <2>2. ASSUME NEW a \in Nat, NEW e \in Nat, NEW b \in Nat, NEW r \in Nat,
               e >= a + 8, e <= b, r >= b + 4
        PROVE  r - a >= 4
    BY <2>2
  <2> QED
    BY <1>1, <1>2, <1>4, <1>6, <1>7, <2>1, <2>2 DEF Avail
<1> QED
  BY <1>1, <1>8, <1>9, <1>10

\* What the server finds there: the type, and behind it the length.
LEMMA HeaderBytes ==
  ASSUME IInv, NEW c \in Clients, Readable(c), Len(frames[c]) + 1 <= Len(sent[c])
  PROVE  LET p == sent[c][Len(frames[c]) + 1]
         IN  /\ Byte(c, pos[c] + 1) = p.type
             /\ \A k \in 2..4 : Byte(c, pos[c] + k) = 0
             /\ WordAt(c, pos[c] + Word) = p.size
<1> DEFINE n == Len(frames[c]) + 1
<1> DEFINE p == sent[c][n]
<1>0. TypeOK /\ Laid
  BY DEF IInv
<1>1. n \in 1..Len(sent[c]) /\ pos[c] = p.at
  BY NextPlace
<1>2. p.at \in Nat /\ End(p) \in Nat /\ End(p) >= p.at + 8
  <2>1. /\ p.at \in Nat /\ Size(p) \in Nat /\ Size(p) >= Header /\ End(p) \in Nat
    BY <1>0, <1>1, PacketSize
  <2> QED
    BY <2>1 DEF End, Header, Word
<1> HIDE DEF n
<1>3. ASSUME NEW k \in 1..8
      PROVE  Byte(c, pos[c] + k) = IF k = 1 THEN p.type ELSE IF k = 5 THEN p.size ELSE 0
  <2>1. pos[c] + k \in Nat /\ p.at < pos[c] + k /\ pos[c] + k <= End(p)
    BY <1>1, <1>2
  <2>2. Byte(c, pos[c] + k) = IF pos[c] + k = p.at + 1 THEN p.type
                              ELSE IF pos[c] + k = p.at + Word + 1 THEN p.size
                              ELSE IF pos[c] + k <= p.at + Header THEN 0
                              ELSE Letter
    BY <1>0, <1>1, <2>1, ByteOf
  <2>3. ASSUME NEW a \in Nat
        PROVE  /\ (a + k = a + 1) <=> k = 1
               /\ (a + k = a + Word + 1) <=> k = 5
               /\ a + k <= a + Header
    BY DEF Word, Header
  <2> QED
    BY <1>1, <1>2, <2>2, <2>3
<1>4. \A k \in 2..4 : k \in 1..8 /\ k # 1 /\ k # 5
  OBVIOUS
<1>5. Byte(c, pos[c] + 1) = p.type /\ \A k \in 2..4 : Byte(c, pos[c] + k) = 0
  BY <1>3, <1>4
<1>6. WordAt(c, pos[c] + Word) = p.size
  <2>1. /\ pos[c] + Word + 1 = pos[c] + 5 /\ pos[c] + Word + 2 = pos[c] + 6
        /\ pos[c] + Word + 3 = pos[c] + 7 /\ pos[c] + Word + 4 = pos[c] + 8
    <3>1. \A a \in Nat : /\ a + Word + 1 = a + 5 /\ a + Word + 2 = a + 6
                        /\ a + Word + 3 = a + 7 /\ a + Word + 4 = a + 8
      BY DEF Word
    <3> QED
      BY <1>1, <1>2, <3>1
  <2>2. /\ Byte(c, pos[c] + 5) = p.size /\ Byte(c, pos[c] + 6) = 0
        /\ Byte(c, pos[c] + 7) = 0 /\ Byte(c, pos[c] + 8) = 0
    BY <1>3
  <2> QED
    BY <2>1, <2>2 DEF WordAt, Value
<1> QED
  BY <1>5, <1>6 DEF n

\* The frame that recvmsgn takes of a readable stream is its next packet.
LEMMA RecvPackReadable ==
  ASSUME IInv, RecvPack, Readable(Current)
  PROVE  LET c == Current
             n == Len(frames[c]) + 1
         IN  /\ n \in 1..Len(sent[c])
             /\ Len(frames'[c]) = n /\ frames'[c] # <<>>
             /\ \A i \in 1..Len(frames[c]) : frames'[c][i] = frames[c][i]
             /\ frames'[c][n] = [at |-> sent[c][n].at, len |-> Size(sent[c][n])]
             /\ pos'[c] = End(sent[c][n])
             /\ header' = header
<1> DEFINE c == Current
<1> DEFINE n == Len(frames[c]) + 1
<1>0. TypeOK
  BY DEF IInv
<1>1. c \in Clients /\ c # None
  BY CurrentOnce DEF RecvPack
<1>2. n <= Len(sent[c]) /\ header = sent[c][n].size
  BY <1>1 DEF IInv, PeekPlace, RecvPack
<1>3. n \in 1..Len(sent[c]) /\ pos[c] = sent[c][n].at
  BY <1>1, <1>2, NextPlace
<1>4. Header + header = Size(sent[c][n])
  BY <1>2 DEF Size
<1>5. /\ pos' = [pos EXCEPT ![c] = @ + (Header + header)]
      /\ frames' = [frames EXCEPT ![c] = Append(@, [at |-> pos[c], len |-> Header + header])]
      /\ frames[c] \in Seq([at : Nat, len : Nat])
      /\ [at |-> pos[c], len |-> Header + header] \in [at : Nat, len : Nat]
      /\ header' = WordAt(c, pos[c] + Word)
  BY RecvPackEffect
<1>6. pos'[c] = pos[c] + Size(sent[c][n])
      /\ frames'[c] = Append(frames[c], [at |-> pos[c], len |-> Header + header])
  BY <1>0, <1>1, <1>4, <1>5 DEF TypeOK
<1>7. /\ Len(frames'[c]) = n /\ frames'[c] # <<>>
      /\ \A i \in 1..Len(frames[c]) : frames'[c][i] = frames[c][i]
      /\ frames'[c][n] = [at |-> pos[c], len |-> Header + header]
  BY <1>5, <1>6, AppendProperties
<1>8. header' = header
  BY <1>1, <1>2, <1>5, HeaderBytes
<1> QED
  BY <1>3, <1>4, <1>6, <1>7, <1>8 DEF End

\* The frames follow the packets, and so does the place of the server.
LEMMA ReadStep == IInv /\ [Next]_vars => ReadPlace' /\ ReadableFramed'
<1> SUFFICES ASSUME IInv, [Next]_vars, NEW c \in Clients, Readable(c)'
             PROVE  /\ pos'[c] = IF frames'[c] = <<>> THEN 0 ELSE End(sent'[c][Len(frames'[c])])
                    /\ Len(frames'[c]) <= Len(sent'[c])
                    /\ \A i \in 1..Len(frames'[c]) :
                         frames'[c][i] = [at |-> sent'[c][i].at, len |-> Size(sent'[c][i])]
  BY DEF ReadPlace, ReadableFramed
<1>0. TypeOK /\ TypeOK'
  BY TypeStep DEF IInv
<1>1. Readable(c)
  BY ReadableBefore
<1>2. /\ pos[c] = IF frames[c] = <<>> THEN 0 ELSE End(sent[c][Len(frames[c])])
      /\ Len(frames[c]) <= Len(sent[c])
      /\ \A i \in 1..Len(frames[c]) :
           frames[c][i] = [at |-> sent[c][i].at, len |-> Size(sent[c][i])]
      /\ Len(frames[c]) \in Nat /\ (frames[c] = <<>> <=> Len(frames[c]) = 0)
      /\ Len(sent[c]) \in Nat /\ Len(sent'[c]) \in Nat
  BY <1>0, <1>1, NextPlace, LenProperties DEF IInv, ReadPlace, ReadableFramed, TypeOK
<1>3. \A i \in 1..Len(sent[c]) : i \in 1..Len(sent'[c]) /\ sent'[c][i] = sent[c][i]
  BY SentLonger
<1>4. \A i \in 1..Len(frames[c]) : i \in 1..Len(sent[c])
  BY <1>2
<1>5. CASE pos'[c] = pos[c] /\ frames'[c] = frames[c]
  <2>1. CASE Len(frames[c]) = 0
    BY <1>2, <1>5, <2>1
  <2>2. CASE Len(frames[c]) # 0
    <3>1. Len(frames[c]) \in 1..Len(frames[c])
      BY <1>2, <2>2
    <3>2. Len(frames[c]) \in 1..Len(sent'[c])
      BY <1>3, <1>4, <3>1
    <3> QED
      BY <1>2, <1>3, <1>4, <1>5, <3>1, <3>2
  <2> QED
    BY <2>1, <2>2
<1>6. CASE RecvPack /\ c = Current
  <2> DEFINE n == Len(frames[c]) + 1
  <2>1. /\ n \in 1..Len(sent[c])
        /\ Len(frames'[c]) = n /\ frames'[c] # <<>>
        /\ \A i \in 1..Len(frames[c]) : frames'[c][i] = frames[c][i]
        /\ frames'[c][n] = [at |-> sent[c][n].at, len |-> Size(sent[c][n])]
        /\ pos'[c] = End(sent[c][n])
    BY <1>1, <1>6, RecvPackReadable
  <2>2. \A i \in 1..n : i \in 1..Len(frames[c]) \/ i = n
    BY <1>2
  <2>3. \A i \in 1..Len(frames'[c]) :
          frames'[c][i] = [at |-> sent'[c][i].at, len |-> Size(sent'[c][i])]
    BY <1>2, <1>3, <1>4, <2>1, <2>2
  <2>4. n <= Len(sent'[c]) /\ sent'[c][n] = sent[c][n]
    BY <1>2, <1>3, <2>1
  <2> QED
    BY <2>1, <2>3, <2>4
<1>7. CASE RecvPack /\ c # Current
  <2>1. pos'[c] = pos[c] /\ frames'[c] = frames[c]
    BY <1>0, <1>7, RecvPackEffect DEF TypeOK
  <2> QED
    BY <1>5, <2>1
<1>8. CASE ~RecvPack
  BY <1>5, <1>8, ReadsOnce DEF readVars
<1> QED
  BY <1>6, <1>7, <1>8

\* What has been peeked of a readable stream is its next header, from the
\* first recv on.
LEMMA PeekedReadable ==
  ASSUME IInv, PeekSome, Readable(Current)
  PROVE  LET c == Current
             n == Len(frames[c]) + 1
         IN  /\ n \in 1..Len(sent[c])
             /\ Len(peeked') >= Word
             /\ peeked'[1] = sent[c][n].type
             /\ peeked'[2] = 0 /\ peeked'[3] = 0 /\ peeked'[4] = 0
<1> DEFINE c == Current
<1> DEFINE n == Len(frames[c]) + 1
<1> DEFINE k == Least(Header - Len(peeked), Avail(c))
<1>1. c \in Clients /\ c # None /\ pc = "peek"
  BY CurrentOnce DEF PeekSome
<1>2. /\ k \in 1..Header /\ k <= Avail(c) /\ Len(peeked) \in 0..Header
      /\ Len(peeked') = Len(peeked) + k
      /\ \A i \in 1..Len(peeked) : peeked'[i] = peeked[i]
      /\ \A i \in 1..k : peeked'[Len(peeked) + i] = Byte(c, pos[c] + i)
  BY PeekSomeEffect
<1>3. arrived[c] > pos[c]
  BY <1>1, <1>2 DEF Avail, IInv, TypeOK
<1>4. n \in 1..Len(sent[c]) /\ n <= Len(sent[c])
  BY <1>1, <1>3, NextPlace
<1>5. CASE peeked = <<>>
  <2>1. Len(peeked) = 0
    BY <1>5, EmptySeq
  <2>2. k >= Word
    BY <1>1, <1>3, <2>1, WordHasArrived DEF Least, Header, Word
  <2>3. 1 \in 1..k /\ 2 \in 1..k /\ 3 \in 1..k /\ 4 \in 1..k
    BY <1>2, <2>2 DEF Word
  <2>4. \A i \in 1..k : peeked'[i] = Byte(c, pos[c] + i)
    BY <1>2, <2>1
  <2>5. /\ Byte(c, pos[c] + 1) = sent[c][n].type
        /\ \A i \in 2..4 : Byte(c, pos[c] + i) = 0
    BY <1>1, <1>4, HeaderBytes
  <2>6. Byte(c, pos[c] + 2) = 0 /\ Byte(c, pos[c] + 3) = 0 /\ Byte(c, pos[c] + 4) = 0
    BY <2>5
  <2>7. Len(peeked') >= Word
    BY <1>2, <2>1, <2>2
  <2> HIDE DEF k
  <2> QED
    BY <1>4, <2>3, <2>4, <2>5, <2>6, <2>7
<1>6. CASE peeked # <<>>
  <2>1. /\ Len(peeked) >= Word
        /\ peeked[1] = sent[c][n].type
        /\ peeked[2] = 0 /\ peeked[3] = 0 /\ peeked[4] = 0
    BY <1>1, <1>6 DEF IInv, PeekPlace
  <2>2. /\ 1 \in 1..Len(peeked) /\ 2 \in 1..Len(peeked)
        /\ 3 \in 1..Len(peeked) /\ 4 \in 1..Len(peeked)
    BY <1>2, <2>1 DEF Word
  <2>3. Len(peeked') >= Word
    BY <1>2, <2>1 DEF Word, Header
  <2> QED
    BY <1>2, <1>4, <2>1, <2>2, <2>3
<1> QED
  BY <1>5, <1>6

\* The length taken from the peek is that of the next packet.
LEMMA SizedReadable ==
  ASSUME IInv, pc = "peek", Len(peeked) = Header, Readable(Current)
  PROVE  LET c == Current
             n == Len(frames[c]) + 1
         IN  /\ n \in 1..Len(sent[c])
             /\ Value(peeked[1], peeked[2], peeked[3], peeked[4]) = sent[c][n].size
             /\ sent[c][n].size # Huge
<1> DEFINE c == Current
<1> DEFINE n == Len(frames[c]) + 1
<1>0. TypeOK
  BY DEF IInv
<1>1. c \in Clients /\ c # None
  BY CurrentOnce
<1>2. peeked # <<>>
  BY EmptySeq DEF Header, Word
<1>3. /\ n <= Len(sent[c])
      /\ peeked[1] = sent[c][n].type
      /\ peeked[2] = 0 /\ peeked[3] = 0 /\ peeked[4] = 0
  BY <1>1, <1>2 DEF IInv, PeekPlace
<1>4. n \in 1..Len(sent[c])
  BY <1>1, <1>3, NextPlace
<1>5. sent[c][n].type = sent[c][n].size
  BY <1>4 DEF Readable, Agreeing
<1>6. sent[c][n].size \in Bytes
  BY <1>0, <1>1, <1>4, PacketSize
<1>7. sent[c][n].size # Huge
  <2>1. \A b \in Bytes : b # Huge
    BY DEF Bytes, Huge
  <2> QED
    BY <1>6, <2>1
<1> QED
  BY <1>3, <1>4, <1>5, <1>7 DEF Value

\* Outside of in_epoll_recvmsg nothing moves the thread into it.
LEMMA LoopKept ==
  ASSUME IInv, [Next]_vars, pc' \in {"peek", "recv"}
  PROVE  \/ \E f \in Fds : InEvent(f)
         \/ PeekSome \/ Sized
         \/ UNCHANGED <<pc, curfd, peer, peeked, header, room, pos, frames>>
<1>0. TypeOK
  BY DEF IInv
<1>1. ASSUME NEW c \in Clients,
             Connect(c) \/ Writes(c) \/ Leaves(c) \/ Deliver(c) \/ DeliverFin(c) \/ Reset(c)
      PROVE  UNCHANGED <<pc, curfd, peer, peeked, header, room, pos, frames>>
  BY <1>0, <1>1, WriteAppends
     DEF Connect, Leaves, Deliver, DeliverFin, Reset, readVars, connVars, loopVars, packVars
<1>2. ASSUME EpollWait \/ Ends PROVE FALSE
  BY <1>2 DEF EpollWait, Ends
<1>3. ASSUME AcceptEvent \/ PeekEnds \/ RecvPack PROVE FALSE
  BY <1>3, AfterType DEF AcceptEvent, PeekEnds, RecvPack, Processed, Returned
<1>4. ASSUME NEW f \in Fds, HupEvent(f) PROVE FALSE
  BY <1>4, AfterType DEF HupEvent, Processed
<1>5. CASE UNCHANGED vars
  BY <1>5 DEF vars, readVars, connVars, loopVars, packVars
<1> QED
  BY <1>1, <1>2, <1>3, <1>4, <1>5, StepCases

\* What is peeked and what is waited for stay those of the next packet.
LEMMA PeekPlaceStep == IInv /\ [Next]_vars => PeekPlace'
<1> SUFFICES ASSUME IInv, [Next]_vars, NEW d, d = Current', pc' \in {"peek", "recv"},
                    d # None, Readable(d)'
             PROVE  /\ pc' = "peek" /\ peeked' # <<>> =>
                         /\ Len(frames'[d]) + 1 <= Len(sent'[d])
                         /\ Len(peeked') >= Word
                         /\ peeked'[1] = sent'[d][Len(frames'[d]) + 1].type
                         /\ peeked'[2] = 0 /\ peeked'[3] = 0 /\ peeked'[4] = 0
                    /\ pc' = "recv" =>
                         /\ Len(frames'[d]) + 1 <= Len(sent'[d])
                         /\ header' = sent'[d][Len(frames'[d]) + 1].size
  <2>1. PICK d : d = Current'
    OBVIOUS
  <2>2. Readable(Current)' => Readable(d)'
    BY <2>1 DEF Readable, Agreeing, WholeWords
  <2> QED
    BY <2>1, <2>2 DEF PeekPlace
<1>1. CASE \E f \in Fds : InEvent(f)
  BY <1>1 DEF InEvent
<1>a. ASSUME pc \in {"peek", "recv"}, UNCHANGED <<peer, curfd>>
      PROVE  d = Current /\ d \in Clients /\ Readable(d)
  <2>1. d = Current
    BY <1>a DEF Current
  <2> QED
    BY <1>a, <2>1, CurrentOnce, ReadableBefore
<1>2. CASE UNCHANGED <<pc, curfd, peer, peeked, header, room, pos, frames>>
  <2> DEFINE n == Len(frames[d]) + 1
  <2>1. d = Current /\ d \in Clients /\ Readable(d)
    BY <1>2, <1>a
  <2>2. /\ pc = "peek" /\ peeked # <<>> =>
             /\ n <= Len(sent[d])
             /\ Len(peeked) >= Word
             /\ peeked[1] = sent[d][n].type
             /\ peeked[2] = 0 /\ peeked[3] = 0 /\ peeked[4] = 0
        /\ pc = "recv" =>
             /\ n <= Len(sent[d])
             /\ header = sent[d][n].size
    BY <2>1 DEF IInv, PeekPlace
  <2>3. n <= Len(sent[d]) => n <= Len(sent'[d]) /\ sent'[d][n] = sent[d][n]
    <3> SUFFICES ASSUME n <= Len(sent[d]) PROVE n <= Len(sent'[d]) /\ sent'[d][n] = sent[d][n]
      OBVIOUS
    <3>1. n \in 1..Len(sent[d])
      BY <2>1, NextPlace
    <3>2. n \in 1..Len(sent'[d]) /\ sent'[d][n] = sent[d][n]
      BY <2>1, <3>1, SentLonger
    <3>3. Len(sent'[d]) \in Nat
      BY <2>1, TypeStep, LenProperties DEF TypeOK
    <3> QED
      BY <3>2, <3>3
  <2> HIDE DEF n
  <2>4. frames'[d] = frames[d] /\ pc' = pc /\ peeked' = peeked /\ header' = header
    BY <1>2
  <2> QED
    BY <2>2, <2>3, <2>4 DEF n
<1>3. CASE PeekSome
  <2>1. pc = "peek" /\ pc' = "peek" /\ UNCHANGED <<peer, curfd, sent, frames>>
    BY <1>3 DEF PeekSome, netVars, readVars, connVars, loopVars
  <2>2. d = Current /\ d \in Clients /\ Readable(d)
    BY <1>a, <2>1
  <2>3. /\ Len(frames[d]) + 1 \in 1..Len(sent[d])
        /\ Len(peeked') >= Word
        /\ peeked'[1] = sent[d][Len(frames[d]) + 1].type
        /\ peeked'[2] = 0 /\ peeked'[3] = 0 /\ peeked'[4] = 0
    BY <1>3, <2>2, PeekedReadable
  <2>4. Len(sent[d]) \in Nat
    BY <2>2, LenProperties DEF IInv, TypeOK
  <2> QED
    BY <2>1, <2>3, <2>4
<1>4. CASE Sized
  <2>1. /\ pc = "peek" /\ Len(peeked) = Header /\ pc' = "recv"
        /\ header' = Value(peeked[1], peeked[2], peeked[3], peeked[4])
        /\ UNCHANGED <<peer, curfd, sent, frames>>
    BY <1>4 DEF Sized, netVars, readVars, connVars
  <2>2. d = Current /\ d \in Clients /\ Readable(d)
    BY <1>a, <2>1
  <2>3. /\ Len(frames[d]) + 1 \in 1..Len(sent[d])
        /\ header' = sent[d][Len(frames[d]) + 1].size
    BY <2>1, <2>2, SizedReadable
  <2>4. Len(sent[d]) \in Nat
    BY <2>2, LenProperties DEF IInv, TypeOK
  <2> QED
    BY <2>1, <2>3, <2>4
<1> QED
  BY <1>1, <1>2, <1>3, <1>4, LoopKept

-----------------------------------------------------------------------------
(* packet_, and the end of the process. *)

\* A stream that is unreadable after a frame stays so.
LEMMA UnreadableStays ==
  ASSUME IInv, [Next]_vars, \E c \in Clients : frames[c] # <<>> /\ ~Readable(c)
  PROVE  \E c \in Clients : frames'[c] # <<>> /\ ~Readable(c)'
<1>1. PICK c \in Clients : frames[c] # <<>> /\ ~Readable(c)
  OBVIOUS
<1>2. ~Readable(c)'
  BY <1>1, ReadableBefore
<1>3. frames'[c] # <<>>
  <2>1. CASE RecvPack
    <3>1. /\ frames' = [frames EXCEPT ![Current] =
                          Append(@, [at |-> pos[Current], len |-> Header + header])]
          /\ frames[Current] \in Seq([at : Nat, len : Nat])
          /\ [at |-> pos[Current], len |-> Header + header] \in [at : Nat, len : Nat]
          /\ Current \in Clients
      BY <2>1, RecvPackEffect
    <3>2. Append(frames[Current], [at |-> pos[Current], len |-> Header + header]) # <<>>
      BY <3>1, AppendProperties
    <3>3. frames \in [Clients -> Seq([at : Nat, len : Nat])]
      BY DEF IInv, TypeOK
    <3> QED
      BY <1>1, <3>1, <3>2, <3>3
  <2>2. CASE ~RecvPack
    BY <1>1, <2>2, ReadsOnce DEF readVars
  <2> QED
    BY <2>1, <2>2
<1> QED
  BY <1>2, <1>3

\* The length in packet_ outgrows it only by a frame of an unreadable stream.
LEMMA RoomKeptStep == IInv /\ [Next]_vars => RoomKept'
<1> SUFFICES ASSUME IInv, [Next]_vars PROVE RoomKept'
  OBVIOUS
<1>0. TypeOK /\ RoomKept /\ Slack \in Nat
  BY TcpAssumption DEF IInv
<1>a. header \in Int /\ room \in Int /\ header' \in Int /\ room' \in Int
  <2>1. 0..Huge \subseteq Int
    BY DEF Huge
  <2>2. TypeOK'
    BY TypeStep
  <2>3. header \in 0..Huge /\ room \in 0..Huge /\ header' \in 0..Huge /\ room' \in 0..Huge
    BY <1>0, <2>2 DEF TypeOK
  <2> QED
    BY <2>1, <2>3
<1>b. \A h, r \in Int : h > Most(r, Slack) => h > r /\ h > 0
  BY <1>0 DEF Most
<1>c. Overrun \/ damaged => \E c \in Clients : frames'[c] # <<>> /\ ~Readable(c)'
  BY <1>0, UnreadableStays DEF RoomKept
<1>1. ASSUME UNCHANGED <<header, room, damaged>>, pc' = "recv" => pc = "recv" PROVE RoomKept'
  <2>1. Overrun' => Overrun
    BY <1>1 DEF Overrun
  <2>2. pc' = "recv" => room' = header'
    BY <1>0, <1>1 DEF RoomKept
  <2> QED
    BY <1>1, <1>c, <2>1, <2>2 DEF RoomKept
<1>2. CASE \E f \in Fds : InEvent(f)
  <2>1. pc' = "peek" /\ header' = 0 /\ damaged' = (damaged \/ Overrun)
    BY <1>2 DEF InEvent
  <2>2. ~Overrun'
    BY <1>a, <1>b, <2>1 DEF Overrun
  <2>3. damaged' => damaged \/ Overrun
    BY <2>1
  <2> QED
    BY <1>c, <2>1, <2>2, <2>3 DEF RoomKept
<1>3. CASE Sized
  <2>1. header' = room' /\ damaged' = damaged
    BY <1>3 DEF Sized
  <2>2. ~Overrun'
    BY <1>a, <1>b, <2>1 DEF Overrun
  <2> QED
    BY <1>c, <2>1, <2>2 DEF RoomKept
<1>4. CASE RecvPack
  <2>1. /\ pc = "recv" /\ pc' \in {"wait", "loop"} /\ room' = room /\ sent' = sent
        /\ damaged' = damaged
    BY <1>4, AfterType DEF RecvPack, Returned, netVars
  <2>2. PICK c \in Clients : c = Current
    BY <2>1, CurrentOnce
  <2>3. room = header
    BY <1>0, <2>1 DEF RoomKept
  <2>4. CASE Readable(c)
    <3>1. header' = room'
      BY <1>4, <2>1, <2>2, <2>4, <2>3, RecvPackReadable
    <3>2. ~Overrun'
      BY <1>a, <1>b, <3>1 DEF Overrun
    <3> QED
      BY <1>c, <2>1, <3>2 DEF RoomKept
  <2>5. CASE ~Readable(c)
    <3>1. ~Readable(c)'
      BY <2>2, <2>5, ReadableBefore
    <3>2. frames'[c] # <<>>
      BY <1>0, <1>4, <2>2, RecvPackEffect, AppendProperties DEF TypeOK
    <3> QED
      BY <2>1, <2>2, <3>1, <3>2 DEF RoomKept
  <2> QED
    BY <2>4, <2>5
<1>5. CASE PeekSome
  BY <1>1, <1>5 DEF PeekSome, loopVars
<1>6. CASE EpollWait \/ AcceptEvent \/ PeekEnds
  BY <1>1, <1>6, AfterType DEF EpollWait, AcceptEvent, PeekEnds, Processed, Returned, packVars
<1>7. ASSUME NEW f \in Fds, HupEvent(f) PROVE RoomKept'
  BY <1>1, <1>7, AfterType DEF HupEvent, Processed, packVars
<1>8. ASSUME NEW d \in Clients,
             Connect(d) \/ Writes(d) \/ Leaves(d) \/ Deliver(d) \/ DeliverFin(d) \/ Reset(d)
      PROVE  RoomKept'
  <2>1. UNCHANGED <<pc, header, room, damaged>>
    BY <1>0, <1>8, WriteAppends
       DEF Connect, Leaves, Deliver, DeliverFin, Reset, loopVars, packVars
  <2> QED
    BY <1>1, <2>1
<1>9. CASE Ends \/ UNCHANGED vars
  BY <1>1, <1>9 DEF Ends, vars, loopVars, packVars
<1> QED
  BY <1>2, <1>3, <1>4, <1>5, <1>6, <1>7, <1>8, <1>9, StepCases

\* What in_epoll_recvmsg waits for in a readable stream is its next packet,
\* which the client has written whole unless it was cut short.
LEMMA AwaitedPacket ==
  ASSUME IInv, pc = "recv", Readable(Current)
  PROVE  /\ Header + header \in Nat
         /\ pos[Current] + (Header + header) <= StreamEnd(Current)
         /\ pos[Current] + Header + header <= StreamEnd(Current)
<1> DEFINE c == Current
<1> DEFINE n == Len(frames[c]) + 1
<1>0. TypeOK /\ Laid
  BY DEF IInv
<1>1. c \in Clients /\ c # None
  BY CurrentOnce
<1>2. n <= Len(sent[c]) /\ header = sent[c][n].size
  BY <1>1 DEF IInv, PeekPlace
<1>3. n \in 1..Len(sent[c]) /\ pos[c] = sent[c][n].at
  BY <1>1, <1>2, NextPlace
<1>4. /\ sent[c][n].at \in Nat /\ sent[c][n].size \in Nat
      /\ End(sent[c][n]) = sent[c][n].at + Header + sent[c][n].size
  <2>1. Bytes \subseteq Nat
    BY DEF Bytes, Huge
  <2> QED
    BY <1>0, <1>1, <1>3, <2>1, PacketSize
<1>5. End(sent[c][n]) <= StreamEnd(c)
  BY <1>0, <1>1, <1>3, EndsWithin
<1>6. ASSUME NEW a \in Nat, NEW s \in Nat
      PROVE  Header + s \in Nat /\ a + (Header + s) = a + Header + s
  BY DEF Header, Word
<1> QED
  BY <1>2, <1>3, <1>4, <1>5, <1>6

\* Whatever ends the process has its reason at that moment.
LEMMA EndsForAReasonStep == IInv /\ [Next]_vars => EndsForAReason'
<1> SUFFICES ASSUME IInv, [Next]_vars, pc' = "dead" PROVE EndsForAReason'
  BY DEF EndsForAReason
<1>0. TypeOK /\ EventsHold
  BY DEF IInv
<1> DEFINE Reason ==
      \/ curfd = sock_ /\ events[sock_] # {}
      \/ (Overrun \/ damaged) /\ \E c \in Clients : frames[c] # <<>> /\ ~Readable(c)
      \/ Current # None /\ (~Readable(Current) \/ CutShort(Current) \/ ended[Current] = "reset")
<1>1. ASSUME Reason, UNCHANGED <<ended, sent, written, frames, peer, curfd, header, room, damaged, events>>
      PROVE  EndsForAReason'
  <2>1. Current' = Current /\ (Overrun' <=> Overrun)
    BY <1>1 DEF Current, Overrun
  <2>2. \A c : /\ Readable(c)' <=> Readable(c)
               /\ CutShort(c)' <=> CutShort(c)
    BY <1>1 DEF Readable, Agreeing, WholeWords, CutShort, StreamEnd
  <2>3. Readable(Current)' <=> Readable(Current)
    BY <1>1, <2>1 DEF Readable, Agreeing, WholeWords
  <2>4. CutShort(Current)' <=> CutShort(Current)
    BY <1>1, <2>1 DEF CutShort, StreamEnd
  <2> QED
    BY <1>1, <2>1, <2>2, <2>3, <2>4 DEF EndsForAReason
<1> HIDE DEF Reason
<1>2. ASSUME NEW c \in Clients, Leaves(c) PROVE EndsForAReason'
  <2>1. pc = "dead" /\ UNCHANGED <<ended, sent, written, frames, peer, curfd, header, room, damaged, events>>
    BY <1>2 DEF Leaves, readVars, connVars, loopVars, packVars
  <2>2. Reason
    BY <2>1 DEF IInv, EndsForAReason, Reason
  <2> QED
    BY <1>1, <2>1, <2>2
<1>3. CASE UNCHANGED vars
  <2>1. Reason
    BY <1>3 DEF vars, loopVars, IInv, EndsForAReason, Reason
  <2> QED
    BY <1>1, <1>3, <2>1 DEF vars, netVars, readVars, connVars, loopVars, packVars
<1>4. CASE Ends /\ Dies
  <2>1. UNCHANGED <<ended, sent, written, frames, peer, curfd, header, room, damaged, events>>
    BY <1>4 DEF Ends, netVars, readVars, connVars, packVars
  <2> SUFFICES Reason
    BY <1>1, <2>1
  <2>2. CASE AcceptFails
    BY <1>0, <2>2 DEF AcceptFails, EventsHold, Reason
  <2>3. CASE HeapFails \/ \E f \in Fds : ClearOverruns(f)
    BY <2>3 DEF HeapFails, ClearOverruns, IInv, RoomKept, Reason
  <2>4. CASE NoMemory
    <3>1. pc = "peek" /\ Len(peeked) = Header
          /\ Value(peeked[1], peeked[2], peeked[3], peeked[4]) = Huge
      BY <2>4 DEF NoMemory
    <3>2. Current # None
      BY <3>1, CurrentOnce
    <3>3. ~Readable(Current)
      BY <3>1, SizedReadable
    <3> QED
      BY <3>2, <3>3 DEF Reason
  <2>5. CASE RecvShort
    <3>1. pc = "recv" /\ Avail(Current) < Header + header /\ ended[Current] # "no"
      BY <2>5 DEF RecvShort
    <3>2. Current # None /\ Current \in Clients
      BY <3>1, CurrentOnce
    <3>3. SUFFICES ASSUME Readable(Current), ~CutShort(Current), ended[Current] # "reset"
                   PROVE  FALSE
      BY <3>2 DEF Reason
    <3>4. written[Current] = StreamEnd(Current)
      BY <3>3 DEF CutShort
    <3>5. arrived[Current] = written[Current]
      BY <1>0, <3>1, <3>2, <3>3 DEF IInv, Streamed, TypeOK
    <3>6. pos[Current] + (Header + header) <= arrived[Current] /\ Header + header \in Nat
      BY <3>1, <3>3, <3>4, <3>5, AwaitedPacket
    <3>7. pos[Current] \in Nat /\ arrived[Current] \in Nat
      BY <1>0, <3>2 DEF TypeOK
    <3> QED
      BY <3>1, <3>6, <3>7 DEF Avail
  <2> QED
    BY <1>4, <2>2, <2>3, <2>4, <2>5 DEF Dies
<1>5. ASSUME NEW c \in Clients, Connect(c) \/ Writes(c) \/ Deliver(c) \/ DeliverFin(c) \/ Reset(c)
      PROVE  FALSE
  <2>1. CASE Writes(c)
    <3>1. pc' = pc
      BY <1>0, <2>1, WriteAppends DEF loopVars
    <3>2. Alive
      BY <2>1 DEF Writes, Write
    <3> QED
      BY <3>1, <3>2 DEF Alive
  <2>2. CASE Connect(c) \/ Deliver(c) \/ DeliverFin(c) \/ Reset(c)
    BY <2>2 DEF Connect, Deliver, DeliverFin, Reset, Alive
  <2> QED
    BY <1>5, <2>1, <2>2
<1>6. ASSUME EpollWait \/ AcceptEvent \/ PeekSome \/ Sized \/ PeekEnds \/ RecvPack PROVE FALSE
  BY <1>6, AfterType
     DEF EpollWait, AcceptEvent, PeekSome, Sized, PeekEnds, RecvPack, Processed, Returned, loopVars
<1>7. ASSUME NEW f \in Fds, HupEvent(f) \/ InEvent(f) PROVE FALSE
  BY <1>7, AfterType DEF HupEvent, InEvent, Processed
<1> QED
  BY <1>2, <1>3, <1>4, <1>5, <1>6, <1>7, StepCases

-----------------------------------------------------------------------------
(* The invariant, and what follows from it. *)

\* Before the first connection there is nothing to read and nothing to wait for.
LEMMA InitIInv == Init => IInv
<1> SUFFICES ASSUME Init PROVE IInv
  OBVIOUS
<1>1. /\ 0 \in 0..Huge /\ Len(<<>>) <= Header /\ Len(<<>>) = 0
      /\ sock_ \notin Fds /\ Slack \in Nat
      /\ <<>> \in Seq(Bytes) /\ <<>> \in Seq(Clients)
      /\ <<>> \in Seq([at : Nat, len : Nat])
      /\ <<>> \in Seq([at : Nat, type : Bytes, size : Bytes])
  BY TcpAssumption, EmptySeq DEF Huge, Header, Word
<1>2. TypeOK
  <2>1. damaged \in BOOLEAN
    BY DEF Init
  <2> QED
    BY <1>1, <2>1 DEF Init, TypeOK
<1>3. Placement
  BY <1>1 DEF Init, Placement
<1>4. \A c \in Clients : sent[c] = <<>> /\ StreamEnd(c) = 0 /\ frames[c] = <<>>
  BY DEF Init, StreamEnd
<1>5. Laid
  <2>1. \A c \in Clients : Len(sent[c]) = 0
    BY <1>1, <1>4
  <2>2. 1..0 = {} /\ 1..(0 - 1) = {}
    OBVIOUS
  <2> QED
    BY <1>4, <2>1, <2>2 DEF Laid
<1>6. Streamed
  <2>1. \A c \in Clients : /\ written[c] = 0 /\ arrived[c] = 0 /\ ended[c] = "no"
                           /\ StreamEnd(c) = 0
    BY <1>4 DEF Init
  <2> SUFFICES ASSUME NEW c \in Clients
               PROVE  /\ written[c] <= StreamEnd(c)
                      /\ cstate[c] # "closed" => written[c] = StreamEnd(c)
                      /\ arrived[c] # 0 => arrived[c] \in Stops(c)
                      /\ ended[c] = "fin" => arrived[c] = written[c]
                      /\ ended[c] # "no" => cstate[c] = "closed"
    BY DEF Streamed
  <2> QED
    BY <2>1
<1>7. EventsHold
  BY <1>1 DEF Init, EventsHold
<1>8. ReadPlace /\ ReadableFramed
  BY <1>1, <1>4, <1>2, LenProperties DEF Init, ReadPlace, ReadableFramed, TypeOK
<1>9. PeekPlace
  BY DEF Init, PeekPlace
<1>10. RoomKept
  <2>1. ~Overrun
    BY <1>1 DEF Init, Overrun, Most
  <2> QED
    BY <2>1 DEF Init, RoomKept
<1>11. HandlersNeverBlock /\ EndsForAReason /\ ForgottenBehindFrame
  BY <1>1 DEF Init, HandlersNeverBlock, EndsForAReason, ForgottenBehindFrame
<1> QED
  BY <1>2, <1>3, <1>5, <1>6, <1>7, <1>8, <1>9, <1>10, <1>11 DEF IInv

\* IInv holds in every state.
THEOREM Invariance == Spec => []IInv
<1>1. IInv /\ [Next]_vars => IInv'
  BY TypeStep, PlacementStep, LaidStep, StreamedStep, EventsHoldStep, ReadStep,
     PeekPlaceStep, RoomKeptStep, HandlersNeverBlockStep, EndsForAReasonStep,
     ForgottenBehindFrameStep DEF IInv
<1> QED
  BY InitIInv, <1>1, PTL DEF Spec

\* The server reads only what has arrived, and only what was written arrives.
THEOREM TypeCorrect == Spec => []TypeOK
<1>1. IInv => TypeOK
  BY DEF IInv
<1> QED
  BY Invariance, <1>1, PTL

\* accept and the peek of in_epoll_recvmsg never block the thread.
THEOREM NeverBlocks == Spec => []HandlersNeverBlock
<1>1. IInv => HandlersNeverBlock
  BY DEF IInv
<1> QED
  BY Invariance, <1>1, PTL

\* The packets of a readable stream are taken one by one and whole.
THEOREM FramesRight == Spec => []ReadableFramed
<1>1. IInv => ReadableFramed
  BY DEF IInv
<1> QED
  BY Invariance, <1>1, PTL

\* recvmsgn never waits for bytes that no one will send, on a readable stream.
THEOREM WaitsForWritten == Spec => []NeverWaitsForMore
<1>1. IInv => NeverWaitsForMore
  BY AwaitedPacket DEF NeverWaitsForMore, CutShort
<1> QED
  BY Invariance, <1>1, PTL

\* The process ends for one of the reasons EndsForAReason lists.
THEOREM EndsWithReason == Spec => []EndsForAReason
<1>1. IInv => EndsForAReason
  BY DEF IInv
<1> QED
  BY Invariance, <1>1, PTL

\* An accepted connection is forgotten at most behind a frame.
THEOREM FirstNotForgotten == Spec => []ForgottenBehindFrame
<1>1. IInv => ForgottenBehindFrame
  BY DEF IInv
<1> QED
  BY Invariance, <1>1, PTL

\* A step that takes a descriptor from its connection finds it reset, or at
\* its end with everything read.
LEMMA StepDropsNothing ==
  IInv /\ [Next]_vars =>
    \A f \in Fds : peer[f] # None /\ peer'[f] # peer[f] =>
      \/ ended[peer[f]] = "reset"
      \/ ended[peer[f]] = "fin" /\ pos[peer[f]] = written[peer[f]]
<1> SUFFICES ASSUME IInv, [Next]_vars, NEW f \in Fds, peer[f] # None, peer'[f] # peer[f]
             PROVE  \/ ended[peer[f]] = "reset"
                    \/ ended[peer[f]] = "fin" /\ pos[peer[f]] = written[peer[f]]
  OBVIOUS
<1>0. TypeOK /\ EventsHold /\ Streamed
  BY DEF IInv
<1>1. ASSUME NEW c \in Clients,
             Connect(c) \/ Writes(c) \/ Leaves(c) \/ Deliver(c) \/ DeliverFin(c) \/ Reset(c)
      PROVE  FALSE
  BY <1>0, <1>1, WriteAppends DEF Connect, Leaves, Deliver, DeliverFin, Reset, connVars
<1>2. ASSUME EpollWait \/ PeekSome \/ Sized \/ RecvPack \/ Ends \/ UNCHANGED vars PROVE FALSE
  BY <1>2 DEF EpollWait, PeekSome, Sized, RecvPack, Ends, vars, connVars
<1>3. ASSUME AcceptEvent PROVE FALSE
  BY <1>0, <1>3 DEF AcceptEvent, TypeOK
<1>4. ASSUME NEW g \in Fds, InEvent(g) PROVE FALSE
  BY <1>4 DEF InEvent, connVars
<1>5. ASSUME NEW g \in Fds, HupEvent(g) PROVE ended[peer[f]] = "reset"
  <2>1. g = f
    BY <1>0, <1>5 DEF HupEvent, Drop, TypeOK
  <2> QED
    BY <1>0, <1>5, <2>1 DEF HupEvent, EventsHold
<1>6. CASE PeekEnds
  <2>1. /\ pc = "peek" /\ Avail(Current) = 0 /\ ended[Current] = "fin"
        /\ peer' = [peer EXCEPT ![curfd] = None]
    BY <1>6 DEF PeekEnds, Drop
  <2>2. curfd = f /\ Current = peer[f] /\ Current \in Clients
    BY <1>0, <2>1, CurrentOnce DEF TypeOK
  <2>3. arrived[Current] = written[Current]
    BY <1>0, <2>1, <2>2 DEF Streamed
  <2>4. pos[Current] = arrived[Current]
    BY <1>0, <2>1, <2>2 DEF Avail, TypeOK
  <2> QED
    BY <2>1, <2>2, <2>3, <2>4
<1> QED
  BY <1>1, <1>2, <1>3, <1>4, <1>5, <1>6, StepCases

\* A connection is given up only when it was reset or has been read to its end.
THEOREM DropsNoData == Spec => NoDataDropped
<1>1. IInv /\ [Next]_vars =>
        [\A f \in Fds : peer[f] # None /\ peer'[f] # peer[f] =>
           \/ ended[peer[f]] = "reset"
           \/ ended[peer[f]] = "fin" /\ pos[peer[f]] = written[peer[f]]]_vars
  BY StepDropsNothing
<1> QED
  BY Invariance, <1>1, PTL DEF Spec, NoDataDropped
=============================================================================
