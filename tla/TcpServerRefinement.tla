------------------------- MODULE TcpServerRefinement -------------------------
(***************************************************************************)
(* TcpServer implements PacketServer: the initial state maps to an initial *)
(* state, and every step of clients, network and loop maps to a step of    *)
(* the abstract server or leaves its state alone.  A frame is the packet   *)
(* PacketServer takes next because the stream was readable up to it, and a *)
(* connection at its end has no packet left because the server has read    *)
(* all of it and the last packet was at least begun.                       *)
(***************************************************************************)
EXTENDS TcpServerProofs

\* Something of the last packet of each stream has been written.
LastBegun ==
  \A c \in Clients : sent[c] # <<>> => written[c] > sent[c][Len(sent[c])].at

\* A client that puts a packet writes at least a byte of it, and the packet
\* has one of the sizes there are.
LEMMA WriteBegins ==
  ASSUME IInv, NEW c \in Clients, Writes(c)
  PROVE  /\ written'[c] > written[c]
         /\ Size(sent'[c][Len(sent[c]) + 1]) \in PacketSizes
         /\ Alive
<1>0. TypeOK
  BY DEF IInv
<1>p. PICK p \in Packets[c] \cup {Hello} : \E n \in {Size(p)} \cup Cuts[c] : Write(c, p, n)
  BY DEF Writes
<1>1. PICK n \in {Size(p)} \cup Cuts[c] : Write(c, p, n)
  BY <1>p
<1>2. Size(p) \in Nat \ {0}
  <2>1. p.size \in Nat
    BY TcpAssumption DEF Bytes, Huge
  <2> QED
    BY <2>1 DEF Size, Header, Word
<1>3. n \in Nat \ {0}
  BY <1>1, <1>2, TcpAssumption
<1>4. written'[c] = written[c] + n
  BY <1>0, <1>1 DEF Write, TypeOK
<1>5. sent'[c] = Append(sent[c], [at |-> StreamEnd(c), type |-> p.type, size |-> p.size])
  BY <1>0, <1>1 DEF Write, TypeOK
<1>6. sent'[c][Len(sent[c]) + 1] = [at |-> StreamEnd(c), type |-> p.type, size |-> p.size]
  <2>1. [at |-> StreamEnd(c), type |-> p.type, size |-> p.size] \in [at : Nat, type : Bytes, size : Bytes]
    BY <1>0, StreamEndType, TcpAssumption DEF Bytes, Huge
  <2> QED
    BY <1>0, <1>5, <2>1, AppendProperties DEF TypeOK
<1>7. Size(sent'[c][Len(sent[c]) + 1]) = Size(p)
  BY <1>6 DEF Size
<1>8. Size(p) \in PacketSizes
  BY DEF PacketSizes
<1>9. written[c] \in Nat
  BY <1>0 DEF TypeOK
<1> QED
  BY <1>1, <1>3, <1>4, <1>7, <1>8, <1>9 DEF Write

\* A packet is put behind what has been written, as nothing was cut short.
LEMMA LastBegunStep == IInv /\ LastBegun /\ [Next]_vars => LastBegun'
<1> SUFFICES ASSUME IInv, LastBegun, [Next]_vars, NEW c \in Clients, sent'[c] # <<>>
             PROVE  written'[c] > sent'[c][Len(sent'[c])].at
  BY DEF LastBegun
<1>1. ASSUME sent'[c] = sent[c], written'[c] = written[c]
      PROVE  written'[c] > sent'[c][Len(sent'[c])].at
  BY <1>1 DEF LastBegun
<1>2. CASE Writes(c)
  <2>1. PICK p \in [at : Nat, type : Bytes, size : Bytes] :
          /\ p.at = StreamEnd(c) /\ Len(sent'[c]) = Len(sent[c]) + 1
          /\ sent'[c][Len(sent[c]) + 1] = p
          /\ cstate[c] = "open"
    BY <1>2, WriteFacts
  <2>2. written[c] = StreamEnd(c)
    BY <2>1 DEF IInv, Streamed
  <2> QED
    BY <1>2, <2>1, <2>2, WriteBegins
<1>3. ASSUME NEW d \in Clients, d # c, Writes(d)
      PROVE  sent'[c] = sent[c] /\ written'[c] = written[c]
  BY <1>3, WriteFacts
<1>4. CASE \A d \in Clients : ~Writes(d)
  BY <1>1, <1>4, SentKept
<1> QED
  BY <1>1, <1>2, <1>3, <1>4

\* Each packet of every stream has been begun.
LEMMA Begun == Spec => []LastBegun
<1>1. Init => LastBegun
  BY DEF Init, LastBegun
<1>2. IInv /\ LastBegun /\ [Next]_vars => LastBegun'
  BY LastBegunStep
<1> QED
  BY <1>1, <1>2, Invariance, PTL DEF Spec

-----------------------------------------------------------------------------
(* The mapping. *)

\* Whether c is waiting in the backlog, and whether it is behind a descriptor.
Queued(c) == \E i \in 1..Len(backlog) : backlog[i] = c
Served(c) == \E f \in Fds : peer[f] = c

\* The abstract link, without the set of descriptors.
LEMMA LinkCases ==
  ASSUME NEW c \in Clients
  PROVE  /\ Links[c] = IF Served(c) THEN "up"
                       ELSE IF cstate[c] = "new" \/ Queued(c) THEN "none" ELSE "down"
         /\ Links'[c] = IF Served(c)' THEN "up"
                        ELSE IF cstate'[c] = "new" \/ Queued(c)' THEN "none" ELSE "down"
BY DEF Links, Link, FdsOf, Served, Queued

\* A step that moves no client leaves every link as it was.
LEMMA LinksUnchanged ==
  ASSUME UNCHANGED <<peer, backlog>>,
         \A c \in Clients : (cstate'[c] = "new") = (cstate[c] = "new")
  PROVE  Links' = Links
<1>1. \A c \in Clients : Link(c)' = Link(c)
  BY DEF Link, FdsOf
<1> QED
  BY <1>1 DEF Links

\* A step that leaves a stream and its frames alone shows nothing of it.
LEMMA StreamUnchanged ==
  ASSUME NEW c \in Clients, sent'[c] = sent[c], frames'[c] = frames[c]
  PROVE  /\ Readable(c)' <=> Readable(c)
         /\ PutSizes'[c] = PutSizes[c]
         /\ TakenSizes'[c] = TakenSizes[c]
<1>1. Readable(c)' <=> Readable(c)
  BY DEF Readable, Agreeing, WholeWords
<1> QED
  BY <1>1 DEF PutSizes, TakenSizes

\* What is shown of a stream that cannot be read.
LEMMA UnreadableShown ==
  ASSUME NEW c \in Clients
  PROVE  /\ ~Readable(c) => PutSizes[c] = <<>> /\ TakenSizes[c] = <<>>
         /\ ~Readable(c)' => PutSizes'[c] = <<>> /\ TakenSizes'[c] = <<>>
<1>1. ASSUME ~Readable(c) PROVE PutSizes[c] = <<>> /\ TakenSizes[c] = <<>>
  BY <1>1 DEF PutSizes, TakenSizes
<1>2. ASSUME ~Readable(c)' PROVE PutSizes'[c] = <<>> /\ TakenSizes'[c] = <<>>
  BY <1>2 DEF PutSizes, TakenSizes
<1> QED
  BY <1>1, <1>2

\* The sizes of the first n packets, and of the first n frames, as sequences.
LEMMA SizesListed ==
  ASSUME NEW s \in Seq([at : Nat, type : Bytes, size : Bytes]), NEW n \in Nat, n <= Len(s)
  PROVE  LET g == [i \in 1..n |-> Size(s[i])]
         IN  g \in Seq(Nat) /\ Len(g) = n /\ \A i \in 1..n : g[i] = Size(s[i])
<1>1. ASSUME NEW i \in 1..n PROVE s[i] \in [at : Nat, type : Bytes, size : Bytes]
  <2>1. Len(s) \in Nat
    BY LenProperties
  <2>2. i \in 1..Len(s)
    BY <2>1
  <2> QED
    BY <2>2, ElementOfSeq
<1>2. ASSUME NEW p \in [at : Nat, type : Bytes, size : Bytes] PROVE Size(p) \in Nat
  <2>1. Bytes \subseteq Nat
    BY DEF Bytes, Huge
  <2>2. p.size \in Nat
    BY <2>1
  <2> QED
    BY <2>2 DEF Size, Header, Word
<1>3. \A i \in 1..n : Size(s[i]) \in Nat
  BY <1>1, <1>2
<1>4. [i \in 1..n |-> Size(s[i])] \in [1..n -> Nat]
  BY <1>3
<1> QED
  BY <1>4, SeqDef

LEMMA LengthsListed ==
  ASSUME NEW s \in Seq([at : Nat, len : Nat])
  PROVE  LET g == [i \in 1..Len(s) |-> s[i].len]
         IN  g \in Seq(Nat) /\ Len(g) = Len(s) /\ \A i \in 1..Len(s) : g[i] = s[i].len
<1>1. ASSUME NEW i \in 1..Len(s) PROVE s[i].len \in Nat
  <2>1. s[i] \in [at : Nat, len : Nat]
    BY ElementOfSeq
  <2> QED
    BY <2>1
<1>2. [i \in 1..Len(s) |-> s[i].len] \in [1..Len(s) -> Nat]
  BY <1>1
<1> QED
  BY <1>2, SeqDef, LenProperties

\* What is shown of a stream that can be read.
LEMMA ReadableShown ==
  ASSUME TypeOK, TypeOK', NEW c \in Clients
  PROVE  /\ Readable(c) =>
              /\ PutSizes[c] \in Seq(Nat) /\ Len(PutSizes[c]) = Len(sent[c])
              /\ \A i \in 1..Len(sent[c]) : PutSizes[c][i] = Size(sent[c][i])
              /\ TakenSizes[c] \in Seq(Nat) /\ Len(TakenSizes[c]) = Len(frames[c])
              /\ \A i \in 1..Len(frames[c]) : TakenSizes[c][i] = frames[c][i].len
         /\ Readable(c)' =>
              /\ PutSizes'[c] \in Seq(Nat) /\ Len(PutSizes'[c]) = Len(sent'[c])
              /\ \A i \in 1..Len(sent'[c]) : PutSizes'[c][i] = Size(sent'[c][i])
              /\ TakenSizes'[c] \in Seq(Nat) /\ Len(TakenSizes'[c]) = Len(frames'[c])
              /\ \A i \in 1..Len(frames'[c]) : TakenSizes'[c][i] = frames'[c][i].len
<1>1. /\ sent[c] \in Seq([at : Nat, type : Bytes, size : Bytes])
      /\ sent'[c] \in Seq([at : Nat, type : Bytes, size : Bytes])
      /\ frames[c] \in Seq([at : Nat, len : Nat])
      /\ frames'[c] \in Seq([at : Nat, len : Nat])
  BY DEF TypeOK
<1>2. Len(sent[c]) \in Nat /\ Len(sent'[c]) \in Nat
  BY <1>1, LenProperties
<1>3. ASSUME Readable(c)
      PROVE  /\ PutSizes[c] = [i \in 1..Len(sent[c]) |-> Size(sent[c][i])]
             /\ TakenSizes[c] = [i \in 1..Len(frames[c]) |-> frames[c][i].len]
  BY <1>3 DEF PutSizes, TakenSizes
<1>4. ASSUME Readable(c)'
      PROVE  /\ PutSizes'[c] = [i \in 1..Len(sent'[c]) |-> Size(sent'[c][i])]
             /\ TakenSizes'[c] = [i \in 1..Len(frames'[c]) |-> frames'[c][i].len]
  BY <1>4 DEF PutSizes, TakenSizes
<1>5. Len(sent[c]) <= Len(sent[c]) /\ Len(sent'[c]) <= Len(sent'[c])
  BY <1>2
<1>6. ASSUME Readable(c)
      PROVE  /\ PutSizes[c] \in Seq(Nat) /\ Len(PutSizes[c]) = Len(sent[c])
             /\ \A i \in 1..Len(sent[c]) : PutSizes[c][i] = Size(sent[c][i])
  <2> DEFINE g == [i \in 1..Len(sent[c]) |-> Size(sent[c][i])]
  <2>1. g \in Seq(Nat) /\ Len(g) = Len(sent[c]) /\ \A i \in 1..Len(sent[c]) : g[i] = Size(sent[c][i])
    BY <1>1, <1>2, <1>5, SizesListed
  <2>2. PutSizes[c] = g
    BY <1>3, <1>6
  <2> HIDE DEF g
  <2> QED
    BY <2>1, <2>2
<1>7. ASSUME Readable(c)'
      PROVE  /\ PutSizes'[c] \in Seq(Nat) /\ Len(PutSizes'[c]) = Len(sent'[c])
             /\ \A i \in 1..Len(sent'[c]) : PutSizes'[c][i] = Size(sent'[c][i])
  <2> DEFINE g == [i \in 1..Len(sent'[c]) |-> Size(sent'[c][i])]
  <2>1. g \in Seq(Nat) /\ Len(g) = Len(sent'[c]) /\ \A i \in 1..Len(sent'[c]) : g[i] = Size(sent'[c][i])
    BY <1>1, <1>2, <1>5, SizesListed
  <2>2. PutSizes'[c] = g
    BY <1>4, <1>7
  <2> HIDE DEF g
  <2> QED
    BY <2>1, <2>2
<1>8. ASSUME Readable(c)
      PROVE  /\ TakenSizes[c] \in Seq(Nat) /\ Len(TakenSizes[c]) = Len(frames[c])
             /\ \A i \in 1..Len(frames[c]) : TakenSizes[c][i] = frames[c][i].len
  BY <1>1, <1>3, <1>8, LengthsListed
<1>9. ASSUME Readable(c)'
      PROVE  /\ TakenSizes'[c] \in Seq(Nat) /\ Len(TakenSizes'[c]) = Len(frames'[c])
             /\ \A i \in 1..Len(frames'[c]) : TakenSizes'[c][i] = frames'[c][i].len
  BY <1>1, <1>4, <1>9, LengthsListed
<1> QED
  BY <1>6, <1>7, <1>8, <1>9

-----------------------------------------------------------------------------
(* The steps. *)

\* A step that shows nothing.
LEMMA Stutters ==
  ASSUME UNCHANGED <<sent, frames, ended>>, Links' = Links, Alive' <=> Alive
  PROVE  UNCHANGED PS!vars
<1>1. \A c \in Clients : Readable(c)' <=> Readable(c)
  BY DEF Readable, Agreeing, WholeWords
<1>2. Orderly' = Orderly
  BY <1>1 DEF Orderly
<1>3. PutSizes' = PutSizes /\ TakenSizes' = TakenSizes
  BY <1>1 DEF PutSizes, TakenSizes
<1>4. Alive' = Alive
  BY DEF Alive
<1> QED
  BY <1>2, <1>3, <1>4 DEF PS!vars

\* What a step of the loop or the network leaves of a stream.
LEMMA Kept ==
  ASSUME UNCHANGED <<sent, frames>>
  PROVE  UNCHANGED <<Orderly, PutSizes, TakenSizes>>
<1>1. \A c \in Clients : Readable(c)' <=> Readable(c)
  BY DEF Readable, Agreeing, WholeWords
<1> QED
  BY <1>1 DEF Orderly, PutSizes, TakenSizes

\* A write puts a packet, spoils its stream, or adds to a spoiled one.
LEMMA WriteRefines ==
  ASSUME IInv, [Next]_vars, NEW c \in Clients, Writes(c)
  PROVE  PS!Put(c) \/ PS!Spoil(c) \/ UNCHANGED PS!vars
<1>0. TypeOK /\ TypeOK'
  BY TypeStep DEF IInv
<1>1. PICK p \in [at : Nat, type : Bytes, size : Bytes] :
        /\ Size(p) \in Nat
        /\ Len(sent[c]) \in Nat /\ Len(sent'[c]) = Len(sent[c]) + 1
        /\ \A i \in 1..Len(sent[c]) : i \in 1..Len(sent'[c]) /\ sent'[c][i] = sent[c][i]
        /\ Len(sent[c]) + 1 \in 1..Len(sent'[c])
        /\ sent'[c][Len(sent[c]) + 1] = p
        /\ \A i \in 1..Len(sent'[c]) : i \in 1..Len(sent[c]) \/ i = Len(sent[c]) + 1
        /\ cstate[c] = "open"
        /\ \A d \in Clients : d # c => sent'[d] = sent[d]
        /\ UNCHANGED <<ended, readVars, connVars, loopVars>>
  BY WriteFacts
<1>2. UNCHANGED <<frames, backlog, peer, pc, ended>>
  BY <1>1 DEF readVars, connVars, loopVars
<1>3. Alive /\ Alive' = Alive /\ Alive = TRUE /\ ended[c] = "no"
  <2>1. ended[c] \in {"no", "fin", "reset"}
    BY <1>0 DEF TypeOK
  <2>2. ended[c] = "no"
    BY <1>1, <2>1 DEF IInv, Streamed
  <2> QED
    BY <1>2, <2>2, WriteBegins DEF Alive
<1>4. Links' = Links
  <2>1. \A d \in Clients : (cstate'[d] = "new") = (cstate[d] = "new")
    <3>1. cstate' \in {cstate, [cstate EXCEPT ![c] = "waiting"], [cstate EXCEPT ![c] = "closed"]}
      BY <1>0, WriteAppends
    <3>2. DOMAIN cstate = Clients /\ cstate[c] = "open"
      BY <1>0, <1>1 DEF TypeOK
    <3>3. /\ \A d \in Clients : d # c => cstate'[d] = cstate[d]
          /\ cstate'[c] # "new"
      BY <3>1, <3>2
    <3> QED
      BY <3>2, <3>3
  <2> QED
    BY <1>2, <2>1, LinksUnchanged
<1>5. ASSUME NEW d \in Clients, d # c
      PROVE  /\ Readable(d)' <=> Readable(d)
             /\ PutSizes'[d] = PutSizes[d] /\ TakenSizes'[d] = TakenSizes[d]
  BY <1>1, <1>2, <1>5, StreamUnchanged
<1>6. Readable(c)' => Readable(c)
  BY ReadableBefore
<1>7. /\ DOMAIN PutSizes = Clients /\ DOMAIN PutSizes' = Clients
      /\ DOMAIN TakenSizes = Clients /\ DOMAIN TakenSizes' = Clients
      /\ PutSizes = [d \in Clients |-> PutSizes[d]] /\ PutSizes' = [d \in Clients |-> PutSizes'[d]]
      /\ TakenSizes = [d \in Clients |-> TakenSizes[d]]
      /\ TakenSizes' = [d \in Clients |-> TakenSizes'[d]]
  BY DEF PutSizes, TakenSizes
<1>8. CASE ~Readable(c)
  <2>1. PutSizes'[c] = PutSizes[c] /\ TakenSizes'[c] = TakenSizes[c]
    BY <1>6, <1>8, UnreadableShown
  <2>2. PutSizes' = PutSizes /\ TakenSizes' = TakenSizes
    BY <1>5, <1>7, <2>1
  <2>3. Orderly' = Orderly
    BY <1>5, <1>6, <1>8 DEF Orderly
  <2> QED
    BY <1>2, <1>3, <1>4, <2>2, <2>3 DEF PS!vars
<1>9. CASE Readable(c) /\ ~Readable(c)'
  <2>1. PutSizes'[c] = <<>> /\ TakenSizes'[c] = <<>>
    BY <1>9, UnreadableShown
  <2>2. /\ PutSizes' = [PutSizes EXCEPT ![c] = <<>>]
        /\ TakenSizes' = [TakenSizes EXCEPT ![c] = <<>>]
    BY <1>5, <1>7, <2>1
  <2>3. c \in Orderly /\ Orderly' = Orderly \ {c}
    BY <1>5, <1>9 DEF Orderly
  <2> QED
    BY <1>2, <1>3, <1>4, <2>2, <2>3 DEF PS!Spoil
<1>10. CASE Readable(c)'
  <2>1. /\ PutSizes[c] \in Seq(Nat) /\ Len(PutSizes[c]) = Len(sent[c])
        /\ \A i \in 1..Len(sent[c]) : PutSizes[c][i] = Size(sent[c][i])
        /\ PutSizes'[c] \in Seq(Nat) /\ Len(PutSizes'[c]) = Len(sent'[c])
        /\ \A i \in 1..Len(sent'[c]) : PutSizes'[c][i] = Size(sent'[c][i])
    BY <1>0, <1>6, <1>10, ReadableShown
  <2>2. Size(p) \in Nat /\ Size(p) \in PacketSizes
    BY <1>1, WriteBegins
  <2>3. /\ Append(PutSizes[c], Size(p)) \in Seq(Nat)
        /\ Len(Append(PutSizes[c], Size(p))) = Len(sent[c]) + 1
        /\ \A i \in 1..Len(sent[c]) : Append(PutSizes[c], Size(p))[i] = PutSizes[c][i]
        /\ Append(PutSizes[c], Size(p))[Len(sent[c]) + 1] = Size(p)
    BY <2>1, <2>2, AppendProperties
  <2>4. ASSUME NEW i \in 1..Len(PutSizes'[c])
        PROVE  PutSizes'[c][i] = Append(PutSizes[c], Size(p))[i]
    <3>1. i \in 1..Len(sent'[c]) /\ PutSizes'[c][i] = Size(sent'[c][i])
      BY <2>1
    <3>2. i \in 1..Len(sent[c]) \/ i = Len(sent[c]) + 1
      BY <1>1, <3>1
    <3>3. CASE i \in 1..Len(sent[c])
      <4>1. sent'[c][i] = sent[c][i]
        BY <1>1, <3>3
      <4>2. Append(PutSizes[c], Size(p))[i] = Size(sent[c][i])
        BY <2>1, <2>3, <3>3
      <4> QED
        BY <3>1, <4>1, <4>2
    <3>4. CASE i = Len(sent[c]) + 1
      <4>1. sent'[c][i] = p
        BY <1>1, <3>4
      <4> QED
        BY <2>3, <3>1, <3>4, <4>1
    <3> QED
      BY <3>2, <3>3, <3>4
  <2>5. PutSizes'[c] = Append(PutSizes[c], Size(p))
    <3>1. Len(PutSizes'[c]) = Len(Append(PutSizes[c], Size(p)))
      BY <1>1, <2>1, <2>3
    <3> DEFINE s == PutSizes'[c]
    <3> DEFINE t == Append(PutSizes[c], Size(p))
    <3>2. s \in Seq(Nat) /\ t \in Seq(Nat) /\ Len(s) = Len(t) /\ \A i \in 1..Len(s) : s[i] = t[i]
      BY <2>1, <2>3, <2>4, <3>1
    <3> HIDE DEF s, t
    <3>3. s = t
      BY <3>2, SeqEqual
    <3> QED
      BY <3>3 DEF s, t
  <2>6. PutSizes' = [PutSizes EXCEPT ![c] = Append(@, Size(p))]
    BY <1>5, <1>7, <2>5
  <2>7. TakenSizes'[c] = TakenSizes[c]
    BY <1>2, <1>6, <1>10 DEF TakenSizes
  <2>8. TakenSizes' = TakenSizes
    BY <1>5, <1>7, <2>7
  <2>9. c \in Orderly /\ Orderly' = Orderly
    BY <1>5, <1>6, <1>10 DEF Orderly
  <2> QED
    BY <1>2, <1>3, <1>4, <2>2, <2>6, <2>8, <2>9 DEF PS!Put
<1> QED
  BY <1>8, <1>9, <1>10

\* Connecting puts a client in the backlog, which shows nothing.
LEMMA ConnectRefines ==
  ASSUME IInv, NEW c \in Clients, Connect(c)
  PROVE  UNCHANGED PS!vars
<1>0. TypeOK /\ Placement
  BY DEF IInv
<1>1. /\ cstate[c] = "new" /\ cstate' = [cstate EXCEPT ![c] = "open"]
      /\ backlog' = Append(backlog, c)
      /\ UNCHANGED <<ended, sent, frames, peer, pc>>
  BY DEF Connect, readVars
<1>2. /\ Len(backlog) \in Nat /\ Len(backlog') = Len(backlog) + 1
      /\ \A i \in 1..Len(backlog) : backlog'[i] = backlog[i]
      /\ backlog'[Len(backlog) + 1] = c
  BY <1>0, <1>1, AppendProperties, LenProperties DEF TypeOK
<1>3. Queued(c)'
  <2>1. Len(backlog) + 1 \in 1..Len(backlog')
    BY <1>2
  <2> QED
    BY <1>2, <2>1 DEF Queued
<1>4. ~Served(c)
  BY <1>0, <1>1, TcpAssumption DEF Served, Placement
<1>5. ASSUME NEW d \in Clients PROVE Links'[d] = Links[d]
  <2>1. Served(d)' <=> Served(d)
    BY <1>1 DEF Served
  <2>2. CASE d = c
    BY <1>1, <1>3, <1>4, <2>1, <2>2, LinkCases
  <2>3. CASE d # c
    <3>1. \A i \in 1..Len(backlog') : i \in 1..Len(backlog) \/ i = Len(backlog) + 1
      BY <1>2
    <3>2. \A i \in 1..Len(backlog) : i \in 1..Len(backlog')
      BY <1>2
    <3>3. Queued(d)' <=> Queued(d)
      BY <1>2, <2>3, <3>1, <3>2 DEF Queued
    <3>4. cstate'[d] = cstate[d]
      BY <1>0, <1>1, <2>3 DEF TypeOK
    <3> QED
      BY <2>1, <3>3, <3>4, LinkCases
  <2> QED
    BY <2>2, <2>3
<1>6. Links' = Links
  BY <1>5 DEF Links
<1> QED
  BY <1>1, <1>6, Stutters DEF Alive

\* Accepting a connection establishes it.
LEMMA AcceptRefines ==
  ASSUME IInv, AcceptEvent
  PROVE  \E c \in Clients : PS!Establish(c)
<1>0. TypeOK /\ Placement
  BY DEF IInv
<1>1. PICK f \in Fds : peer[f] = None /\ peer' = [peer EXCEPT ![f] = Head(backlog)]
  BY DEF AcceptEvent
<1>2. /\ backlog # <<>> /\ backlog' = Tail(backlog)
      /\ pc = "loop" /\ pc' \in {"wait", "loop"}
      /\ UNCHANGED <<cstate, ended, sent, frames>>
  BY AfterType DEF AcceptEvent, Processed, netVars, readVars
<1>3. /\ Len(backlog) \in Nat \ {0} /\ Head(backlog) = backlog[1]
      /\ Len(backlog') = Len(backlog) - 1
      /\ \A i \in 1..Len(backlog') : backlog'[i] = backlog[i + 1]
  BY <1>0, <1>2, HeadTailProperties, LenProperties DEF TypeOK
<1>4. 1 \in 1..Len(backlog)
  BY <1>3
<1>h. PICK h \in Clients : h = backlog[1]
  BY <1>0, <1>4, ElementOfSeq DEF TypeOK
<1>5. h # None
  BY TcpAssumption
<1>6. \A g \in Fds : peer'[g] = IF g = f THEN h ELSE peer[g]
  BY <1>0, <1>1, <1>3, <1>h DEF TypeOK
<1>7. Queued(h) /\ ~Served(h) /\ Served(h)'
  <2>1. Queued(h)
    BY <1>4, <1>h DEF Queued
  <2>2. ~Served(h)
    BY <1>0, <1>4, <1>5, <1>h DEF Served, Placement
  <2> QED
    BY <1>6, <2>1, <2>2 DEF Served
<1>8. Links[h] = "none" /\ Links'[h] = "up"
  BY <1>7, LinkCases
<1>9. ASSUME NEW d \in Clients, d # h PROVE Links'[d] = Links[d]
  <2>1. d # None
    BY TcpAssumption
  <2>2. Served(d)' <=> Served(d)
    BY <1>1, <1>6, <1>9, <2>1 DEF Served
  <2>3. \A i \in 1..Len(backlog') : i + 1 \in 1..Len(backlog)
    BY <1>3
  <2>4. ASSUME NEW i \in 1..Len(backlog), backlog[i] = d PROVE Queued(d)'
    <3>1. i - 1 \in 1..Len(backlog') /\ backlog'[i - 1] = d
      BY <1>3, <1>h, <1>9, <2>4
    <3> QED
      BY <3>1 DEF Queued
  <2>5. Queued(d)' <=> Queued(d)
    BY <1>3, <2>3, <2>4 DEF Queued
  <2> QED
    BY <1>2, <2>2, <2>5, LinkCases
<1>10. Links' = [Links EXCEPT ![h] = "up"]
  BY <1>8, <1>9 DEF Links
<1>11. Alive = TRUE /\ Alive' = TRUE
  BY <1>2 DEF Alive
<1>12. PS!Establish(h)
  BY <1>2, <1>8, <1>10, <1>11, Kept DEF PS!Establish
<1> QED
  BY <1>12

\* Closing a descriptor drops its connection, for a reason PacketServer accepts.
LEMMA DropRefines ==
  ASSUME IInv, LastBegun, [Next]_vars, NEW f \in Fds, peer[f] # None,
         peer' = [peer EXCEPT ![f] = None],
         UNCHANGED <<cstate, ended, sent, frames, backlog>>,
         pc \in {"loop", "peek"}, pc' \in {"wait", "loop"}
  PROVE  \E c \in Clients : PS!Drop(c)
<1>0. TypeOK /\ Placement
  BY DEF IInv
<1>c. PICK c \in Clients : c = peer[f]
  BY <1>0 DEF TypeOK
<1>1. c # None /\ cstate[c] # "new"
  BY <1>0, <1>c DEF Placement
<1>2. \A g \in Fds : peer'[g] = IF g = f THEN None ELSE peer[g]
  BY <1>0 DEF TypeOK
<1>3. Served(c) /\ ~Served(c)' /\ ~Queued(c)'
  <2>1. Served(c)
    BY <1>c DEF Served
  <2>2. ~Served(c)'
    BY <1>0, <1>c, <1>1, <1>2 DEF Served, Placement
  <2>3. ~Queued(c)'
    BY <1>0, <1>c, <1>1 DEF Queued, Placement
  <2> QED
    BY <2>1, <2>2, <2>3
<1>4. Links[c] = "up" /\ Links'[c] = "down"
  BY <1>1, <1>3, LinkCases
<1>5. ASSUME NEW d \in Clients, d # c PROVE Links'[d] = Links[d]
  <2>1. d # None
    BY TcpAssumption
  <2>2. Served(d)' <=> Served(d)
    BY <1>c, <1>2, <1>5, <2>1 DEF Served
  <2>3. Queued(d)' <=> Queued(d)
    BY DEF Queued
  <2> QED
    BY <2>2, <2>3, LinkCases
<1>6. Links' = [Links EXCEPT ![c] = "down"]
  BY <1>4, <1>5 DEF Links
<1>7. Alive = TRUE /\ Alive' = TRUE
  BY DEF Alive
<1>8. ended[c] = "reset" \/ (ended[c] = "fin" /\ pos[c] = written[c])
  <2>1. peer'[f] # peer[f]
    BY <1>2
  <2> QED
    BY <1>c, <2>1, StepDropsNothing
<1>9. ASSUME Readable(c), pos[c] = written[c] PROVE TakenSizes[c] = PutSizes[c]
  <2>1. /\ pos[c] = IF frames[c] = <<>> THEN 0 ELSE End(sent[c][Len(frames[c])])
        /\ Len(frames[c]) <= Len(sent[c])
        /\ \A i \in 1..Len(frames[c]) :
             frames[c][i] = [at |-> sent[c][i].at, len |-> Size(sent[c][i])]
    BY <1>9 DEF IInv, ReadPlace, ReadableFramed
  <2>2. Len(frames[c]) \in Nat /\ Len(sent[c]) \in Nat /\ (sent[c] = <<>> <=> Len(sent[c]) = 0)
    BY <1>0, LenProperties, EmptySeq DEF TypeOK
  <2>3. ASSUME Len(frames[c]) < Len(sent[c]) PROVE FALSE
    <3>1. Len(frames[c]) + 1 \in 1..Len(sent[c]) /\ pos[c] = sent[c][Len(frames[c]) + 1].at
      BY <1>9, <2>2, <2>3, NextPlace
    <3>2. sent[c][Len(frames[c]) + 1].at <= sent[c][Len(sent[c])].at
      <4> DEFINE n == Len(frames[c]) + 1
      <4> DEFINE l == Len(sent[c])
      <4>1. n \in 1..l /\ l \in 1..l
        BY <2>2, <3>1
      <4>2. /\ sent[c][n].at \in Nat /\ sent[c][l].at \in Nat
            /\ End(sent[c][n]) \in Nat /\ Size(sent[c][n]) \in Nat
            /\ End(sent[c][n]) = sent[c][n].at + Size(sent[c][n])
        BY <1>0, <4>1, PacketSize DEF End
      <4>3. CASE n = l
        BY <4>2, <4>3
      <4>4. CASE n # l
        <5>1. n < l
          BY <4>1, <4>4
        <5>2. End(sent[c][n]) <= sent[c][l].at
          BY <4>1, <5>1 DEF IInv, Laid
        <5> QED
          BY <4>2, <5>2
      <4> QED
        BY <4>3, <4>4
    <3>3. written[c] > sent[c][Len(sent[c])].at
      BY <2>2, <3>1 DEF LastBegun
    <3>4. sent[c][Len(frames[c]) + 1].at \in Nat /\ sent[c][Len(sent[c])].at \in Nat /\ written[c] \in Nat
      <4>1. Len(sent[c]) \in 1..Len(sent[c])
        BY <2>2, <3>1
      <4> QED
        BY <1>0, <3>1, <4>1, PacketSize DEF TypeOK
    <3> QED
      BY <1>9, <3>1, <3>2, <3>3, <3>4
  <2>4. Len(frames[c]) = Len(sent[c])
    BY <2>1, <2>2, <2>3
  <2>5. ASSUME NEW i \in 1..Len(sent[c]) PROVE frames[c][i].len = Size(sent[c][i])
    <3>1. frames[c][i] = [at |-> sent[c][i].at, len |-> Size(sent[c][i])]
      BY <2>1, <2>4
    <3> QED
      BY <3>1
  <2> QED
    BY <1>9, <2>4, <2>5 DEF TakenSizes, PutSizes
<1>10. ended[c] = "reset" \/ (ended[c] = "fin" /\ TakenSizes[c] = PutSizes[c])
  BY <1>8, <1>9, UnreadableShown
<1>11. PS!Drop(c)
  BY <1>4, <1>6, <1>7, <1>10, Kept DEF PS!Drop
<1> QED
  BY <1>11

\* A frame of a readable stream is the next packet; of others nothing is shown.
LEMMA RecvPackRefines ==
  ASSUME IInv, [Next]_vars, RecvPack
  PROVE  (\E c \in Clients : PS!Take(c)) \/ UNCHANGED PS!vars
<1>0. TypeOK /\ TypeOK'
  BY TypeStep DEF IInv
<1>1. /\ pc = "recv" /\ pc' \in {"wait", "loop"}
      /\ UNCHANGED <<cstate, ended, sent, backlog, peer>>
  BY AfterType DEF RecvPack, Returned, netVars, connVars
<1>2. Current # None /\ Current \in Clients
  BY <1>1, CurrentOnce
<1>c. PICK c \in Clients : c = Current
  BY <1>2
<1>3. Links' = Links
  BY <1>1, LinksUnchanged
<1>4. Alive = TRUE /\ Alive' = TRUE
  BY <1>1 DEF Alive
<1>5. \A d \in Clients : d # c => frames'[d] = frames[d]
  BY <1>0, <1>c, RecvPackEffect DEF TypeOK
<1>6. \A d \in Clients : Readable(d)' <=> Readable(d)
  BY <1>1 DEF Readable, Agreeing, WholeWords
<1>7. Orderly' = Orderly /\ PutSizes' = PutSizes
  BY <1>1, <1>6 DEF Orderly, PutSizes
<1>8. ASSUME NEW d \in Clients, d # c PROVE TakenSizes'[d] = TakenSizes[d]
  BY <1>1, <1>5, <1>8, StreamUnchanged
<1>9. /\ TakenSizes = [d \in Clients |-> TakenSizes[d]]
      /\ TakenSizes' = [d \in Clients |-> TakenSizes'[d]]
  BY DEF TakenSizes
<1>10. CASE ~Readable(c)
  <2>1. TakenSizes'[c] = TakenSizes[c]
    BY <1>6, <1>10, UnreadableShown
  <2>2. TakenSizes' = TakenSizes
    BY <1>8, <1>9, <2>1
  <2> QED
    BY <1>1, <1>3, <1>4, <1>7, <2>2 DEF PS!vars
<1>11. CASE Readable(c)
  <2> DEFINE m == Len(frames[c])
  <2>1. /\ m + 1 \in 1..Len(sent[c]) /\ Len(frames'[c]) = m + 1
        /\ \A i \in 1..m : frames'[c][i] = frames[c][i]
        /\ frames'[c][m + 1] = [at |-> sent[c][m + 1].at, len |-> Size(sent[c][m + 1])]
    BY <1>c, <1>11, RecvPackReadable
  <2>2. m \in Nat /\ Len(sent[c]) \in Nat
    BY <1>0, LenProperties DEF TypeOK
  <2>3. /\ PutSizes[c] \in Seq(Nat) /\ Len(PutSizes[c]) = Len(sent[c])
        /\ \A i \in 1..Len(sent[c]) : PutSizes[c][i] = Size(sent[c][i])
        /\ TakenSizes[c] \in Seq(Nat) /\ Len(TakenSizes[c]) = m
        /\ \A i \in 1..m : TakenSizes[c][i] = frames[c][i].len
        /\ TakenSizes'[c] \in Seq(Nat) /\ Len(TakenSizes'[c]) = m + 1
        /\ \A i \in 1..m + 1 : TakenSizes'[c][i] = frames'[c][i].len
    BY <1>0, <1>6, <1>11, <2>1, ReadableShown
  <2>4. PutSizes[c][m + 1] \in Nat /\ PutSizes[c][m + 1] = Size(sent[c][m + 1])
    BY <2>1, <2>3, ElementOfSeq
  <2> DEFINE s == TakenSizes'[c]
  <2> DEFINE t == Append(TakenSizes[c], PutSizes[c][m + 1])
  <2>5. /\ t \in Seq(Nat) /\ Len(t) = m + 1
        /\ \A i \in 1..m : t[i] = TakenSizes[c][i]
        /\ t[m + 1] = PutSizes[c][m + 1]
    <3>1. /\ t \in Seq(Nat) /\ Len(t) = Len(TakenSizes[c]) + 1
          /\ \A i \in 1..Len(TakenSizes[c]) : t[i] = TakenSizes[c][i]
          /\ t[Len(TakenSizes[c]) + 1] = PutSizes[c][m + 1]
      <4>1. TakenSizes[c] \in Seq(Nat) /\ PutSizes[c][m + 1] \in Nat
        BY <2>3, <2>4
      <4> QED
        BY <4>1, AppendProperties
    <3>2. Len(TakenSizes[c]) = m
      BY <2>3
    <3> HIDE DEF t
    <3> QED
      BY <3>1, <3>2
  <2>6. \A i \in 1..m + 1 : i \in 1..m \/ i = m + 1
    BY <2>2
  <2>7. s[m + 1] = Size(sent[c][m + 1])
    <3>1. m + 1 \in 1..m + 1
      BY <2>2
    <3>2. TakenSizes'[c][m + 1] = frames'[c][m + 1].len
      BY <2>3, <3>1
    <3>3. frames'[c][m + 1].len = Size(sent[c][m + 1])
      BY <2>1
    <3> QED
      BY <3>2, <3>3
  <2>8. \A i \in 1..m : s[i] = TakenSizes[c][i]
    <3>1. \A i \in 1..m : i \in 1..m + 1
      BY <2>2
    <3> QED
      BY <2>1, <2>3, <3>1
  <2>9. s \in Seq(Nat) /\ Len(s) = Len(t) /\ \A i \in 1..Len(s) : s[i] = t[i]
    BY <2>3, <2>4, <2>5, <2>6, <2>7, <2>8
  <2>10. s = t
    <3> HIDE DEF s, t
    <3> QED
      BY <2>5, <2>9, SeqEqual
  <2>11. TakenSizes' = [TakenSizes EXCEPT ![c] = Append(@, PutSizes[c][Len(@) + 1])]
    BY <1>8, <1>9, <2>3, <2>10
  <2>12. Served(c)
    <3>1. curfd \in Fds /\ peer[curfd] = c
      BY <1>0, <1>1, <1>2, <1>c, CurrentType DEF IInv
    <3> QED
      BY <3>1 DEF Served
  <2>13. Links[c] = "up"
    BY <2>12, LinkCases
  <2>14. Len(TakenSizes[c]) < Len(PutSizes[c])
    BY <2>1, <2>2, <2>3
  <2>15. c \in Orderly
    BY <1>11 DEF Orderly
  <2>16. PS!Take(c)
    BY <1>1, <1>3, <1>4, <1>7, <2>11, <2>13, <2>14, <2>15 DEF PS!Take
  <2> QED
    BY <2>16
<1> QED
  BY <1>10, <1>11

-----------------------------------------------------------------------------
(* The refinement. *)

\* The initial state of the server is one of the abstract server.
LEMMA InitRefines == Init => PS!Init
<1> SUFFICES ASSUME Init PROVE PS!Init
  OBVIOUS
<1>1. \A c \in Clients : Link(c) = "none"
  BY TcpAssumption DEF Init, Link, FdsOf
<1>2. Links = [c \in Clients |-> "none"]
  BY <1>1 DEF Links
<1>3. PutSizes = [c \in Clients |-> <<>>] /\ TakenSizes = [c \in Clients |-> <<>>]
  <2>1. \A c \in Clients : sent[c] = <<>> /\ frames[c] = <<>>
    BY DEF Init
  <2>2. 1..0 = {} /\ Len(<<>>) = 0
    OBVIOUS
  <2>3. ASSUME NEW c \in Clients PROVE PutSizes[c] = <<>> /\ TakenSizes[c] = <<>>
    BY <2>1, <2>2 DEF PutSizes, TakenSizes
  <2> QED
    BY <2>3 DEF PutSizes, TakenSizes
<1>4. Orderly \subseteq Clients /\ Alive = TRUE
  BY DEF Orderly, Init, Alive
<1> QED
  BY <1>2, <1>3, <1>4 DEF PS!Init, Init

\* Every step is a step of the abstract server, or none.
LEMMA StepRefines == IInv /\ LastBegun /\ [Next]_vars => [PS!Next]_(PS!vars)
<1> SUFFICES ASSUME IInv, LastBegun, [Next]_vars PROVE PS!Next \/ UNCHANGED PS!vars
  OBVIOUS
<1>0. TypeOK /\ EventsHold
  BY DEF IInv
<1>1. ASSUME NEW c \in Clients, Connect(c) PROVE UNCHANGED PS!vars
  BY <1>1, ConnectRefines
<1>2. ASSUME NEW c \in Clients, Writes(c) PROVE PS!Next \/ UNCHANGED PS!vars
  BY <1>2, WriteRefines DEF PS!Next
<1>3. ASSUME NEW c \in Clients, Leaves(c) PROVE UNCHANGED PS!vars
  <2>1. /\ cstate[c] \in {"open", "waiting"} /\ cstate' = [cstate EXCEPT ![c] = "closed"]
        /\ UNCHANGED <<sent, frames, ended, backlog, peer, pc>>
    BY <1>3 DEF Leaves, readVars, connVars, loopVars
  <2>2. \A d \in Clients : (cstate'[d] = "new") = (cstate[d] = "new")
    BY <1>0, <2>1 DEF TypeOK
  <2> QED
    BY <2>1, <2>2, LinksUnchanged, Stutters DEF Alive
<1>4. ASSUME NEW c \in Clients, Deliver(c) PROVE UNCHANGED PS!vars
  <2>1. UNCHANGED <<cstate, sent, frames, ended, backlog, peer, pc>>
    BY <1>4 DEF Deliver, readVars, connVars
  <2> QED
    BY <2>1, LinksUnchanged, Stutters DEF Alive
<1>5. ASSUME NEW c \in Clients, DeliverFin(c) \/ Reset(c) PROVE PS!Next
  <2>1. /\ Alive /\ ended[c] = "no"
        /\ \E how \in {"fin", "reset"} : ended' = [ended EXCEPT ![c] = how]
        /\ UNCHANGED <<sent, frames, backlog, peer, pc>>
    BY <1>5 DEF DeliverFin, Reset, readVars, connVars
  <2>2. \A d \in Clients : (cstate'[d] = "new") = (cstate[d] = "new")
    <3>1. cstate' = cstate \/ (cstate[c] # "new" /\ cstate' = [cstate EXCEPT ![c] = "closed"])
      BY <1>5 DEF DeliverFin, Reset
    <3> QED
      BY <1>0, <3>1 DEF TypeOK
  <2>3. Links' = Links /\ Alive = TRUE /\ Alive' = TRUE
    BY <2>1, <2>2, LinksUnchanged DEF Alive
  <2>4. PS!Finish(c)
    BY <2>1, <2>3, Kept DEF PS!Finish
  <2> QED
    BY <2>4 DEF PS!Next
<1>6. CASE EpollWait \/ PeekSome \/ Sized
  <2>1. /\ UNCHANGED <<cstate, sent, frames, ended, backlog, peer>>
        /\ pc \notin {"dead", "stopped"} /\ pc' \notin {"dead", "stopped"}
    BY <1>6 DEF EpollWait, PeekSome, Sized, netVars, readVars, connVars, loopVars
  <2> QED
    BY <2>1, LinksUnchanged, Stutters DEF Alive
<1>7. CASE AcceptEvent
  BY <1>7, AcceptRefines DEF PS!Next
<1>8. ASSUME NEW f \in Fds, HupEvent(f) PROVE PS!Next
  <2>1. /\ peer[f] # None /\ peer' = [peer EXCEPT ![f] = None]
        /\ UNCHANGED <<cstate, ended, sent, frames, backlog>>
        /\ pc = "loop" /\ pc' \in {"wait", "loop"}
    BY <1>0, <1>8, AfterType DEF HupEvent, Drop, Processed, netVars, readVars, EventsHold
  <2>2. \E c \in Clients : PS!Drop(c)
    BY <2>1, DropRefines
  <2> QED
    BY <2>2 DEF PS!Next
<1>9. ASSUME NEW f \in Fds, InEvent(f) PROVE UNCHANGED PS!vars
  <2>1. /\ UNCHANGED <<cstate, sent, frames, ended, backlog, peer>>
        /\ pc \notin {"dead", "stopped"} /\ pc' \notin {"dead", "stopped"}
    BY <1>9 DEF InEvent, netVars, readVars, connVars
  <2> QED
    BY <2>1, LinksUnchanged, Stutters DEF Alive
<1>10. CASE PeekEnds
  <2>1. /\ curfd \in Fds /\ peer[curfd] # None /\ peer' = [peer EXCEPT ![curfd] = None]
        /\ UNCHANGED <<cstate, ended, sent, frames, backlog>>
        /\ pc = "peek" /\ pc' \in {"wait", "loop"}
    BY <1>0, <1>10, AfterType, TcpAssumption
       DEF PeekEnds, Drop, Returned, netVars, readVars, EventsHold
  <2>2. \E c \in Clients : PS!Drop(c)
    BY <2>1, DropRefines
  <2> QED
    BY <2>2 DEF PS!Next
<1>11. CASE RecvPack
  BY <1>11, RecvPackRefines DEF PS!Next
<1>12. CASE Ends
  <2>1. UNCHANGED <<cstate, sent, frames, ended, backlog, peer>> /\ pc' \in {"dead", "stopped"}
    BY <1>12 DEF Ends, netVars, readVars, connVars
  <2>2. Links' = Links
    BY <2>1, LinksUnchanged
  <2>3. CASE Alive
    <3>1. Alive = TRUE /\ Alive' = FALSE
      BY <2>1, <2>3 DEF Alive
    <3>2. PS!End
      BY <2>1, <2>2, <3>1, Kept DEF PS!End
    <3> QED
      BY <3>2 DEF PS!Next
  <2>4. CASE ~Alive
    <3>1. Alive' <=> Alive
      BY <2>1, <2>4 DEF Alive
    <3> QED
      BY <2>1, <2>2, <3>1, Stutters
  <2> QED
    BY <2>3, <2>4
<1>13. CASE UNCHANGED vars
  <2>1. UNCHANGED <<cstate, sent, frames, ended, backlog, peer, pc>>
    BY <1>13 DEF vars, netVars, readVars, connVars, loopVars
  <2> QED
    BY <2>1, LinksUnchanged, Stutters DEF Alive
<1> QED
  BY <1>1, <1>2, <1>3, <1>4, <1>5, <1>6, <1>7, <1>8, <1>9, <1>10, <1>11, <1>12,
     <1>13, StepCases

\* The loop, the network and the clients implement the abstract server.
THEOREM Refinement == Spec => ImplementsPacketServer
<1>1. Init => PS!Init
  BY InitRefines
<1>2. IInv /\ LastBegun /\ [Next]_vars => [PS!Next]_(PS!vars)
  BY StepRefines
<1> QED
  BY <1>1, <1>2, Invariance, Begun, PTL DEF Spec, ImplementsPacketServer, PS!Spec
=============================================================================
