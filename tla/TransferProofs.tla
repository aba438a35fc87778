---------------------------- MODULE TransferProofs ----------------------------
(***************************************************************************)
(* recvn and sendn for buffers of every size, every capacity of the        *)
(* connection and every way of cutting the stream: recvn without MSG_PEEK  *)
(* stores the stream in order, a short count means its end, and sendn      *)
(* moves exactly the number of bytes it reports (though not the right      *)
(* ones: see SendnSendsBuffer).                                            *)
(***************************************************************************)
EXTENDS Transfer, Integers, TLAPS

USE TransferAssumption

\* At the start nothing has been moved.
LEMMA InitInv == Init => IInv
BY DEF Init, IInv, TypeOK, RecvnInOrder, ShortCountMeansEnd, SendnCountsRight, Received

\* One round of sendn adds k bytes at the end of the stream: what the receiver
\* has stored is a prefix of it as before.
LEMMA SendSomeInv ==
  ASSUME IInv, NEW k \in 1..SendSize, SendSome(k)
  PROVE  IInv'
<1> DEFINE sent == [i \in 1..k |-> i]
<1>1. /\ stream \in Seq(1..SendSize) /\ sent \in Seq(1..SendSize)
      /\ Len(sent) = k
  BY DEF IInv, TypeOK
<1>2. /\ stream' = stream \o sent
      /\ stream' \in Seq(1..SendSize)
      /\ Len(stream') = Len(stream) + k
      /\ \A i \in 1..Len(stream) : stream'[i] = stream[i]
  BY <1>1 DEF SendSome
<1>3. TypeOK'
  BY <1>2 DEF SendSome, IInv, TypeOK
<1>4. RecvnInOrder'
  <2>1. CASE flag = "peek"
    BY <2>1 DEF RecvnInOrder, SendSome
  <2>2. CASE flag # "peek"
    <3>1. /\ taken = Received /\ taken <= Len(stream)
          /\ \A i \in 1..RecvSize : buffer[i] = IF i <= Received THEN stream[i] ELSE 0
      BY <2>2 DEF IInv, RecvnInOrder
    <3>2. Received' = Received /\ Received \in Nat /\ taken' = taken /\ buffer' = buffer
      BY DEF SendSome, Received, IInv, TypeOK
    <3>3. \A i \in 1..RecvSize : i <= Received => stream'[i] = stream[i]
      BY <3>1, <3>2, <1>1, <1>2
    <3> QED
      BY <3>1, <3>2, <3>3, <1>1, <1>2 DEF RecvnInOrder, SendSome
  <2> QED
    BY <2>1, <2>2
<1>5. ShortCountMeansEnd'
  BY DEF SendSome, IInv, ShortCountMeansEnd
<1>6. SendnCountsRight'
  <2>1. unsent \in Nat /\ Len(stream) \in Nat /\ Len(stream) + unsent = SendSize
    BY <1>1 DEF IInv, TypeOK, SendnCountsRight
  <2>2. k <= unsent /\ unsent' = unsent - k /\ sender' = "busy"
    BY DEF SendSome
  <2>3. Len(stream') + unsent' = SendSize
    BY <1>2, <2>1, <2>2
  <2> QED
    BY <2>2, <2>3 DEF SendnCountsRight
<1> QED
  BY <1>3, <1>4, <1>5, <1>6 DEF IInv

\* One round of recvn stores the next bytes of the stream behind the ones it
\* has: the place in the buffer and the place in the stream move together.
LEMMA RecvSomeInv ==
  ASSUME IInv, NEW n \in 1..RecvSize, RecvSome(n)
  PROVE  IInv'
<1>1. /\ stream \in Seq(1..SendSize) /\ Len(stream) \in Nat
      /\ taken \in Nat /\ nleft \in 0..RecvSize
  BY DEF IInv, TypeOK
<1>2. /\ n \in 1..nleft /\ taken + n <= Len(stream)
      /\ nleft' = nleft - n
      /\ stream' = stream
      /\ taken' = IF flag = "peek" THEN taken ELSE taken + n
      /\ buffer' = [i \in 1..RecvSize |->
                      IF i \in Received+1..Received+n
                      THEN stream[taken + i - Received] ELSE buffer[i]]
      /\ receiver = "busy"
      /\ UNCHANGED <<flag, link, sender, receiver, unsent>>
  <2>1. n > 0 /\ n <= nleft /\ n <= Available /\ n \in Int
    BY <1>1 DEF RecvSome, Least, Available
  <2> QED
    BY <1>1, <2>1 DEF RecvSome, Available
<1>3. Received \in Nat /\ Received' = Received + n /\ Received' <= RecvSize
  BY <1>1, <1>2 DEF Received
<1>4. TypeOK'
  <2>1. \A i \in Received+1..Received+n : stream[taken + i - Received] \in 0..SendSize
    BY <1>1, <1>2, <1>3
  <2>2. buffer' \in [1..RecvSize -> 0..SendSize]
    BY <1>2, <2>1 DEF IInv, TypeOK
  <2> QED
    BY <1>1, <1>2, <2>2 DEF IInv, TypeOK
<1>5. RecvnInOrder'
  <2>1. CASE flag = "peek"
    BY <2>1, <1>2 DEF RecvnInOrder
  <2>2. CASE flag # "peek"
    <3>1. /\ taken = Received
          /\ \A i \in 1..RecvSize : buffer[i] = IF i <= Received THEN stream[i] ELSE 0
      BY <2>2 DEF IInv, RecvnInOrder
    <3>2. taken' = Received' /\ taken' <= Len(stream')
      BY <1>2, <1>3, <2>2, <3>1
    <3>3. ASSUME NEW i \in 1..RecvSize
          PROVE  buffer'[i] = IF i <= Received' THEN stream'[i] ELSE 0
      <4>1. CASE i <= Received
        BY <1>2, <1>3, <3>1, <4>1
      <4>2. CASE i > Received /\ i <= Received + n
        <5>1. i \in Received+1..Received+n /\ taken + i - Received = i
          BY <1>3, <3>1, <4>2
        <5> QED
          BY <1>2, <1>3, <5>1, <4>2
      <4>3. CASE i > Received + n
        BY <1>2, <1>3, <3>1, <4>3
      <4> QED
        BY <1>2, <1>3, <4>1, <4>2, <4>3
    <3> QED
      BY <3>2, <3>3 DEF RecvnInOrder
  <2> QED
    BY <2>1, <2>2
<1>6. ShortCountMeansEnd'
  BY <1>2 DEF ShortCountMeansEnd
<1>7. SendnCountsRight'
  BY <1>2 DEF IInv, SendnCountsRight
<1> QED
  BY <1>4, <1>5, <1>6, <1>7 DEF IInv

\* The steps that move no byte.
LEMMA QuietInv ==
  ASSUME IInv,
         \/ SendReturns \/ SendFails \/ RecvReturns \/ RecvEnd
         \/ RecvCutShort \/ RecvFails \/ Fin \/ Reset
  PROVE  IInv'
<1>1. UNCHANGED <<flag, stream, taken, unsent, nleft, buffer>>
  BY DEF SendReturns, SendFails, RecvReturns, RecvEnd, RecvCutShort, RecvFails, Fin, Reset
<1>2. TypeOK'
  BY <1>1 DEF IInv, TypeOK, SendReturns, SendFails, RecvReturns, RecvEnd,
              RecvCutShort, RecvFails, Fin, Reset
<1>3. RecvnInOrder'
  BY <1>1 DEF IInv, RecvnInOrder, Received
<1>4. SendnCountsRight'
  BY <1>1 DEF IInv, TypeOK, SendnCountsRight, SendReturns, SendFails, RecvReturns,
              RecvEnd, RecvCutShort, RecvFails, Fin, Reset
<1>5. ShortCountMeansEnd'
  <2>1. CASE RecvEnd
    <3>1. taken = Len(stream)
      BY <2>1 DEF IInv, TypeOK, RecvnInOrder, RecvEnd, Available
    <3> QED
      BY <2>1, <3>1, <1>1 DEF RecvEnd, ShortCountMeansEnd
  <2>2. CASE SendReturns \/ SendFails \/ RecvReturns \/ RecvCutShort \/ RecvFails
    BY <2>2, <1>1 DEF IInv, ShortCountMeansEnd, SendReturns, SendFails, RecvReturns,
                      RecvCutShort, RecvFails
  <2>3. CASE Fin \/ Reset
    BY <2>3, <1>1 DEF IInv, ShortCountMeansEnd, Fin, Reset
  <2> QED
    BY <2>1, <2>2, <2>3
<1> QED
  BY <1>2, <1>3, <1>4, <1>5 DEF IInv

\* Every step preserves the invariant.
LEMMA StepInv == IInv /\ [Next]_vars => IInv'
<1> SUFFICES ASSUME IInv, [Next]_vars PROVE IInv'
  OBVIOUS
<1>1. CASE \E k \in 1..SendSize : SendSome(k)
  BY <1>1, SendSomeInv
<1>2. CASE \E n \in 1..RecvSize : RecvSome(n)
  BY <1>2, RecvSomeInv
<1>3. CASE \/ SendReturns \/ SendFails \/ RecvReturns \/ RecvEnd
           \/ RecvCutShort \/ RecvFails \/ Fin \/ Reset
  BY <1>3, QuietInv
<1>4. CASE UNCHANGED vars
  BY <1>4 DEF vars, IInv, TypeOK, RecvnInOrder, ShortCountMeansEnd, SendnCountsRight, Received
<1> QED
  BY <1>1, <1>2, <1>3, <1>4 DEF Next, SendNext, RecvNext

\* The invariant of Transfer (sendn, recvn and recvmsgn together) holds in
\* every state of every behaviour.
THEOREM TransferInvariance == Spec => []IInv
<1>1. Init => IInv
  BY InitInv
<1>2. IInv /\ [Next]_vars => IInv'
  BY StepInv
<1> QED
  BY <1>1, <1>2, PTL DEF Spec

\* The counts of sendn and recvn stay within data_size, and the stream within
\* its buffers.
THEOREM TransferTypes == Spec => []TypeOK
<1>1. IInv => TypeOK
  BY DEF IInv
<1> QED
  BY <1>1, TransferInvariance, PTL

\* recvn (transfer.cpp:7-28, flag 0) and the calls with MSG_WAITALL store the
\* stream in order, whatever the pieces it arrives in.
THEOREM ReceivedInOrder == Spec => []RecvnInOrder
<1>1. IInv => RecvnInOrder
  BY DEF IInv
<1> QED
  BY <1>1, TransferInvariance, PTL

\* A count below data_size is a stream that ended, or a signal under MSG_WAITALL.
THEOREM ShortCounts == Spec => []ShortCountMeansEnd
<1>1. IInv => ShortCountMeansEnd
  BY DEF IInv
<1> QED
  BY <1>1, TransferInvariance, PTL

\* sendn (transfer.cpp:34-53) moves as many bytes as it reports.
THEOREM SentCounts == Spec => []SendnCountsRight
<1>1. IInv => SendnCountsRight
  BY DEF IInv
<1> QED
  BY <1>1, TransferInvariance, PTL

-----------------------------------------------------------------------------
\* A round of sendn that takes all of the buffer at once sends it as it is.
LEMMA WholeRound ==
  ASSUME IInv, SendnSendsBuffer, unsent \in {0, SendSize}, unsent' \in {0, SendSize},
         [Next]_vars
  PROVE  SendnSendsBuffer'
<1>1. CASE UNCHANGED stream
  BY <1>1 DEF SendnSendsBuffer
<1>2. ASSUME NEW k \in 1..SendSize, SendSome(k) PROVE SendnSendsBuffer'
  <2>1. unsent = SendSize /\ k \in Nat \ {0}
    BY <1>2 DEF SendSome
  <2>2. Len(stream) = 0 /\ stream \in Seq(1..SendSize)
    BY <2>1 DEF IInv, TypeOK, SendnCountsRight
  <2>3. stream' = stream \o [i \in 1..k |-> i]
    BY <1>2 DEF SendSome
  <2>4. \A i \in 1..Len(stream') : stream'[i] = i
    <3> DEFINE round == [i \in 1..k |-> i]
    <3>1. round \in Seq(1..SendSize) /\ Len(round) = k /\ \A i \in 1..k : round[i] = i
      BY <2>1
    <3> HIDE DEF round
    <3> QED
      BY <2>2, <2>3, <3>1 DEF round
  <2> QED
    BY <2>4 DEF SendnSendsBuffer
<1> QED
  BY <1>1, <1>2 DEF Next, SendNext, SendReturns, SendFails, RecvNext, RecvSome, RecvReturns,
                    RecvEnd, RecvCutShort, RecvFails, Fin, Reset, vars

\* sendn sends the buffer it was given as long as the kernel takes all of it in
\* the first round: it takes a partial send to violate SendnSendsBuffer.
THEOREM WholeSendsAreRight ==
  Spec /\ [](unsent \in {0, SendSize}) => []SendnSendsBuffer
<1>1. Init => SendnSendsBuffer
  BY DEF Init, SendnSendsBuffer
<1>2. /\ IInv /\ SendnSendsBuffer /\ [Next]_vars
      /\ unsent \in {0, SendSize} /\ (unsent \in {0, SendSize})'
      => SendnSendsBuffer'
  BY WholeRound
<1> QED
  BY <1>1, <1>2, TransferInvariance, PTL DEF Spec

\* From end to end: what sendn moved in one round reaches the buffer of recvn as
\* it left that of sendn, in however many pieces it is received.
THEOREM WholePacketsArrive ==
  Spec /\ [](unsent \in {0, SendSize})
    => [](flag # "peek" => \A i \in 1..RecvSize : i <= Received => buffer[i] = i)
<1>1. IInv /\ SendnSendsBuffer
        => (flag # "peek" => \A i \in 1..RecvSize : i <= Received => buffer[i] = i)
  <2> SUFFICES ASSUME IInv, SendnSendsBuffer, flag # "peek", NEW i \in 1..RecvSize, i <= Received
               PROVE  buffer[i] = i
    OBVIOUS
  <2>1. buffer[i] = stream[i] /\ taken = Received /\ taken <= Len(stream)
    BY DEF IInv, RecvnInOrder
  <2>2. Received \in Nat /\ Len(stream) \in Nat
    BY TransferAssumption DEF IInv, TypeOK, Received
  <2>3. i \in 1..Len(stream)
    BY <2>1, <2>2
  <2> QED
    BY <2>1, <2>3 DEF SendnSendsBuffer
<1> QED
  BY <1>1, WholeSendsAreRight, TransferInvariance, PTL
=============================================================================
