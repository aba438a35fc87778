------------------------------- MODULE Transfer -------------------------------
(***************************************************************************)
(* The byte loops of src/common/transfer.cpp over one stream connection:   *)
(* a thread inside sendn(fd, vptr, data_size, flag) at one end, a thread   *)
(* inside recvn(fd, vptr, data_size, flag), or recvmsgn, at the other.     *)
(* The kernel takes what fits the socket buffer, so a packet may cross in  *)
(* pieces; either end may see the connection end at any moment.            *)
(*                                                                         *)
(* A byte is named by its place in the sender's buffer.  An interrupted    *)
(* call that moved nothing (EINTR) is repeated: it is a stuttering step.   *)
(***************************************************************************)
EXTENDS Naturals, Sequences

CONSTANTS
  SendSize,  \* data_size of sendn
  RecvSize,  \* data_size of recvn
  Capacity   \* bytes the kernel holds between the two ends

ASSUME TransferAssumption ==
  /\ SendSize \in Nat \ {0}
  /\ RecvSize \in Nat \ {0}
  /\ Capacity \in Nat \ {0}

VARIABLES
  flag,    \* of recvn: "none", MSG_PEEK, or "waitall" for the calls without a loop
  link,    \* "open", "fin" (the sender closed its end) or "reset"
  stream,  \* the bytes the kernel has taken from the sender, in order
  taken,   \* how many of them the receiver has removed
  sender,  \* "busy", or what sendn returned: "all" or "error"
  receiver,\* "busy", or what recvn returned: "count" or "error"
  unsent,  \* nleft of sendn
  nleft,   \* nleft of recvn
  buffer   \* what recvn has stored; 0 where nothing was

vars == <<flag, link, stream, taken, sender, receiver, unsent, nleft, buffer>>

Available == Len(stream) - taken
Received == RecvSize - nleft
Least(m, n) == IF m <= n THEN m ELSE n

Init ==
  /\ flag \in {"none", "peek", "waitall"}
  /\ link = "open"
  /\ stream = <<>>
  /\ taken = 0
  /\ sender = "busy"
  /\ receiver = "busy"
  /\ unsent = SendSize
  /\ nleft = RecvSize
  /\ buffer = [i \in 1..RecvSize |-> 0]

----------------------------------------------------------------------------
(* sendn.  The call passes vptr, not ptr: every round sends from the start. *)

\* Faulty variant: the kernel is asked for data_size bytes in every round.
SendWithoutCount(k) ==
  /\ sender = "busy" /\ unsent > 0
  /\ link = "open"
  /\ k <= SendSize /\ Available + k <= Capacity
  /\ stream' = stream \o [i \in 1..k |-> i]
  /\ unsent' = unsent - Least(k, unsent)
  /\ UNCHANGED <<flag, link, taken, sender, receiver, nleft, buffer>>

SendSome(k) ==
  /\ sender = "busy" /\ unsent > 0
  /\ link = "open"
  /\ k <= unsent /\ Available + k <= Capacity
  /\ stream' = stream \o [i \in 1..k |-> i]
  /\ unsent' = unsent - k
  /\ UNCHANGED <<flag, link, taken, sender, receiver, nleft, buffer>>

SendReturns ==
  /\ sender = "busy" /\ unsent = 0
  /\ sender' = "all"
  /\ UNCHANGED <<flag, link, stream, taken, receiver, unsent, nleft, buffer>>

\* send returned 0 or failed with something else than EINTR.
SendFails ==
  /\ sender = "busy" /\ unsent > 0
  /\ link = "reset"
  /\ sender' = "error"
  /\ UNCHANGED <<flag, link, stream, taken, receiver, unsent, nleft, buffer>>

----------------------------------------------------------------------------
(* recvn.  With the flag "waitall" the loop is the kernel's. *)

\* Faulty variant: every round stores at the start of the buffer.
RecvSomeAtStart(nread) ==
  /\ receiver = "busy" /\ nread <= Least(nleft, Available)
  /\ buffer' = [i \in 1..RecvSize |->
                  IF i \in 1..nread THEN stream[taken + i] ELSE buffer[i]]
  /\ nleft' = nleft - nread
  /\ taken' = IF flag = "peek" THEN taken ELSE taken + nread
  /\ UNCHANGED <<flag, link, stream, sender, receiver, unsent>>

\* Faulty variant: every round asks for data_size bytes.
RecvSomePast(nread) ==
  /\ receiver = "busy" /\ nleft > 0 /\ nread <= Available
  /\ buffer' = [i \in 1..RecvSize |->
                  IF i \in Received+1..Received+nread
                  THEN stream[taken + i - Received] ELSE buffer[i]]
  /\ nleft' = nleft - nread
  /\ taken' = IF flag = "peek" THEN taken ELSE taken + nread
  /\ UNCHANGED <<flag, link, stream, sender, receiver, unsent>>

\* One recv: what has come through so far, up to nleft bytes, goes to ptr, and
\* so it does if a reset came behind it.  With MSG_PEEK it stays in the socket,
\* and the next round sees it again.
RecvSome(nread) ==
  /\ receiver = "busy" /\ nread <= Least(nleft, Available)
  /\ buffer' = [i \in 1..RecvSize |->
                  IF i \in Received+1..Received+nread
                  THEN stream[taken + i - Received] ELSE buffer[i]]
  /\ nleft' = nleft - nread
  /\ taken' = IF flag = "peek" THEN taken ELSE taken + nread
  /\ UNCHANGED <<flag, link, stream, sender, receiver, unsent>>

RecvReturns ==
  /\ receiver = "busy" /\ nleft = 0
  /\ receiver' = "count"
  /\ UNCHANGED <<flag, link, stream, taken, sender, unsent, nleft, buffer>>

\* Faulty variant: end of file is taken for an interrupted call.
RecvEndIgnored ==
  /\ receiver = "busy" /\ nleft > 0
  /\ link = "fin" /\ Available = 0
  /\ UNCHANGED vars

\* Faulty variant: having nothing to read is taken for the end.
RecvEndEarly ==
  /\ receiver = "busy" /\ nleft > 0
  /\ link # "reset" /\ Available = 0
  /\ receiver' = "count"
  /\ UNCHANGED <<flag, link, stream, taken, sender, unsent, nleft, buffer>>

\* recv returned 0: the loop ends short of data_size.
RecvEnd ==
  /\ receiver = "busy" /\ nleft > 0
  /\ link = "fin" /\ Available = 0
  /\ receiver' = "count"
  /\ UNCHANGED <<flag, link, stream, taken, sender, unsent, nleft, buffer>>

\* A signal, or a reset, ends a call with MSG_WAITALL that has moved something.
RecvCutShort ==
  /\ receiver = "busy" /\ flag = "waitall"
  /\ 0 < nleft /\ nleft < RecvSize
  /\ receiver' = "count"
  /\ UNCHANGED <<flag, link, stream, taken, sender, unsent, nleft, buffer>>

\* Nothing came through before the reset, or nothing more: recv failed.  A call
\* with MSG_WAITALL that has moved something does not fail.
RecvFails ==
  /\ receiver = "busy" /\ nleft > 0
  /\ link = "reset"
  /\ flag = "waitall" => nleft = RecvSize
  /\ receiver' = "error"
  /\ UNCHANGED <<flag, link, stream, taken, sender, unsent, nleft, buffer>>

----------------------------------------------------------------------------
\* The sending process closes its end, after sendn or by ending inside it.
Fin ==
  /\ link = "open"
  /\ link' = "fin"
  /\ UNCHANGED <<flag, stream, taken, sender, receiver, unsent, nleft, buffer>>

\* The connection is reset: of the bytes the kernel had taken, those that had not
\* come through are lost.
Reset ==
  /\ link # "reset"
  /\ link' = "reset"
  /\ UNCHANGED <<flag, stream, taken, sender, receiver, unsent, nleft, buffer>>

SendNext == (\E k \in 1..SendSize : SendSome(k)) \/ SendReturns \/ SendFails
RecvNext ==
  \/ \E n \in 1..RecvSize : RecvSome(n)
  \/ RecvReturns \/ RecvEnd \/ RecvCutShort \/ RecvFails
Next == SendNext \/ RecvNext \/ Fin \/ Reset

Spec == Init /\ [][Next]_vars

\* What the kernel holds comes through, and the receiving thread runs when recv
\* has something to return.
FairSpec == Spec /\ WF_vars(RecvNext)

(***************************************************************************)
(* Properties.                                                             *)
(***************************************************************************)
TypeOK ==
  /\ flag \in {"none", "peek", "waitall"}
  /\ link \in {"open", "fin", "reset"}
  /\ stream \in Seq(1..SendSize)
  /\ taken \in Nat
  /\ sender \in {"busy", "all", "error"}
  /\ receiver \in {"busy", "count", "error"}
  /\ unsent \in 0..SendSize
  /\ nleft \in 0..RecvSize
  /\ buffer \in [1..RecvSize -> 0..SendSize]

\* However the bytes are cut up on the way, a recvn that consumes what it
\* reads stores the stream in order, without gap or repetition, removes from
\* the socket exactly what it stored, and leaves the rest of the buffer alone.
RecvnInOrder ==
  flag # "peek" =>
    /\ taken = Received /\ taken <= Len(stream)
    /\ \A i \in 1..RecvSize :
         buffer[i] = IF i <= Received THEN stream[i] ELSE 0

\* A count short of data_size means the stream ended there, or, for the
\* overload with MSG_WAITALL and recvmsgn, that a signal came in between.
ShortCountMeansEnd ==
  receiver = "count" /\ nleft > 0 =>
    \/ link # "open" /\ taken = Len(stream)
    \/ flag = "waitall" /\ nleft < RecvSize

\* sendn never hands the kernel more than data_size bytes, and exactly that
\* many when it says so, in however many rounds.
SendnCountsRight ==
  /\ Len(stream) + unsent = SendSize
  /\ sender = "all" => Len(stream) = SendSize

\* recvn returns once its bytes have arrived or the connection is over.
RecvnReturns ==
  (Len(stream) >= RecvSize \/ link # "open") ~> receiver # "busy"

\* What sendn sends is the buffer it was given, in order.
SendnSendsBuffer == \A i \in 1..Len(stream) : stream[i] = i

\* Preserved by every step.
IInv == TypeOK /\ RecvnInOrder /\ ShortCountMeansEnd /\ SendnCountsRight
=============================================================================
