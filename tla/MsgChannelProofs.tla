-------------------------- MODULE MsgChannelProofs ---------------------------
(***************************************************************************)
(* Theorems about the message channel, for any set of producers, any       *)
(* number of messages, any capacity of the socketpair and of _recv_buf,    *)
(* and any set of throwing handlers.                                       *)
(***************************************************************************)
EXTENDS MsgChannel, SequenceTheorems, TLAPS

\* Smaller is the minimum of its arguments.
LEMMA SmallerBounds ==
  ASSUME NEW a \in Nat, NEW b \in Nat
  PROVE  /\ Smaller(a, b) \in Nat
         /\ Smaller(a, b) <= a
         /\ Smaller(a, b) <= b
         /\ Smaller(a, b) \in {a, b}
BY DEF Smaller

\* The initial state satisfies the invariant.
LEMMA ChannelInit == Init => ChannelInv
BY ChannelAssumption, EmptySeq
   DEF Init, ChannelInv, TypeOK, CurrentQueueEmpty, NoLostWakeup

\* A post preserves the invariant: it goes to the idle queue and leaves the
\* socketpair readable, whether or not its own tag fitted.
LEMMA PutMsgInv ==
  ASSUME ChannelInv, NEW p \in Producers, PutMsg(p)
  PROVE  ChannelInv'
<1> DEFINE m == <<p, posted[p] + 1>>
<1>1. m \in Msg
  BY ChannelAssumption DEF ChannelInv, TypeOK, PutMsg, Msg
<1>2. /\ sock + 1 \in Nat /\ SockCap \in Nat
      /\ sock' = Smaller(sock + 1, SockCap)
      /\ sock' \in 0..SockCap /\ sock' > 0
  BY ChannelAssumption, SmallerBounds DEF ChannelInv, TypeOK, PutMsg, Smaller
<1>3. /\ queue' = [queue EXCEPT ![1 - current] = Append(@, m)]
      /\ 1 - current \in {0, 1} /\ 1 - current # current
      /\ queue[1 - current] \in Seq(Msg)
  BY DEF ChannelInv, TypeOK, PutMsg
<1>4. Append(queue[1 - current], m) \in Seq(Msg)
  BY <1>1, <1>3, AppendProperties
<1>5. queue' \in [{0, 1} -> Seq(Msg)] /\ queue'[current] = queue[current]
  BY <1>3, <1>4 DEF ChannelInv, TypeOK
<1>6. TypeOK'
  BY <1>2, <1>5, ChannelAssumption DEF ChannelInv, TypeOK, PutMsg
<1>7. CurrentQueueEmpty'
  BY <1>5 DEF ChannelInv, CurrentQueueEmpty, PutMsg
<1>8. NoLostWakeup'
  BY <1>2 DEF NoLostWakeup
<1>9. (pc # "handle" => batch = <<>>)'
  BY DEF ChannelInv, PutMsg
<1> QED BY <1>6, <1>7, <1>8, <1>9 DEF ChannelInv

\* Reading tags may leave the socketpair empty, but then the swap is next.
LEMMA ReceiveInv ==
  ASSUME ChannelInv, Receive
  PROVE  ChannelInv'
<1> DEFINE n == Smaller(sock, RecvCap - recvBuf)
<1>1. /\ sock \in Nat /\ recvBuf \in Nat /\ SockCap \in Nat /\ RecvCap \in Nat
      /\ sock <= SockCap /\ recvBuf <= RecvCap /\ RecvCap - recvBuf \in Nat
  BY ChannelAssumption DEF ChannelInv, TypeOK
<1>2. n \in Nat /\ n <= sock /\ n <= RecvCap - recvBuf
  BY <1>1, SmallerBounds
<1>3. sock' = sock - n /\ recvBuf' = recvBuf + n
  BY DEF Receive
<1>4. sock' \in 0..SockCap /\ recvBuf' \in 0..RecvCap
  BY <1>1, <1>2, <1>3
<1> QED
  BY <1>4 DEF ChannelInv, TypeOK, Receive, CurrentQueueEmpty, NoLostWakeup

\* The current queue is empty before the swap, so the swap flips, takes all
\* that waits and leaves both queues empty.
LEMMA DrainTakesAll ==
  ASSUME ChannelInv, Drain
  PROVE  /\ current' = 1 - current
         /\ batch' = queue[1 - current]
         /\ queue' = [queue EXCEPT ![1 - current] = <<>>]
         /\ \A i \in {0, 1} : queue'[i] = <<>>
BY DEF ChannelInv, TypeOK, CurrentQueueEmpty, Drain

\* The swap preserves the invariant.
LEMMA DrainInv ==
  ASSUME ChannelInv, Drain
  PROVE  ChannelInv'
<1>1. /\ current' = 1 - current
      /\ batch' = queue[1 - current]
      /\ queue' = [queue EXCEPT ![1 - current] = <<>>]
      /\ \A i \in {0, 1} : queue'[i] = <<>>
  BY DrainTakesAll
<1>2. <<>> \in Seq(Msg)
  OBVIOUS
<1>3. /\ current' \in {0, 1}
      /\ queue' \in [{0, 1} -> Seq(Msg)]
      /\ batch' \in Seq(Msg)
  BY <1>1, <1>2 DEF ChannelInv, TypeOK
<1> QED
  BY <1>1, <1>3 DEF ChannelInv, TypeOK, CurrentQueueEmpty, NoLostWakeup, Drain

\* Handling one message only shortens the batch.
LEMMA HandleMsgInv ==
  ASSUME ChannelInv, HandleMsg
  PROVE  ChannelInv'
<1>1. Head(batch) \in Msg /\ Tail(batch) \in Seq(Msg)
  BY HeadTailProperties DEF ChannelInv, TypeOK, HandleMsg
<1> QED
  BY <1>1 DEF ChannelInv, TypeOK, HandleMsg, CurrentQueueEmpty, NoLostWakeup

\* A throwing handler drops the batch; what waits in the queues is still announced.
LEMMA HandleThrowsInv ==
  ASSUME ChannelInv, HandleThrows
  PROVE  ChannelInv'
<1>1. Head(batch) \in Msg /\ <<>> \in Seq(Msg)
  BY HeadTailProperties, EmptySeq DEF ChannelInv, TypeOK, HandleThrows
<1> QED
  BY <1>1 DEF ChannelInv, TypeOK, HandleThrows, CurrentQueueEmpty, NoLostWakeup

\* Erasing answered tags never touches the tags still in the socketpair.
LEMMA FinishInv ==
  ASSUME ChannelInv, Finish
  PROVE  ChannelInv'
<1>1. /\ taken \in Nat /\ recvBuf \in Nat /\ RecvCap \in Nat /\ recvBuf <= RecvCap
  BY ChannelAssumption DEF ChannelInv, TypeOK
<1>2. recvBuf' \in 0..RecvCap
  BY <1>1, SmallerBounds DEF Finish, Smaller
<1> QED
  BY <1>2 DEF ChannelInv, TypeOK, Finish, CurrentQueueEmpty, NoLostWakeup

\* Every step preserves the invariant.
LEMMA ChannelStep == ChannelInv /\ [Next]_vars => ChannelInv'
<1> SUFFICES ASSUME ChannelInv, [Next]_vars PROVE ChannelInv'
  OBVIOUS
<1>1. CASE \E p \in Producers : PutMsg(p)
  BY <1>1, PutMsgInv
<1>2. CASE Receive
  BY <1>2, ReceiveInv
<1>3. CASE Drain
  BY <1>3, DrainInv
<1>4. CASE HandleMsg
  BY <1>4, HandleMsgInv
<1>5. CASE HandleThrows
  BY <1>5, HandleThrowsInv
<1>6. CASE Finish
  BY <1>6, FinishInv
<1>7. CASE UNCHANGED vars
  BY <1>7 DEF vars, ChannelInv, TypeOK, CurrentQueueEmpty, NoLostWakeup
<1> QED
  BY <1>1, <1>2, <1>3, <1>4, <1>5, <1>6, <1>7 DEF Next, Receiver

\* The invariant holds in every reachable state of the channel.
THEOREM ChannelInvariant == Spec => []ChannelInv
<1>1. Init => ChannelInv
  BY ChannelInit
<1>2. ChannelInv /\ [Next]_vars => ChannelInv'
  BY ChannelStep
<1> QED BY <1>1, <1>2, PTL DEF Spec

\* Type correctness of the channel.
THEOREM ChannelTypeOK == Spec => []TypeOK
<1>1. ChannelInv => TypeOK
  BY DEF ChannelInv
<1> QED BY <1>1, ChannelInvariant, PTL

\* put_msg and process_recv_buf never lose a wakeup, whatever the capacities.
THEOREM ChannelNoLostWakeup == Spec => []NoLostWakeup
<1>1. ChannelInv => NoLostWakeup
  BY DEF ChannelInv
<1> QED BY <1>1, ChannelInvariant, PTL
-----------------------------------------------------------------------------
(* The refinement: batch followed by the idle queue is the abstract channel. *)

\* What waits is always a sequence of messages.
LEMMA WaitingIsSeq ==
  ASSUME ChannelInv
  PROVE  /\ batch \in Seq(Msg)
         /\ queue[1 - current] \in Seq(Msg)
         /\ Waiting \in Seq(Msg)
<1>1. batch \in Seq(Msg) /\ queue[1 - current] \in Seq(Msg)
  BY DEF ChannelInv, TypeOK
<1> QED BY <1>1, ConcatProperties DEF Waiting

\* Appending to the second part of a concatenation appends to the whole.
LEMMA ConcatAppend ==
  ASSUME NEW S, NEW s \in Seq(S), NEW t \in Seq(S), NEW e \in S
  PROVE  s \o Append(t, e) = Append(s \o t, e)
OBVIOUS

\* put_msg appends its message to what waits.
LEMMA PutMsgRefines ==
  ASSUME ChannelInv, NEW p \in Producers, PutMsg(p)
  PROVE  \E m \in Msg : Fifo!Post(m)
<1> DEFINE m == <<p, posted[p] + 1>>
<1> DEFINE q == queue[1 - current]
<1>1. m \in Msg
  BY ChannelAssumption DEF ChannelInv, TypeOK, PutMsg, Msg
<1>2. batch \in Seq(Msg) /\ q \in Seq(Msg) 
  BY <1>1, WaitingIsSeq
<1>3. Waiting' = batch \o Append(q, m)
  <2>1. batch' = batch /\ current' = current
    BY DEF PutMsg
  <2>2. queue'[1 - current] = Append(q, m)
    BY DEF ChannelInv, TypeOK, PutMsg
  <2> QED BY <2>1, <2>2 DEF Waiting
<1>4. batch \o Append(q, m) = Append(batch \o q, m)
  BY <1>1, <1>2, ConcatAppend
<1>5. Waiting' = Append(Waiting, m)
  BY <1>3, <1>4 DEF Waiting
<1> QED BY <1>1, <1>5 DEF Fifo!Post, PutMsg

\* The swap moves what waits and changes nothing of it.
LEMMA DrainRefines ==
  ASSUME ChannelInv, Drain
  PROVE  Waiting' = Waiting
<1>1. /\ current' = 1 - current
      /\ batch' = queue[1 - current]
      /\ \A i \in {0, 1} : queue'[i] = <<>>
  BY DrainTakesAll
<1>2. batch = <<>> /\ 1 - current' \in {0, 1}
  BY <1>1 DEF ChannelInv, TypeOK, Drain
<1>3. Waiting' = queue[1 - current] \o <<>> /\ Waiting = <<>> \o queue[1 - current]
  BY <1>1, <1>2 DEF Waiting
<1> QED BY <1>3, WaitingIsSeq, ConcatEmptySeq

\* Head and tail of a concatenation whose first part is not empty.
LEMMA ConcatHeadTail ==
  ASSUME NEW S, NEW s \in Seq(S), NEW t \in Seq(S), s # <<>>
  PROVE  /\ s \o t \in Seq(S)
         /\ s \o t # <<>>
         /\ Len(s \o t) = Len(s) + Len(t)
         /\ Len(s) \in 1..Len(s \o t)
         /\ Head(s \o t) = Head(s)
         /\ Tail(s \o t) = Tail(s) \o t
         /\ SubSeq(s \o t, Len(s) + 1, Len(s \o t)) = t
OBVIOUS

\* A handled message is the oldest that waits.
LEMMA HandleMsgRefines ==
  ASSUME ChannelInv, HandleMsg
  PROVE  Fifo!Deliver
<1>1. Waiting' = Tail(batch) \o queue[1 - current]
  BY DEF HandleMsg, Waiting
<1>2. batch \in Seq(Msg) /\ queue[1 - current] \in Seq(Msg) /\ batch # <<>>
  BY WaitingIsSeq DEF HandleMsg
<1>3. /\ Waiting # <<>> /\ Head(Waiting) = Head(batch)
      /\ Tail(Waiting) = Tail(batch) \o queue[1 - current]
  BY <1>2, ConcatHeadTail DEF Waiting
<1>4. Waiting' = Tail(Waiting)
  BY <1>1, <1>3
<1> QED BY <1>3, <1>4 DEF Fifo!Deliver, HandleMsg

\* A throwing handler takes the rest of its batch, a prefix of what waits.
LEMMA HandleThrowsRefines ==
  ASSUME ChannelInv, HandleThrows
  PROVE  Fifo!Abort
<1> DEFINE q == queue[1 - current]
<1>1. Waiting' = <<>> \o q
  BY DEF HandleThrows, Waiting
<1>2. Waiting' = q
  BY <1>1, WaitingIsSeq, ConcatEmptySeq
<1>3. /\ Waiting # <<>> /\ Head(Waiting) = Head(batch)
      /\ Len(batch) \in 1..Len(Waiting)
      /\ SubSeq(Waiting, Len(batch) + 1, Len(Waiting)) = q
  BY WaitingIsSeq, ConcatHeadTail DEF HandleThrows, Waiting
<1>4. \E k \in 1..Len(Waiting) : Waiting' = SubSeq(Waiting, k + 1, Len(Waiting))
  BY <1>2, <1>3
<1> QED BY <1>3, <1>4 DEF Fifo!Abort, HandleThrows

\* Every step of the channel is a step of the first-in first-out channel, or
\* changes nothing of it.
LEMMA StepRefines == ChannelInv /\ [Next]_vars => [Fifo!FifoNext]_(Fifo!fifoVars)
<1> SUFFICES ASSUME ChannelInv, [Next]_vars PROVE [Fifo!FifoNext]_(Fifo!fifoVars)
  OBVIOUS
<1>1. CASE \E p \in Producers : PutMsg(p)
  BY <1>1, PutMsgRefines DEF Fifo!FifoNext
<1>2. CASE Receive
  BY <1>2 DEF Receive, Waiting, Fifo!fifoVars
<1>3. CASE Drain
  BY <1>3, DrainRefines DEF Drain, Fifo!fifoVars
<1>4. CASE HandleMsg
  BY <1>4, HandleMsgRefines DEF Fifo!FifoNext
<1>5. CASE HandleThrows
  BY <1>5, HandleThrowsRefines DEF Fifo!FifoNext
<1>6. CASE Finish
  BY <1>6 DEF Finish, Waiting, Fifo!fifoVars
<1>7. CASE UNCHANGED vars
  BY <1>7 DEF vars, Waiting, Fifo!fifoVars
<1> QED
  BY <1>1, <1>2, <1>3, <1>4, <1>5, <1>6, <1>7 DEF Next, Receiver

\* The two queues, the flip and the tags implement a first-in first-out channel,
\* for any producers, capacities and throwing handlers.
THEOREM ChannelImplementsFifo == Spec => ImplementsFifo
<1>1. Init => Fifo!FifoInit
  BY DEF Init, Waiting, Fifo!FifoInit
<1>2. ChannelInv /\ [Next]_vars => [Fifo!FifoNext]_(Fifo!fifoVars)
  BY StepRefines
<1> QED
  BY <1>1, <1>2, ChannelInvariant, PTL DEF Spec, ImplementsFifo, Fifo!FifoSpec
=============================================================================
