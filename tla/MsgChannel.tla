----------------------------- MODULE MsgChannel ------------------------------
(***************************************************************************)
(* The message channel every thread of the program owns                    *)
(* (core/legacy_core_net.cpp, channel_data_process): two queues under a    *)
(* mutex, and a socketpair that carries one tag per message to wake the    *)
(* receiver's epoll loop.  Any thread may post; the owner drains.          *)
(*                                                                         *)
(* The receiver is not atomic: real_recv (core/legacy_core_net.h) first    *)
(* reads tags off the socket, then process_recv_buf takes the mutex and    *)
(* swaps a queue out, then handles the batch without the mutex, and last   *)
(* erases the tags it has answered from _recv_buf.  Producers interleave   *)
(* between these steps.  Tags are counted, not spelled: each is a whole    *)
(* CHANNEL_MSG_TAG, and both byte limits are multiples of its size.        *)
(***************************************************************************)
EXTENDS Naturals, Sequences

CONSTANTS Producers,  \* threads that post to this channel
          MaxMsgs,    \* bound: messages one producer posts
          SockCap,    \* tags the socketpair holds before send() gives EAGAIN
          RecvCap,    \* tags _recv_buf holds (MAX_RECV_SIZE)
          Throwing,   \* messages whose handler throws
          NoMsg       \* "nothing handled yet"

\* The n-th message of producer p.
Msg == Producers \X (1..MaxMsgs)

ASSUME ChannelAssumption ==
  /\ MaxMsgs \in Nat
  /\ SockCap \in Nat \ {0}
  /\ RecvCap \in Nat \ {0}
  /\ Throwing \subseteq Msg
  /\ NoMsg \notin Msg

VARIABLES queue,      \* _queue[0], _queue[1]
          current,    \* _current
          sock,       \* tags in flight in the socketpair
          recvBuf,    \* tags in the connection's _recv_buf
          pc,         \* where the receiver is: "wait", "drain", "handle"
          batch,      \* processing_queue: taken out and not yet handled
          taken,      \* messages of this batch already handled (the i of the loop)
          posted,     \* messages each producer has posted
          handled     \* history: the message handed to handle_msg last

vars == <<queue, current, sock, recvBuf, pc, batch, taken, posted, handled>>

Smaller(a, b) == IF a <= b THEN a ELSE b

Init ==
  /\ queue = [i \in {0, 1} |-> <<>>]
  /\ current = 0
  /\ sock = 0
  /\ recvBuf = 0
  /\ pc = "wait"
  /\ batch = <<>>
  /\ taken = 0
  /\ posted = [p \in Producers |-> 0]
  /\ handled = NoMsg

\* Mutant: the message joins the queue the receiver is about to swap out.
PutMsgToCurrent(p) ==
  /\ posted[p] < MaxMsgs
  /\ posted' = [posted EXCEPT ![p] = @ + 1]
  /\ queue' = [queue EXCEPT ![current] = Append(@, <<p, posted[p] + 1>>)]
  /\ sock' = Smaller(sock + 1, SockCap)
  /\ UNCHANGED <<current, recvBuf, pc, batch, taken, handled>>

\* put_msg: under the mutex, push to the idle queue and send one tag.  A send
\* that fails with EAGAIN because the socketpair is full is ignored.
PutMsg(p) ==
  /\ posted[p] < MaxMsgs
  /\ posted' = [posted EXCEPT ![p] = @ + 1]
  /\ queue' = [queue EXCEPT ![1 - current] = Append(@, <<p, posted[p] + 1>>)]
  /\ sock' = Smaller(sock + 1, SockCap)
  /\ UNCHANGED <<current, recvBuf, pc, batch, taken, handled>>

\* Mutant: a full _recv_buf stops the receiver instead of being processed.
ReceiveUnlessFull ==
  /\ pc = "wait"
  /\ sock > 0
  /\ recvBuf < RecvCap
  /\ LET n == Smaller(sock, RecvCap - recvBuf)
     IN  /\ sock' = sock - n
         /\ recvBuf' = recvBuf + n
  /\ pc' = "drain"
  /\ UNCHANGED <<queue, current, batch, taken, posted, handled>>

\* Mutant: tags are read without regard to the room left in _recv_buf.
ReceiveBeyondLimit ==
  /\ pc = "wait"
  /\ sock > 0
  /\ sock' = 0
  /\ recvBuf' = recvBuf + sock
  /\ pc' = "drain"
  /\ UNCHANGED <<queue, current, batch, taken, posted, handled>>

\* event_process and the first half of real_recv: the socketpair is readable
\* (epoll is level triggered), tags move to _recv_buf as far as it has room,
\* and process_recv_buf is entered because _recv_buf is not empty.
Receive ==
  /\ pc = "wait"
  /\ sock > 0
  /\ LET n == Smaller(sock, RecvCap - recvBuf)
     IN  /\ sock' = sock - n
         /\ recvBuf' = recvBuf + n
  /\ pc' = "drain"
  /\ UNCHANGED <<queue, current, batch, taken, posted, handled>>

\* process_recv_buf, the part under the mutex: flip when the current queue is
\* empty, then swap the current queue out.
Drain ==
  /\ pc = "drain"
  /\ current' = IF queue[current] = <<>> THEN 1 - current ELSE current
  /\ batch' = queue[current']
  /\ queue' = [queue EXCEPT ![current'] = <<>>]
  /\ taken' = 0
  /\ pc' = "handle"
  /\ UNCHANGED <<sock, recvBuf, posted, handled>>

\* One iteration of the loop over processing_queue.
HandleMsg ==
  /\ pc = "handle"
  /\ batch # <<>>
  /\ Head(batch) \notin Throwing
  /\ handled' = Head(batch)
  /\ batch' = Tail(batch)
  /\ taken' = taken + 1
  /\ UNCHANGED <<queue, current, sock, recvBuf, pc, posted>>

\* The handler throws: the exception leaves process_recv_buf and real_recv and
\* is caught in common_epoll::epoll_wait.  The rest of processing_queue dies
\* with the stack frame and the tags stay in _recv_buf.
HandleThrows ==
  /\ pc = "handle"
  /\ batch # <<>>
  /\ Head(batch) \in Throwing
  /\ handled' = Head(batch)
  /\ batch' = <<>>
  /\ taken' = 0
  /\ pc' = "wait"
  /\ UNCHANGED <<queue, current, sock, recvBuf, posted>>

\* Mutant: the receiver also empties the socketpair once the batch is done.
FinishAndFlush ==
  /\ pc = "handle"
  /\ batch = <<>>
  /\ recvBuf' = recvBuf - Smaller(taken, recvBuf)
  /\ taken' = 0
  /\ sock' = 0
  /\ pc' = "wait"
  /\ UNCHANGED <<queue, current, batch, posted, handled>>

\* The loop is over: process_recv_buf returns the tags it answered and
\* real_recv erases as many as _recv_buf holds.
Finish ==
  /\ pc = "handle"
  /\ batch = <<>>
  /\ recvBuf' = recvBuf - Smaller(taken, recvBuf)
  /\ taken' = 0
  /\ pc' = "wait"
  /\ UNCHANGED <<queue, current, sock, batch, posted, handled>>

Receiver == Receive \/ Drain \/ HandleMsg \/ HandleThrows \/ Finish

Next == (\E p \in Producers : PutMsg(p)) \/ Receiver

\* The owner's epoll loop never stops while the thread runs; producers may.
Fairness == WF_vars(Receiver)

Spec == Init /\ [][Next]_vars /\ Fairness
-----------------------------------------------------------------------------
\* Types; in particular the socketpair and _recv_buf never hold more than they can.
TypeOK ==
  /\ queue \in [{0, 1} -> Seq(Msg)]
  /\ current \in {0, 1}
  /\ sock \in 0..SockCap
  /\ recvBuf \in 0..RecvCap
  /\ pc \in {"wait", "drain", "handle"}
  /\ batch \in Seq(Msg)
  /\ taken \in Nat
  /\ posted \in [Producers -> 0..MaxMsgs]
  /\ handled \in Msg \cup {NoMsg}

\* Between two operations the queue the receiver swapped out last is empty, so
\* every waiting message is in the other one.
CurrentQueueEmpty == queue[current] = <<>>

\* No lost wakeup: while a message waits in a queue, a tag is readable on the
\* socketpair or the receiver has read its tags and not yet swapped.  It holds
\* although put_msg ignores a failed send, because a full socketpair is readable.
NoLostWakeup ==
  queue[0] # <<>> \/ queue[1] # <<>> => sock > 0 \/ pc = "drain"

\* The inductive invariant of the proofs.
ChannelInv ==
  /\ TypeOK
  /\ CurrentQueueEmpty
  /\ NoLostWakeup
  /\ pc # "handle" => batch = <<>>

\* What the receiver has not handled yet, oldest first.
Waiting == batch \o queue[1 - current]

Fifo == INSTANCE FifoChannel WITH chan <- Waiting

\* The two queues, the flip and the tags implement a first-in first-out channel.
ImplementsFifo == Fifo!FifoSpec

IsWaiting(m) == \E i \in DOMAIN Waiting : Waiting[i] = m

\* Every posted message leaves the channel: no schedule of producers and
\* receiver, no full socketpair and no full _recv_buf makes it wait forever.
EveryMessageLeaves == \A m \in Msg : IsWaiting(m) ~> ~IsWaiting(m)
=============================================================================
