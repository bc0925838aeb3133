----------------------------- MODULE FifoChannel -----------------------------
(***************************************************************************)
(* What a thread's message channel promises to the threads that post to    *)
(* it (base_net_thread::put_msg): messages are handed to the receiver's    *)
(* handle_msg one at a time, in the order in which they were posted, each  *)
(* at most once.  The only way a message is not handed over is that the    *)
(* handler of a message posted before it threw an exception.               *)
(***************************************************************************)
EXTENDS Sequences, Naturals

CONSTANTS Msg,        \* the messages that can be posted
          Throwing,   \* the messages whose handler throws
          NoMsg       \* "nothing handled yet"

VARIABLES chan,       \* posted and not yet handed over, oldest first
          handled     \* the message handed over last

fifoVars == <<chan, handled>>

FifoInit == chan = <<>> /\ handled = NoMsg

Post(m) ==
  /\ chan' = Append(chan, m)
  /\ UNCHANGED handled

Deliver ==
  /\ chan # <<>>
  /\ Head(chan) \notin Throwing
  /\ handled' = Head(chan)
  /\ chan' = Tail(chan)

\* The handler of the oldest message throws, and takes k - 1 others with it.
Abort ==
  /\ chan # <<>>
  /\ Head(chan) \in Throwing
  /\ handled' = Head(chan)
  /\ \E k \in 1..Len(chan) : chan' = SubSeq(chan, k + 1, Len(chan))

FifoNext == (\E m \in Msg : Post(m)) \/ Deliver \/ Abort

FifoSpec == FifoInit /\ [][FifoNext]_fifoVars
=============================================================================
