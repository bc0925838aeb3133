SPECIFICATION Spec
CONSTANTS
  p1 = p1
  p2 = p2
  NoMsg = NoMsg
  Producers <- MCProducers
  Throwing <- MCThrowing
  MaxMsgs = 3
  SockCap = 2
  RecvCap = 2
INVARIANTS TypeOK NoLostWakeup
PROPERTIES ImplementsFifo EveryMessageLeaves
CHECK_DEADLOCK FALSE
