SPECIFICATION Spec
CONSTANTS
  c1 = c1
  c2 = c2
  Blank = Blank
  Clients = {c1, c2}
  Request <- MCRequest
  Kind <- MCKind
  BodyLen = 1
  SockRoom = 2
  IdleTime = 1
INVARIANTS TypeOK OwnAnswersOnly StreamOrdered NoEarlyAnswer AnswerUnderWayUntilReset IdleTimerArmed
