SPECIFICATION Spec
CONSTANTS
  c1 = c1  p1 = p1
  Clients = {c1}
  Polls = {p1}
  Watch <- WatchFirst
  SendBuffer = 1
  BroadcastBuffer = 1
  MaxTally = 1
INVARIANTS NeverSendsOnClosed
CHECK_DEADLOCK FALSE
