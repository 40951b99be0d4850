SPECIFICATION FairSpec
CONSTANTS
  c1 = c1  c2 = c2  p1 = p1  p2 = p2
  Clients = {c1, c2}
  Polls = {p1}
  Watch <- WatchFirst
  SendBuffer = 1
  BroadcastBuffer = 1
  MaxTally = 1
PROPERTIES ConnectionsEnd
CHECK_DEADLOCK FALSE
