SPECIFICATION Spec
CONSTANTS
  c1 = c1  c2 = c2  p1 = p1  p2 = p2
  Clients = {c1, c2}
  Polls = {p1, p2}
  Watch <- WatchFirst
  SendBuffer = 1
  BroadcastBuffer = 1
  MaxTally = 2
SYMMETRY AnyClient
INVARIANTS TypeOK HubNeverPanics NextUpdateRepairs
PROPERTIES OnlyTheSlowAreDropped
CHECK_DEADLOCK FALSE
