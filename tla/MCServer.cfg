SPECIFICATION SFairSpec
CONSTANTS
  c1 = c1  p1 = p1  p2 = p2
  Clients = {c1}
  Polls = {p1}
  Watch <- WatchFirst
  SendBuffer = 1
  BroadcastBuffer = 1
  SubscriberBuffer = 1
  Channels = {p1, p2}
  MaxTally = 2
INVARIANTS ServerOK MissesAreExplained ScreensAreGenuine RequestsFindTheirStores
PROPERTIES OnlyItsSnapshotSetsAScreenBack UpdatesReachTheScreens StopsWhenTold
CHECK_DEADLOCK FALSE
