SPECIFICATION FairSpec
CONSTANTS
  s1 = s1  s2 = s2
  Sockets = {s1, s2}
  MaxAttempts = 2
  MaxTally = 2
  MaxFrames = 1
INVARIANTS ViewOK BadgeIsHonest SomebodyTries StaleScreensAreLate
PROPERTIES NothingStaysMissed RetriesEnd
CHECK_DEADLOCK FALSE
