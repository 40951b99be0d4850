SPECIFICATION Spec
CONSTANTS
  r1 = r1  r2 = r2
  ann = ann  bob = bob
  owner = owner
  red = red  blue = blue  green = green
  Requests = {r1, r2}
  Voters = {ann, bob}
  Users = {owner}
  Owner = owner
  OptionIDs = {red, blue, green}
  MinOptions = 2
  MaxOptions = 2
  MaxPollLifetime = 1
  MaxTime = 0
  MaxInFlight = 2
  MaxRetries = 1
  Faults = {}
  Calls <- TwoVotes
INVARIANTS NothingCountsTwice
CHECK_DEADLOCK FALSE
