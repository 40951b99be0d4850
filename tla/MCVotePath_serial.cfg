SPECIFICATION Spec
CONSTANTS
  r1 = r1  r2 = r2  r3 = r3
  ann = ann  bob = bob
  owner = owner  stranger = stranger
  red = red  blue = blue  green = green
  Requests = {r1, r2, r3}
  Voters = {ann, bob}
  Users = {owner}
  Owner = owner
  OptionIDs = {red, blue, green}
  MinOptions = 2
  MaxOptions = 2
  MaxPollLifetime = 2
  MaxTime = 2
  MaxInFlight = 1
  MaxRetries = 1
  Faults = {"evict"}
  Calls <- AllCalls
SYMMETRY AnyName
INVARIANTS QuietCountersExact QuietUpdateCurrent
CHECK_DEADLOCK FALSE
