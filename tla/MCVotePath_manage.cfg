SPECIFICATION FairSpec
CONSTANTS
  r1 = r1  r2 = r2 r3 = r3 ann = ann bob = bob owner = owner stranger = stranger red = red blue = blue green = green
  Requests = {r1, r2}
  Voters = {ann, bob}
  Users = {owner, stranger}
  Owner = owner
  OptionIDs = {red, blue, green}
  MinOptions = 2
  MaxOptions = 2
  MaxPollLifetime = 1
  MaxTime = 1
  MaxInFlight = 2
  MaxRetries = 1
  Faults = {"mongo", "redis", "evict", "crash"}
  Calls <- MixedCalls
INVARIANTS TypeOK AnswersAreTruthful StrangersRefused ManagementSticks
PROPERTIES LiveVotesNeverVanish ImplementsBallotBox Answered
CHECK_DEADLOCK FALSE
