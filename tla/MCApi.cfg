SPECIFICATION Spec
CONSTANTS
  r1 = r1  r2 = r2  r3 = r3  b1 = b1  b2 = b2  s1 = s1  s2 = s2
  Requests = {r1, r2, r3}
  Browsers = {b1, b2}
  Types <- TypesApart
  Mixes <- SomeMixes
  UserIDs = {r1, r2, r3}
  VoterIDs = {r1, r2, r3}
  Passwords = {b1, b2}
  Choices = {b1, b2}
  Addresses = {"ada"}
  Spellings = {"normal", s1, s2}
  Scopes = {"auth", "create", "vote"}
  Limit <- Limits
  Window <- Windows
  MaxRetries = 1
  MaxClock = 2
  TokenLife = 2
  VoterLife = 1
SYMMETRY Symmetry
INVARIANTS ApiOK OneAccountPerAddress SessionsAreEarned LessThanTwiceTheLimit RefusalsAreEarned BallotsPerBrowser OwnChoiceShown
PROPERTIES OneIdentityOnceSettled
CHECK_DEADLOCK FALSE
