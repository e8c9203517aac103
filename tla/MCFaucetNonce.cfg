SPECIFICATION Spec
CONSTANTS
  w1 = w1  w2 = w2  w3 = w3  b1 = b1  b2 = b2  b3 = b3  b4 = b4
  a1 = a1  a2 = a2  u1 = u1  u2 = u2
  Web = {w1, w2}
  Bot = {}
  Addr = {a1, a2}
  User = {u1, u2}
  Address <- MCSameAddress
  Discord <- MCSameDiscord
  Malformed = {}
  Unauthorised = {}
  Mispriced = {}
  WebWindow = 1
  BotWindow = 2
  NonceOverride <- MCAuto
  MaxRequests = 2
  MaxTime = 2
  MaxFaults = 0
INVARIANT
  ExpectedNonceComes
CHECK_DEADLOCK FALSE
