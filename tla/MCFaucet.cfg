SPECIFICATION FairSpec
CONSTANTS
  w1 = w1  w2 = w2  w3 = w3  b1 = b1  b2 = b2  b3 = b3  b4 = b4
  a1 = a1  a2 = a2  u1 = u1  u2 = u2
  Web = {w1, w2, w3}
  Bot = {b1, b2, b3, b4}
  Addr = {a1, a2}
  User = {u1, u2}
  Address <- MCMixedAddress
  Discord <- MCMixedDiscord
  Malformed = {w3}
  Unauthorised = {}
  Mispriced = {b4}
  WebWindow = 1
  BotWindow = 1
  NonceOverride <- MCAuto
  MaxRequests = 3
  MaxTime = 1
  MaxFaults = 1
INVARIANTS
  TypeOK
  DripsSpaced
  AnswersTruthful
  NoncesDistinct
  StatusTruthful
PROPERTIES
  Answered
CHECK_DEADLOCK FALSE
