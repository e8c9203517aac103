SPECIFICATION Spec
CONSTANTS
  x = x  y = y
  Events <- MCEvents
  Ids <- MCIds
  MaxEvents = 3
  U128Max = 4
  Base = 32
  PrefixLen = 1  SigLen = 2  PubLen = 2  AddrLen = 1
  NonceLen = 1  PrioLen = 1  FeeLen = 2  GasLen = 2  ChainLen = 1
  ChainId <- MCChainId
  Signed <- MCSigned
INVARIANTS
  SemanticWins
  NoiseIgnored
  ClaimTally
  SignerExact
  NonceExact
CHECK_DEADLOCK FALSE
