SPECIFICATION Spec
CONSTANTS
  b1 = b1  b2 = b2  c1 = c1
  Bounty = {b1, b2}
  Contract = {c1}
  Boardless = {b2}
  Pool = 2
  Payout = 1
  MaxTxs = 5
  MaxBatch = 2
  MaxFaults = 2
INVARIANTS
  TypeOK
  EscrowNotUnderstated
  MirrorsChain
PROPERTIES
  ClosedStaysClosed
CHECK_DEADLOCK FALSE
