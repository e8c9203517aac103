SPECIFICATION Spec
CONSTANTS
  b1 = b1  b2 = b2  c1 = c1
  Bounty = {b1}
  Contract = {}
  Boardless = {}
  Pool = 3
  Payout = 2
  MaxTxs = 2
  MaxBatch = 2
  MaxFaults = 1
INVARIANT
  EscrowIsU128
CHECK_DEADLOCK FALSE
