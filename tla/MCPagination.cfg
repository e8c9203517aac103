SPECIFICATION FairSpec
CONSTANTS
  r1 = r1  r2 = r2  r3 = r3
  Row = {r1, r2, r3}
  MaxSlot = 2
  MaxTie = 1
  Endpoints = {"blocks", "txs", "address_txs", "schemas", "attestations",
               "attestations_by_schema", "attestations_by_attestor_set",
               "attestor_sets", "attestor_sets_by_member", "bounties",
               "contracts"}
  Requested <- MCRequested
  DefaultLimit = 2
  MaxLimit = 3
INVARIANTS
  TypeOK
  NoRepeats
  NothingMissed
PROPERTIES
  WalkEnds
CHECK_DEADLOCK FALSE
