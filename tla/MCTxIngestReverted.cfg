SPECIFICATION Spec
CONSTANTS
  t1 = t1  t2 = t2  t3 = t3  t4 = t4  t5 = t5  t6 = t6  t7 = t7
  t8 = t8  set = set  schema = schema  attestation = attestation
  alice = alice  bob = bob
  Tx = {t1, t2, t3, t4, t5, t6, t7, t8}
  Id = {set, schema, attestation}
  Chain <- MCChain
  Kind <- MCKind
  Outcome <- MCOutcome
  Sender <- MCSender
  Receiver <- MCReceiver
  Registers <- MCRegisters
  Parent <- MCParent
  Addr = {alice, bob}
  Nobody = Nobody
  MaxFaults = 0
INVARIANT
  RevertedRecorded
CHECK_DEADLOCK FALSE
