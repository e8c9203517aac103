SPECIFICATION Spec
CONSTANTS
  r1 = r1  r2 = r2
  Handler = {r1, r2}
  TTL <- MCTTL
  MaxAge <- MCMaxAge
  UnknownAge = 2
  MaxRows <- MCMaxRows
  MaxFaults = 1
SYMMETRY MCSymmetry
INVARIANTS
  AnswersRecent
  OutageNotSticky
  FailuresExplained
  HitResolves
  LagSound
CHECK_DEADLOCK FALSE
