SPECIFICATION FairSpec
CONSTANTS
  MaxHeight = 3
  MaxFaults = 2
  StartHeight <- MCFromCursor
  Unreported = {1}
  Linked = {3}
INVARIANTS
  TypeOK
  NoSilentGap
  FinalityTruthful
  PrevHashLinked
PROPERTIES
  EventuallySettled
  FinalityConverges
  NothingForgotten
  RefinesBackfill
