CONSTANTS
  w1 = w1
  c1 = c1
  c2 = c2
  Writer = {w1}
  Reader = {}
  Event <- MCEvent
  None = None
  Hash = Hash
  NL = NL
  MaxTime = 0
  MaxCrashes = 0
  MaxShort = 0
  Consolidator = {c1, c2}
  MaxMishaps = 2
SPECIFICATION FairPassSpec
INVARIANTS PassTypeOK SnapshotDistinct
PROPERTIES SnapshotExtends OneMishapLosesNothing SnapshotCatchesUp
CHECK_DEADLOCK FALSE
