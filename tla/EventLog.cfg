CONSTANTS
  w1 = w1
  w2 = w2
  r1 = r1
  e1 = e1
  e2 = e2
  e3 = e3
  Writer = {w1, w2}
  Reader = {r1}
  Event = {e1, e2, e3}
  None = None
  Hash = Hash
  NL = NL
  MaxTime = 1
  MaxCrashes = 1
  MaxShort = 1
SPECIFICATION FairSpec
INVARIANTS TypeOK AckedReadable LinesIntact CacheComplete
PROPERTIES AppendOnly LockReleased
CHECK_DEADLOCK FALSE
