CONSTANTS
  w1 = w1
  c1 = c1
  Writer = {w1}
  Reader = {}
  Event <- MCAnagrams
  None = None
  Hash = Hash
  NL = NL
  MaxTime = 0
  MaxCrashes = 0
  MaxShort = 0
  Consolidator = {c1}
  MaxMishaps = 0
SPECIFICATION PassSpec
PROPERTIES DifferentEventsKept
CHECK_DEADLOCK FALSE
