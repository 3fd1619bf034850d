CONSTANTS
  p1 = p1
  p2 = p2
  Proc = {p1, p2}
  Nobody = Nobody
  Ghost = Ghost
  MaxBeats = 1
  MaxCrashes = 1
  MaxFaults = 1
  MaxMisses = 2
  Batches = 1
  Retries = 2
SPECIFICATION FairSpec
INVARIANTS TypeOK AckedDurable RenamerOwnsLock
PROPERTIES AppendOnly WriteEnds
CHECK_DEADLOCK FALSE
