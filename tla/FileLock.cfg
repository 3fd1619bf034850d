CONSTANTS
  p1 = p1
  p2 = p2
  s1 = s1
  Proc = {p1, p2, s1}
  MexProc = {p1, p2}
  Nobody = Nobody
  Ghost = Ghost
  MaxBeats = 1
  MaxCrashes = 1
  MaxFaults = 1
SPECIFICATION FairSpec
INVARIANTS TypeOK MutualExclusion RegistryHonest
PROPERTIES ImplementsMutex KernelFreed StaleBodyCleared
