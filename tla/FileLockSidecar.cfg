CONSTANTS
  s1 = s1
  s2 = s2
  Proc = {s1, s2}
  MexProc = {}
  Nobody = Nobody
  Ghost = Ghost
  MaxBeats = 0
  MaxCrashes = 0
  MaxFaults = 0
SPECIFICATION Spec
INVARIANT SidecarExclusion
