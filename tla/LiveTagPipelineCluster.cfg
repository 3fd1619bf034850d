\* Cluster mode only, two tags on one raw file, nothing fails.
CONSTANTS
  Tag = {a, b}
  File = {f}
  RawOf <- MCRawOf
  Modes = {TRUE}
  None = None
  Torn = Torn
  MaxRows = 2
  MaxTime = 2
  MaxRotations = 0
  MaxFaults = 0
  MaxRestarts = 0
SPECIFICATION FairSpec
PROPERTY
  MtimePickedUp
