\* Both modes, two tags on one raw file.
CONSTANTS
  Tag = {a, b}
  File = {f}
  RawOf <- MCRawOf
  Modes = {TRUE, FALSE}
  None = None
  Torn = Torn
  MaxRows = 3
  MaxTime = 2
  MaxRotations = 1
  MaxFaults = 2
  MaxRestarts = 1
SPECIFICATION FairSpec
INVARIANTS
  TypeOK
  CacheFaithful
  NoRowSkipped
  OlderGranulesTaken
  OnceInOrder
PROPERTY
  SingleUserPickedUp
