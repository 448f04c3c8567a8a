SPECIFICATION FairSpec
CONSTANTS
  Process = {p1, p2}
  Slot = {s1}
  Threshold = 2
  MaxFaults = 1
  None = None
INVARIANT TypeOK
INVARIANT TripsAtThreshold
PROPERTY Heals
