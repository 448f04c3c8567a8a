SPECIFICATION FairSpec
CONSTANTS
  Process = {p1, p2}
  Slot = {s1}
  Threshold = 2
  MaxFaults = 0
  None = None
PROPERTY ReadinessRecovers
