SPECIFICATION Spec
CONSTANTS
  Process = {p1}
  Slot = {s1, s2, s3}
  Threshold = 3
  MaxFaults = 2
  None = None
INVARIANT OpenIsCounted
PROPERTIES OpenHolds ImplementsBreaker
